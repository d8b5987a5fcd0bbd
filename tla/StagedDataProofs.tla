-------------------------- MODULE StagedDataProofs --------------------------
(***************************************************************************)
(* Machine-checked proofs about the data the code of local staging works   *)
(* on: wherever a buffer was moved to, the operation that uses it finds    *)
(* what was last written to it.                                            *)
(***************************************************************************)
EXTENDS StagedCodeProofs

-----------------------------------------------------------------------------
(* The code: a copy is of one memref to a later one of the same buffer, and *)
(* an operation works on memrefs of the buffers it worked on.               *)
IsCopy(x) == x.kind = "copy"
Defines(x, m) == x.kind # "exec" /\ m \in x.writes
Needs(x, m) == IF IsCopy(x) THEN m \in x.reads ELSE x.kind = "exec" /\ m \in Touched(x)

CopyOk(x, M) ==
  /\ x.time = 0 /\ x.at \in Times(prog)
  /\ \E f, g \in 1 .. Len(M) : /\ x.reads = {f} /\ x.writes = {g} /\ f < g /\ g \notin Bufs(prog)
                               /\ M[f].buf = M[g].buf

OperationOk(x, M) ==
  LET op == prog.ops[x.time]
  IN /\ x.time \in Times(prog) /\ x.at = x.time /\ x.kind = op.kind
     /\ x.kind # "exec" => x.writes = op.writes
     /\ \A m \in x.writes : M[m].buf \in op.writes
     /\ \A b \in op.writes : \E m \in x.writes : M[m].buf = b

Shapes(c, M) == \A x \in Range(c) : IF IsCopy(x) THEN CopyOk(x, M) ELSE OperationOk(x, M)

Shaped == Shapes(code, memrefs)

(* An operation whose uses of old at the times are on new. *)
Renames(o, op, times, old, new) ==
  /\ o.kind = op.kind /\ o.time = op.time /\ o.at = op.at
  /\ op.time \notin times => o = op
  /\ op.time \in times => /\ o.reads = Renamed(op.reads, old, new)
                          /\ o.writes = Renamed(op.writes, old, new)

(* The code e is what c had, renamed so, and the copies N. *)
Grown(c, e, N, times, old, new) ==
  \A o \in Range(e) : o \in N \/ \E op \in Range(c) : Renames(o, op, times, old, new)

LEMMA ReplacedAt ==
  ASSUME NEW d \in Seq(CodeType), NEW times, NEW old, NEW new, NEW e, e = Replaced(d, times, old, new)
  PROVE  DOMAIN e = DOMAIN d /\ \A i \in DOMAIN d : Renames(e[i], d[i], times, old, new)
<1>1. /\ DOMAIN e = DOMAIN d
      /\ \A i \in DOMAIN d : d[i].time \notin times => e[i] = d[i]
      /\ \A i \in DOMAIN d : d[i].time \in times =>
           e[i] = [d[i] EXCEPT !.reads = Renamed(@, old, new), !.writes = Renamed(@, old, new)]
  BY DEF Replaced
<1>2. ASSUME NEW i \in DOMAIN d PROVE Renames(e[i], d[i], times, old, new)
  <2>1. PICK op \in CodeType : op = d[i]
    OBVIOUS
  <2>2. CASE op.time \notin times
    BY <1>1, <2>1, <2>2 DEF Renames
  <2>3. CASE op.time \in times
    <3>1. PICK r, w : r = Renamed(op.reads, old, new) /\ w = Renamed(op.writes, old, new)
      OBVIOUS
    <3>2. e[i] = [op EXCEPT !.reads = r, !.writes = w]
      BY <1>1, <2>1, <2>3, <3>1
    <3>3. /\ e[i].kind = op.kind /\ e[i].time = op.time /\ e[i].at = op.at /\ e[i].reads = r
          /\ e[i].writes = w
      BY <3>2 DEF CodeType
    <3>4. QED BY <2>1, <2>3, <3>1, <3>3 DEF Renames
  <2>4. QED BY <2>2, <2>3
<1>3. QED BY <1>1, <1>2

LEMMA GrownReplaced ==
  ASSUME NEW c, NEW d \in Seq(CodeType), NEW N, Range(d) \subseteq Range(c) \cup N, NEW times, NEW old, NEW new,
         \A op \in N : op.time \notin times
  PROVE  Grown(c, Replaced(d, times, old, new), N, times, old, new)
<1>1. PICK e : e = Replaced(d, times, old, new)
  OBVIOUS
<1>2. DOMAIN e = DOMAIN d /\ \A i \in DOMAIN d : Renames(e[i], d[i], times, old, new)
  BY <1>1, ReplacedAt
<1>3. ASSUME NEW o \in Range(e)
      PROVE  o \in N \/ \E op \in Range(c) : Renames(o, op, times, old, new)
  <2>1. PICK i \in DOMAIN d : e[i] = o
    BY <1>2, InRange
  <2>2. d[i] \in Range(d) /\ Renames(o, d[i], times, old, new)
    BY <1>2, <2>1, InRange
  <2>3. d[i] \in N => o = d[i]
    BY <2>2 DEF Renames
  <2>4. QED BY <2>2, <2>3
<1>4. QED BY <1>1, <1>3 DEF Grown

LEMMA GrownOnly ==
  ASSUME NEW c, NEW d, NEW N, Range(d) \subseteq Range(c) \cup N, NEW old, NEW new
  PROVE  Grown(c, d, N, {}, old, new)
<1>1. \A op : Renames(op, op, {}, old, new)
  BY DEF Renames
<1>2. QED BY <1>1 DEF Grown

(* What an eviction inserts: the spill before the definition of what takes  *)
(* the place, the reload before the next use.                               *)
Inserts(c, d, p, x) ==
  /\ c \in Seq(CodeType) /\ d \in Seq(CodeType) /\ x \in CodeType /\ p \in 1 .. Len(c)
  /\ d = Spliced(c, <<x>>, p) /\ Range(d) = Range(c) \cup {x} /\ x.at = c[p].at

LEMMA CopyInserts ==
  ASSUME NEW n \in Nat, NEW c, CodeOk(c, n), NEW p \in 1 .. Len(c), NEW from \in 1 .. n
  PROVE  /\ CodeOk(CopyBefore(c, p, from, n + 1), n + 1)
         /\ Inserts(c, CopyBefore(c, p, from, n + 1), p, Copy(c[p].at, from, n + 1))
<1>1. CodeOk(CopyBefore(c, p, from, n + 1), n + 1)
  BY CodeCopies
<1>2. PICK s \in Seq(CodeType) : s = c
  BY DEF CodeOk
<1>3. PICK t \in Nat : t = c[p].at
  <2>1. s[p] \in CodeType
    BY <1>2, ElementOfSeq
  <2>2. QED BY <1>2, <2>1 DEF CodeType
<1>4. PICK e \in CodeType : e = Copy(t, from, n + 1) /\ e.at = t
  <2>1. n + 1 \in Nat /\ from \in Nat
    OBVIOUS
  <2>2. PICK e : e = Copy(t, from, n + 1)
    OBVIOUS
  <2>3. e \in CodeType /\ e.at = t
    BY <2>1, <2>2 DEF Copy, CodeType
  <2>4. QED BY <2>2, <2>3
<1>5. /\ InsertAt(s, p, e) \in Seq(CodeType) /\ Range(InsertAt(s, p, e)) = Range(s) \cup {e}
  <2>1. p \in 1 .. Len(s) + 1 /\ Len(s) \in Nat
    BY <1>2
  <2>2. QED BY ONLY s \in Seq(CodeType), e \in CodeType, <2>1, Inserted
<1>6. InsertAt(s, p, e) = Spliced(s, <<e>>, p)
  BY DEF InsertAt, Spliced
<1>7. CopyBefore(c, p, from, n + 1) = InsertAt(s, p, e)
  BY <1>2, <1>3, <1>4 DEF CopyBefore
<1>8. QED BY <1>1, <1>2, <1>3, <1>4, <1>5, <1>6, <1>7 DEF Inserts

Writes(d, n, a, next, uses, p) ==
  /\ p \in 1 .. Len(code) /\ CodeOk(d, n + 1)
  /\ Inserts(code, d, p, Copy(code[p].at, a.mem, n + 1))
  /\ ~ Comes(a, next, uses) => code' = d

WritesBack(d, e, n, a, uses, q) ==
  /\ q \in 1 .. Len(d) /\ CodeOk(e, n + 2) /\ d[q].time = Min(uses) /\ Min(uses) \in uses
  /\ Inserts(d, e, q, Copy(d[q].at, n + 1, n + 2))
  /\ code' = Replaced(e, uses, a.mem, n + 2)

LEMMA SpillCode ==
  ASSUME ScanInv, CodeInv, NEW k \in Tiers, NEW v \in Ids, NEW i \in Nat, NEW a \in IntervalType,
         NEW c \in IntervalType, NEW x \in IntervalType, NEW next \in Int, NEW uses \in SUBSET Nat,
         NEW n \in Nat, Makes(k, v, i, a, c, x, next, uses, n)
  PROVE  \E d, p : /\ Writes(d, n, a, next, uses, p) /\ Defines(code[p], c.mem)
                   /\ Comes(a, next, uses) => \E e, q : WritesBack(d, e, n, a, uses, q)
<1>1. /\ n = Len(memrefs) /\ a.mem \in 1 .. n /\ c.mem \in 1 .. n /\ Sound(a)
      /\ uses = {u \in a.uses : u >= next}
      /\ code' = LET spilled == CopyBefore(code, DefPos(code, c.mem), a.mem, n + 1)
                     reloaded == CopyBefore(spilled, TimePos(spilled, Min(uses)), n + 1, n + 2)
                 IN IF Comes(a, next, uses) THEN Replaced(reloaded, uses, a.mem, n + 2) ELSE spilled
  BY DEF Makes, Spills
<1>2. CodeOk(code, n)
  BY <1>1 DEF CodeInv
<1>3. PICK p \in 1 .. Len(code) : p = DefPos(code, c.mem)
  BY <1>1, <1>2, PositionOfDef
<1>4. PICK d : d = CopyBefore(code, p, a.mem, n + 1)
  OBVIOUS
<1>5. CodeOk(d, n + 1) /\ Inserts(code, d, p, Copy(code[p].at, a.mem, n + 1))
  <2>1. PICK m \in 1 .. n : m = a.mem
    BY <1>1
  <2>2. /\ CodeOk(CopyBefore(code, p, m, n + 1), n + 1)
        /\ Inserts(code, CopyBefore(code, p, m, n + 1), p, Copy(code[p].at, m, n + 1))
    BY <1>2, CopyInserts
  <2>3. QED BY <1>4, <2>1, <2>2
<1>6. Defines(code[p], c.mem)
  <2>1. \E op \in Range(code) : op.kind # "exec" /\ c.mem \in op.writes
    BY <1>1, <1>2 DEF CodeOk
  <2>2. \E j \in DOMAIN code : code[j].kind # "exec" /\ c.mem \in code[j].writes
    BY <2>1, InRange
  <2>3. code[DefPos(code, c.mem)].kind # "exec" /\ c.mem \in code[DefPos(code, c.mem)].writes
    BY <2>2 DEF DefPos
  <2>4. QED BY <1>3, <2>3 DEF Defines
<1>7. ~ Comes(a, next, uses) => code' = d
  BY <1>1, <1>3, <1>4
<1>8. ASSUME Comes(a, next, uses) PROVE \E e, q : WritesBack(d, e, n, a, uses, q)
  <2>1. Min(uses) \in uses
    BY <1>8, MinIsLeast DEF Comes
  <2>2. Min(uses) \in Times(prog)
    BY <1>1, <2>1 DEF Sound, ExecTimes
  <2>3. PICK q \in 1 .. Len(d) : q = TimePos(d, Min(uses))
    BY <1>5, <2>2, PositionOfTime
  <2>4. d[q].time = Min(uses)
    <3>1. \E op \in Range(d) : op.time = Min(uses)
      BY <1>5, <2>2 DEF CodeOk
    <3>2. \E j \in DOMAIN d : d[j].time = Min(uses)
      BY <3>1, InRange
    <3>3. QED BY <2>3, <3>2 DEF TimePos
  <2>5. PICK e : e = CopyBefore(d, q, n + 1, n + 2)
    OBVIOUS
  <2>6. CodeOk(e, n + 2) /\ Inserts(d, e, q, Copy(d[q].at, n + 1, n + 2))
    <3>1. PICK l \in Nat : l = n + 1 /\ l \in 1 .. l /\ l + 1 = n + 2
      OBVIOUS
    <3>2. CodeOk(d, l)
      BY <1>5, <3>1
    <3>3. /\ CodeOk(CopyBefore(d, q, l, l + 1), l + 1)
          /\ Inserts(d, CopyBefore(d, q, l, l + 1), q, Copy(d[q].at, l, l + 1))
      BY <3>1, <3>2, CopyInserts
    <3>4. QED BY <2>5, <3>1, <3>3
  <2>7. code' = Replaced(e, uses, a.mem, n + 2)
    BY <1>1, <1>3, <1>4, <1>8, <2>3, <2>5
  <2>8. QED BY <2>1, <2>4, <2>6, <2>7 DEF WritesBack
<1>9. QED BY <1>5, <1>6, <1>7, <1>8 DEF Writes

(* The stages of a chain come right before their use. *)
Stages(b, t, h, n, p, cs, d) ==
  /\ p \in 1 .. Len(code) /\ code[p].time = t /\ code \in Seq(CodeType) /\ b <= n
  /\ cs \in Seq(CodeType) /\ DOMAIN cs = 1 .. h
  /\ \A i \in 1 .. h : cs[i] = Copy(t, IF i = 1 THEN b ELSE n + i - 1, n + i)
  /\ d \in Seq(CodeType) /\ d = Spliced(code, cs, p) /\ Range(d) = Range(code) \cup Range(cs)
  /\ code' = Replaced(d, {t}, b, n + h)

LEMMA ChainCode ==
  ASSUME ScanInv, CodeInv, NEW b \in Bufs(prog), NEW t \in ExecTimes, NEW h \in Nat, NEW n \in Nat,
         Chained(b, t, h, n)
  PROVE  \E p, cs, d : Stages(b, t, h, n, p, cs, d)
<1>1. h = HomeOf(prog, b) /\ n = Len(memrefs) /\ Len(prog.size) <= n /\ code' = Staged(b, t)
  BY DEF Chained
<1>2. CodeOk(code, n)
  BY <1>1 DEF CodeInv
<1>3. PICK s \in Seq(CodeType) : s = code
  BY <1>2 DEF CodeOk
<1>4. b <= n
  <2>1. b \in 1 .. Len(prog.size) /\ Len(prog.size) \in Nat
    BY FunctionTyped DEF ScanInv
  <2>2. QED BY <1>1, <2>1
<1>5. PICK cs \in Seq(CodeType) : cs = StageCopies(b, t, n)
  <2>1. t \in Nat
    BY FunctionTyped DEF ScanInv, ExecTimes
  <2>2. QED BY <1>1, <1>4, <2>1, StageCopiesTyped DEF ScanInv
<1>6. DOMAIN cs = 1 .. h /\ \A i \in 1 .. h : cs[i] = Copy(t, IF i = 1 THEN b ELSE n + i - 1, n + i)
  BY <1>1, <1>5 DEF StageCopies
<1>7. PICK p \in 1 .. Len(s) : p = TimePos(code, t)
  BY <1>2, <1>3, PositionOfTime DEF ExecTimes
<1>8. code[p].time = t
  <2>1. \E op \in Range(code) : op.time = t
    BY <1>2 DEF CodeOk, ExecTimes
  <2>2. \E j \in DOMAIN code : code[j].time = t
    BY <2>1, InRange
  <2>3. QED BY <1>7, <2>2 DEF TimePos
<1>9. PICK d \in Seq(CodeType) : /\ d = WithStages(b, t) /\ d = Spliced(s, cs, p)
                                 /\ Range(d) = Range(s) \cup Range(cs)
  <2>1. p \in 1 .. Len(s) + 1
    <3>1. Len(s) \in Nat
      OBVIOUS
    <3>2. QED BY <3>1
  <2>2. Spliced(s, cs, p) \in Seq(CodeType) /\ Range(Spliced(s, cs, p)) = Range(s) \cup Range(cs)
    BY <2>1, Splice
  <2>3. WithStages(b, t) = Spliced(s, cs, p)
    BY <1>1, <1>3, <1>5, <1>7 DEF WithStages, Spliced
  <2>4. QED BY <2>2, <2>3
<1>10. code' = Replaced(d, {t}, b, n + h)
  BY <1>1, <1>9 DEF Staged
<1>11. Stages(b, t, h, n, p, cs, d)
  BY <1>3, <1>4, <1>6, <1>7, <1>8, <1>9, <1>10 DEF Stages
<1>12. QED BY <1>11

(* The code keeps its shape. *)
LEMMA ShapesStay ==
  ASSUME NEW c, NEW M, NEW L, Shapes(c, M), Len(M) \in Nat, Len(L) \in Nat, Len(M) <= Len(L),
         \A x \in Range(c) : x.writes \subseteq 1 .. Len(M),
         \A m \in 1 .. Len(M) : L[m].buf = M[m].buf
  PROVE  Shapes(c, L)
<1>1. ASSUME NEW x \in Range(c), IsCopy(x), CopyOk(x, M) PROVE CopyOk(x, L)
  <2>1. PICK f, g \in 1 .. Len(M) : /\ x.reads = {f} /\ x.writes = {g} /\ f < g /\ g \notin Bufs(prog)
                                    /\ M[f].buf = M[g].buf
    BY <1>1 DEF CopyOk
  <2>2. f \in 1 .. Len(L) /\ g \in 1 .. Len(L) /\ L[f].buf = L[g].buf
    BY <2>1
  <2>3. QED BY <1>1, <2>1, <2>2, SMTT(30) DEF CopyOk
<1>2. ASSUME NEW x \in Range(c), OperationOk(x, M) PROVE OperationOk(x, L)
  <2>1. \A m \in x.writes : L[m].buf = M[m].buf
    OBVIOUS
  <2>2. QED BY <1>2, <2>1 DEF OperationOk
<1>3. QED BY <1>1, <1>2 DEF Shapes

LEMMA GrownShapes ==
  ASSUME prog \in Programs, NEW c, NEW e, NEW N, NEW times \in SUBSET ExecTimes, NEW old, NEW new, NEW M,
         Grown(c, e, N, times, old, new), Shapes(c, M), \A x \in N : IsCopy(x) /\ CopyOk(x, M),
         times # {} => M[new].buf = M[old].buf
  PROVE  Shapes(e, M)
<1>1. ASSUME NEW o \in Range(e) PROVE IF IsCopy(o) THEN CopyOk(o, M) ELSE OperationOk(o, M)
  <2>1. CASE o \in N
    BY <2>1
  <2>2. ASSUME NEW op \in Range(c), Renames(o, op, times, old, new)
        PROVE  IF IsCopy(o) THEN CopyOk(o, M) ELSE OperationOk(o, M)
    <3>1. IF IsCopy(op) THEN CopyOk(op, M) ELSE OperationOk(op, M)
      BY DEF Shapes
    <3>2. CASE op.time \notin times
      BY <2>2, <3>1, <3>2 DEF Renames
    <3>3. CASE op.time \in times
      <4>1. op.time \in ExecTimes /\ op.time # 0
        BY <3>3, FunctionTyped DEF ExecTimes
      <4>2. ~ IsCopy(op) /\ OperationOk(op, M)
        BY <3>1, <4>1 DEF CopyOk
      <4>3. /\ o.kind = op.kind /\ o.time = op.time /\ o.at = op.at /\ o.writes = Renamed(op.writes, old, new)
        BY <2>2, <3>3 DEF Renames
      <4>4. op.kind = "exec"
        BY <4>1, <4>2 DEF OperationOk, ExecTimes
      <4>5. ~ IsCopy(o)
        BY <4>2, <4>3 DEF IsCopy
      <4>6. M[new].buf = M[old].buf
        BY <3>3
      <4>7. \A m \in o.writes : (m \in op.writes /\ m # old) \/ (m = new /\ old \in op.writes)
        BY <4>3 DEF Renamed
      <4>8. /\ \A m \in op.writes : M[m].buf \in prog.ops[op.time].writes
            /\ \A b \in prog.ops[op.time].writes : \E m \in op.writes : M[m].buf = b
        BY <4>2 DEF OperationOk
      <4>9. \A m \in o.writes : M[m].buf \in prog.ops[o.time].writes
        BY <4>3, <4>6, <4>7, <4>8
      <4>10. ASSUME NEW b \in prog.ops[o.time].writes PROVE \E m \in o.writes : M[m].buf = b
        <5>1. PICK m \in op.writes : M[m].buf = b
          BY <4>3, <4>8
        <5>2. CASE m = old
          <6>1. new \in o.writes
            BY <4>3, <5>2 DEF Renamed
          <6>2. QED BY <4>6, <5>1, <5>2, <6>1
        <5>3. CASE m # old
          <6>1. m \in o.writes
            BY <4>3, <5>3 DEF Renamed
          <6>2. QED BY <5>1, <6>1
        <5>4. QED BY <5>2, <5>3
      <4>11. OperationOk(o, M)
        BY <4>2, <4>3, <4>4, <4>9, <4>10 DEF OperationOk
      <4>12. QED BY <4>5, <4>11
    <3>4. QED BY <3>2, <3>3
  <2>3. QED BY <2>1, <2>2 DEF Grown
<1>2. QED BY <1>1 DEF Shapes

LEMMA ShapedInit == Init => Shaped
<1> SUFFICES ASSUME Init PROVE Shaped
  OBVIOUS
<1>1. /\ prog \in Programs /\ \A b \in Bufs(prog) : memrefs[b].buf = b
      /\ code = [t \in Times(prog) |-> [kind |-> prog.ops[t].kind, time |-> t, at |-> t,
                                        reads |-> prog.ops[t].reads, writes |-> prog.ops[t].writes]]
  BY DEF Init, Unplaced
<1>2. ASSUME NEW x \in Range(code) PROVE ~ IsCopy(x) /\ OperationOk(x, memrefs)
  <2>1. PICK t \in Times(prog) : x = [kind |-> prog.ops[t].kind, time |-> t, at |-> t,
                                      reads |-> prog.ops[t].reads, writes |-> prog.ops[t].writes]
    BY <1>1, InRange
  <2>2. /\ prog.ops[t] \in Operations(Bufs(prog)) /\ Touched(prog.ops[t]) \subseteq Bufs(prog)
    BY <1>1, FunctionTyped
  <2>3. prog.ops[t].writes \subseteq Bufs(prog) /\ prog.ops[t].kind # "copy"
    BY <2>2 DEF Operations, Touched
  <2>4. /\ x.kind = prog.ops[t].kind /\ x.time = t /\ x.at = t /\ x.writes = prog.ops[t].writes
    BY <2>1
  <2>5. QED BY <1>1, <2>3, <2>4 DEF IsCopy, OperationOk
<1>3. QED BY <1>2 DEF Shaped, Shapes

LEMMA CopyIsOk ==
  ASSUME NEW t \in Times(prog), NEW M, NEW f \in 1 .. Len(M), NEW g \in 1 .. Len(M), f < g, g \notin Bufs(prog),
         M[f].buf = M[g].buf
  PROVE  IsCopy(Copy(t, f, g)) /\ CopyOk(Copy(t, f, g), M)
<1>1. PICK x : x = Copy(t, f, g)
  OBVIOUS
<1>2. x.kind = "copy" /\ x.time = 0 /\ x.at = t /\ x.reads = {f} /\ x.writes = {g}
  BY <1>1 DEF Copy
<1>3. IsCopy(x) /\ CopyOk(x, M)
  BY <1>2 DEF IsCopy, CopyOk
<1>4. QED BY <1>1, <1>3

LEMMA ShapedSpill == ScanInv /\ CodeInv /\ Labelled /\ Shaped /\ Spill => Shaped'
<1> SUFFICES ASSUME ScanInv, CodeInv, Labelled, Shaped, Spill PROVE Shaped'
  OBVIOUS
<1>1. prog' = prog
  BY SpillMakes
<1>2. PICK k \in Tiers, v \in Ids, i \in Nat, a \in IntervalType, c \in IntervalType, x \in IntervalType,
           next \in Int, uses \in SUBSET Nat, n \in Nat : Makes(k, v, i, a, c, x, next, uses, n)
  BY SpillMakes
<1>3. /\ n = Len(memrefs) /\ a.mem \in 1 .. n /\ Len(prog.size) <= n /\ a \in Pieces(k) /\ a.id = v /\ Sound(a)
      /\ a.mem # NoMem /\ uses \subseteq a.uses
      /\ Len(memrefs') = n + (IF Comes(a, next, uses) THEN 2 ELSE 1)
      /\ \A m \in 1 .. n : memrefs'[m] = memrefs[m]
      /\ memrefs'[n + 1] = Unplaced(v.buf)
      /\ Comes(a, next, uses) => memrefs'[n + 2] = Unplaced(v.buf)
  BY <1>2 DEF Makes, Spills
<1>4. PICK d, p : /\ Writes(d, n, a, next, uses, p)
                  /\ Comes(a, next, uses) => \E e, q : WritesBack(d, e, n, a, uses, q)
  BY <1>2, SpillCode
<1>5. PICK M : M = memrefs' /\ Len(M) \in Nat /\ n + 1 <= Len(M)
  BY <1>3
<1>6. /\ \A m \in 1 .. n : M[m].buf = memrefs[m].buf
      /\ M[n + 1].buf = M[a.mem].buf
      /\ Comes(a, next, uses) => n + 2 \in 1 .. Len(M) /\ M[n + 2].buf = M[a.mem].buf
  <2>1. memrefs[a.mem].buf = v.buf
    BY <1>3 DEF Labelled
  <2>2. QED BY <1>3, <1>5, <2>1 DEF Unplaced
<1>7. \A b \in Bufs(prog) : b <= n
  BY <1>3, FunctionTyped DEF ScanInv
<1>8. \A y \in Range(code) : y.at \in Times(prog) /\ y.writes \subseteq 1 .. n
  <2>1. ASSUME NEW y \in Range(code) PROVE y.at \in Times(prog)
    BY DEF Shaped, Shapes, CopyOk, OperationOk
  <2>2. QED BY <1>3, <2>1 DEF CodeInv, CodeOk, Touched
<1>9. Shapes(code, M)
  <2>1. n <= Len(M)
    BY <1>5
  <2>2. QED BY <1>3, <1>5, <1>6, <1>8, <2>1, ShapesStay DEF Shaped
<1>10. uses \subseteq ExecTimes
  BY <1>3 DEF Sound
<1>11. /\ p \in 1 .. Len(code) /\ code \in Seq(CodeType) /\ d \in Seq(CodeType)
       /\ Range(d) = Range(code) \cup {Copy(code[p].at, a.mem, n + 1)}
       /\ ~ Comes(a, next, uses) => code' = d
  BY <1>4 DEF Writes, Inserts
<1>12. PICK t \in Times(prog) : t = code[p].at
  <2>1. code[p] \in Range(code)
    BY <1>11, InRange
  <2>2. QED BY <1>8, <2>1
<1>13. PICK y : y = Copy(t, a.mem, n + 1)
  OBVIOUS
<1>14. IsCopy(y) /\ CopyOk(y, M)
  <2>1. a.mem \in 1 .. Len(M) /\ n + 1 \in 1 .. Len(M) /\ a.mem < n + 1 /\ n + 1 \notin Bufs(prog)
    BY <1>3, <1>5, <1>7
  <2>2. QED BY <1>6, <1>13, <2>1, CopyIsOk
<1>15. CASE ~ Comes(a, next, uses)
  <2>1. PICK N : N = {y}
    OBVIOUS
  <2>2. Grown(code, d, N, {}, 0, 0)
    BY <1>11, <1>12, <1>13, <2>1, GrownOnly
  <2>3. Shapes(d, M)
    BY <1>9, <1>14, <2>1, <2>2, GrownShapes DEF ScanInv
  <2>4. code' = d
    BY <1>11, <1>15
  <2>5. QED BY <1>1, <1>5, <2>3, <2>4 DEF Shaped, Shapes, CopyOk, OperationOk
<1>16. CASE Comes(a, next, uses)
  <2>1. PICK e, q : WritesBack(d, e, n, a, uses, q)
    BY <1>4, <1>16
  <2>2. /\ q \in 1 .. Len(d) /\ e \in Seq(CodeType) /\ Range(e) = Range(d) \cup {Copy(d[q].at, n + 1, n + 2)}
        /\ code' = Replaced(e, uses, a.mem, n + 2)
    BY <2>1 DEF WritesBack, Inserts
  <2>3. PICK s \in Times(prog) : s = d[q].at
    <3>1. d[q] \in Range(d)
      BY <1>11, <2>2, InRange
    <3>2. d[q].at \in Times(prog)
      <4>1. d[q] \in Range(code) \/ d[q] = y
        BY <1>11, <1>12, <1>13, <3>1
      <4>2. QED BY <1>8, <1>14, <4>1 DEF CopyOk
    <3>3. QED BY <3>2
  <2>4. PICK z : z = Copy(s, n + 1, n + 2)
    OBVIOUS
  <2>5. IsCopy(z) /\ CopyOk(z, M)
    <3>1. n + 1 \in 1 .. Len(M) /\ n + 2 \in 1 .. Len(M) /\ n + 1 < n + 2 /\ n + 2 \notin Bufs(prog)
      BY <1>3, <1>5, <1>6, <1>7, <1>16
    <3>2. M[n + 1].buf = M[n + 2].buf
      BY <1>6, <1>16
    <3>3. PICK f \in 1 .. Len(M), g \in 1 .. Len(M) : f = n + 1 /\ g = n + 2
      BY <3>1
    <3>4. QED BY <2>3, <2>4, <3>1, <3>2, <3>3, CopyIsOk
  <2>6. PICK N : N = {y, z}
    OBVIOUS
  <2>7. Range(e) \subseteq Range(code) \cup N
    BY <1>11, <1>12, <1>13, <2>2, <2>3, <2>4, <2>6
  <2>8. \A op \in N : op.time \notin uses
    <3>1. 0 \notin ExecTimes
      BY FunctionTyped DEF ScanInv, ExecTimes
    <3>2. QED BY <1>10, <1>14, <2>5, <2>6, <3>1 DEF CopyOk
  <2>9. Grown(code, Replaced(e, uses, a.mem, n + 2), N, uses, a.mem, n + 2)
    BY <2>2, <2>7, <2>8, GrownReplaced
  <2>10. Grown(code, code', N, uses, a.mem, n + 2)
    BY <2>2, <2>9
  <2>11. PICK g : g = code'
    OBVIOUS
  <2>12. Shapes(g, M)
    <3>1. M[n + 2].buf = M[a.mem].buf
      BY <1>6, <1>16
    <3>2. uses \in SUBSET ExecTimes
      BY <1>10
    <3>3. Grown(code, g, N, uses, a.mem, n + 2)
      BY <2>10, <2>11
    <3>4. QED BY <1>9, <1>14, <2>5, <2>6, <3>1, <3>2, <3>3, GrownShapes DEF ScanInv
  <2>13. QED BY <1>1, <1>5, <2>11, <2>12 DEF Shaped, Shapes, CopyOk, OperationOk
<1>17. QED BY <1>15, <1>16

LEMMA ShapedChain == ScanInv /\ CodeInv /\ Labelled /\ Shaped /\ EmitChain => Shaped'
<1> SUFFICES ASSUME ScanInv, CodeInv, Labelled, Shaped, EmitChain PROVE Shaped'
  OBVIOUS
<1>1. prog' = prog
  BY EmitChainDoes
<1>2. PICK b \in Bufs(prog), t \in ExecTimes, h \in Nat, n \in Nat : Chained(b, t, h, n)
  BY EmitChainDoes
<1>3. /\ h > 0 /\ h = HomeOf(prog, b) /\ n = Len(memrefs) /\ Len(prog.size) <= n /\ Len(memrefs') = n + h
      /\ \A m \in 1 .. n : memrefs'[m] = memrefs[m]
      /\ memrefs' = memrefs \o StageMemrefs(b, t)
  BY <1>2 DEF Chained
<1>4. PICK p, cs, d : Stages(b, t, h, n, p, cs, d)
  BY <1>2, ChainCode
<1>5. /\ p \in 1 .. Len(code) /\ b \in 1 .. n /\ cs \in Seq(CodeType) /\ DOMAIN cs = 1 .. h
      /\ \A i \in 1 .. h : cs[i] = Copy(t, IF i = 1 THEN b ELSE n + i - 1, n + i)
      /\ d \in Seq(CodeType) /\ Range(d) = Range(code) \cup Range(cs)
      /\ code' = Replaced(d, {t}, b, n + h)
  <2>1. b \in 1 .. Len(prog.size)
    BY FunctionTyped DEF ScanInv
  <2>2. QED BY <1>4, <2>1 DEF Stages
<1>6. PICK M : M = memrefs' /\ Len(M) = n + h /\ Len(M) \in Nat
  <2>1. Len(memrefs') = n + h
    BY <1>2 DEF Chained
  <2>2. n + h \in Nat
    OBVIOUS
  <2>3. QED BY <2>1, <2>2
<1>7. \A i \in 1 .. h : M[n + i].buf = b
  <2>1. PICK q \in Seq(MemrefType) : q = StageMemrefs(b, t) /\ Len(q) = h
    BY <1>3, StageMemrefsTyped
  <2>2. \A i \in 1 .. h : q[i].buf = b
    BY <1>3, <2>1 DEF StageMemrefs
  <2>3. memrefs \in Seq(MemrefType)
    BY DEF ScanInv, MemrefsTyped
  <2>4. \A i \in 1 .. Len(memrefs) + Len(q) :
          (memrefs \o q)[i] = IF i <= Len(memrefs) THEN memrefs[i] ELSE q[i - Len(memrefs)]
    BY <2>3, ConcatProperties
  <2>5. ASSUME NEW i \in 1 .. h PROVE M[n + i].buf = b
    <3>1. n + i \in 1 .. Len(memrefs) + Len(q) /\ ~ (n + i <= Len(memrefs)) /\ (n + i) - Len(memrefs) = i
      BY <1>3, <2>1
    <3>2. M[n + i] = q[i]
      BY <1>3, <1>6, <2>1, <2>4, <3>1
    <3>3. QED BY <2>2, <3>2
  <2>6. QED BY <2>5
<1>8. /\ \A m \in 1 .. n : M[m].buf = memrefs[m].buf
      /\ M[b].buf = b
  BY <1>3, <1>5, <1>6 DEF Labelled
<1>9. \A c \in Bufs(prog) : c <= n
  BY <1>3, FunctionTyped DEF ScanInv
<1>10. Shapes(code, M)
  <2>1. \A y \in Range(code) : y.writes \subseteq 1 .. n
    BY <1>3 DEF CodeInv, CodeOk, Touched
  <2>2. n <= Len(M)
    BY <1>6
  <2>3. QED BY <1>3, <1>6, <1>8, <2>1, <2>2, ShapesStay DEF Shaped
<1>11. \A y \in Range(cs) : IsCopy(y) /\ CopyOk(y, M)
  <2>1. ASSUME NEW i \in 1 .. h PROVE IsCopy(cs[i]) /\ CopyOk(cs[i], M)
    <3>1. PICK f, g : f = (IF i = 1 THEN b ELSE n + i - 1) /\ g = n + i
      OBVIOUS
    <3>2. f \in 1 .. Len(M) /\ g \in 1 .. Len(M) /\ f < g /\ g \notin Bufs(prog)
      BY <1>5, <1>6, <1>9, <3>1
    <3>3. M[g].buf = b
      BY <1>7, <3>1
    <3>4. M[f].buf = b
      <4>1. CASE i = 1
        BY <1>8, <3>1, <4>1
      <4>2. CASE i # 1
        <5>1. i - 1 \in 1 .. h /\ f = n + (i - 1)
          BY <3>1, <4>2
        <5>2. QED BY <1>7, <5>1
      <4>3. QED BY <4>1, <4>2
    <3>5. cs[i] = Copy(t, f, g)
      BY <1>5, <3>1
    <3>6. t \in Times(prog)
      BY DEF ExecTimes
    <3>7. QED BY <3>2, <3>3, <3>4, <3>5, <3>6, CopyIsOk
  <2>2. QED BY <1>5, <2>1, InRange
<1>12. PICK N : N = Range(cs)
  OBVIOUS
<1>13. Grown(code, Replaced(d, {t}, b, n + h), N, {t}, b, n + h)
  <2>1. \A op \in N : op.time \notin {t}
    <3>1. t # 0
      BY FunctionTyped DEF ScanInv, ExecTimes
    <3>2. QED BY <1>11, <1>12, <3>1 DEF CopyOk
  <2>2. Range(d) \subseteq Range(code) \cup N
    BY <1>5, <1>12
  <2>3. QED BY <1>5, <2>1, <2>2, GrownReplaced
<1>14. PICK g : g = code' /\ Grown(code, g, N, {t}, b, n + h)
  BY <1>5, <1>13
<1>15. Shapes(g, M)
  <2>1. M[n + h].buf = M[b].buf
    BY <1>3, <1>7, <1>8
  <2>2. {t} \in SUBSET ExecTimes
    OBVIOUS
  <2>3. QED BY <1>10, <1>11, <1>12, <1>14, <2>1, <2>2, GrownShapes DEF ScanInv
<1>16. QED BY <1>1, <1>6, <1>14, <1>15 DEF Shaped, Shapes, CopyOk, OperationOk

LEMMA ShapedStep == ScanInv /\ CodeInv /\ Labelled /\ Shaped /\ [Next]_vars => Shaped'
<1> SUFFICES ASSUME ScanInv, CodeInv, Labelled, Shaped, [Next]_vars, ~ Spill, ~ EmitChain PROVE Shaped'
  BY ShapedSpill, ShapedChain
<1>1. prog' = prog /\ \A m \in 1 .. Len(memrefs) : memrefs'[m].buf = memrefs[m].buf
  BY BufsStay
<1>2. code' = code
  BY DEF Next, StartTier, Take, Place, SpillOfNothing, GiveUp, Return, Scanned, Finish, Execute, vars, outState
<1>3. Len(memrefs') = Len(memrefs) /\ Len(memrefs) \in Nat
  <2>1. Len(memrefs) \in Nat
    BY DEF ScanInv, MemrefsTyped
  <2>2. CASE Place
    <3>1. PICK d, e \in Seq(IntervalType), x, c \in IntervalType, o \in Nat : Places(Tier, d, e, x, c, o)
      BY <2>2, PlaceDoes
    <3>2. memrefs' = Annotated(Tier, o) /\ Tier \in Nat /\ o \in Int
      BY <2>2, <3>1, PlaceDoes DEF Places
    <3>3. QED BY <2>1, <3>2, AnnotatedTyped
  <2>3. CASE ~ Place
    <3>1. memrefs' = memrefs
      BY <2>3 DEF Next, StartTier, Take, SpillOfNothing, GiveUp, Return, Scanned, Finish, Execute, vars,
                  outState
    <3>2. QED BY <2>1, <3>1
  <2>4. QED BY <2>2, <2>3
<1>4. PICK M, L : M = memrefs /\ L = memrefs'
  OBVIOUS
<1>5. \A x \in Range(code) : x.writes \subseteq 1 .. Len(memrefs)
  BY DEF CodeInv, CodeOk, Touched
<1>6. Shapes(code, L)
  BY <1>1, <1>3, <1>4, <1>5, ShapesStay DEF Shaped
<1>7. QED BY <1>1, <1>2, <1>4, <1>6 DEF Shaped, Shapes, CopyOk, OperationOk

-----------------------------------------------------------------------------
(* What no step undoes the lack of: once an allocation of tier 0 is lost, a *)
(* resident or a reload has evicted, an error was emitted or a tier took an *)
(* interval out of order, the operations may read something else.           *)
Orderly ==
  /\ ~ Lost /\ FreshEvictionsOnly /\ errors = {} /\ ResidentsAreConstants
  /\ \A k \in Tiers : InOrder(k)

LEMMA OrderlyBack ==
  ASSUME ScanInv, GuardInv, [Next]_vars, Orderly'
  PROVE  Orderly
<1>1. prog' = prog /\ Tiers' = Tiers
  BY BufsStay DEF Tiers
<1>2. ~ Lost
  BY LostStays DEF Orderly
<1>3. ResidentsAreConstants
  BY <1>1 DEF Orderly, ResidentsAreConstants, Bottom
<1>4. evictedFor \subseteq evictedFor' /\ errors \subseteq errors'
  BY DEF Next, StartTier, Take, Place, Spill, SpillOfNothing, GiveUp, Return, Scanned, EmitChain, Finish, Execute,
         vars, outState
<1>5. FreshEvictionsOnly /\ errors = {}
  BY <1>1, <1>4 DEF Orderly, FreshEvictionsOnly
<1>6. ASSUME NEW k \in Tiers PROVE InOrder(k)
  <2>1. InOrder(k)'
    BY <1>1 DEF Orderly
  <2>2. CASE taken'[k] = taken[k]
    BY <2>1, <2>2 DEF InOrder
  <2>3. CASE taken'[k] # taken[k]
    <3>1. Take
      BY <2>3 DEF Next, StartTier, Place, Spill, SpillOfNothing, GiveUp, Return, Scanned, EmitChain, Finish, Execute,
             vars
    <3>2. PICK q, r \in Seq(IntervalType), iv \in IntervalType : Takes(Tier, q, r, iv)
      BY <3>1, TakeDoes
    <3>3. k = Tier
      BY <2>3, <3>2 DEF Takes, Elsewhere
    <3>4. PICK t \in Seq(Int) : t = taken[k]
      BY DEF GuardInv
    <3>5. taken'[k] = Append(t, iv.start) /\ iv.start \in Int
      BY <3>2, <3>3, <3>4 DEF Takes, IntervalType
    <3>6. PICK u \in Seq(Int) : u = Append(t, iv.start) /\ Len(u) = Len(t) + 1 /\ \A i \in DOMAIN t : u[i] = t[i]
      <4>1. PICK w \in Int : w = iv.start
        BY <3>5
      <4>2. /\ Append(t, w) \in Seq(Int) /\ Len(Append(t, w)) = Len(t) + 1
            /\ \A i \in DOMAIN t : Append(t, w)[i] = t[i]
        BY ONLY t \in Seq(Int), w \in Int, Appended
      <4>3. QED BY <4>1, <4>2
    <3>7. \A i \in DOMAIN t : i \in DOMAIN u
      BY <3>6
    <3>8. \A i, j \in DOMAIN u : i < j => u[i] <= u[j]
      BY <2>1, <3>5, <3>6 DEF InOrder
    <3>9. QED BY <3>4, <3>6, <3>7, <3>8 DEF InOrder
  <2>4. QED BY <2>2, <2>3
<1>7. QED BY <1>2, <1>3, <1>5, <1>6 DEF Orderly

(* What a step other than an eviction leaves as it is then: the intervals   *)
(* that have a lifetime, and the places.                                    *)
RemainsIn(k) ==
  /\ \A z \in Pieces(k) : z.start < z.end => \E y \in Pieces(k)' : SamePiece(y, z)
  /\ Range(placed[k]) \subseteq Range(placed'[k])

Remains == \A k \in Tiers : RemainsIn(k)

LEMMA RemainsAll ==
  ASSUME NEW k, Pieces(k) \subseteq Pieces(k)', placed'[k] = placed[k]
  PROVE  RemainsIn(k)
BY DEF RemainsIn, SamePiece

LEMMA RemainsElsewhere ==
  ASSUME NEW S, Elsewhere(S), NEW k \in Tiers \ S
  PROVE  RemainsIn(k)
<1>1. unhandled'[k] = unhandled[k] /\ placed'[k] = placed[k] /\ SameCalls(stack, stack', k)
  BY DEF Elsewhere
<1>2. Pieces(k)' = Pieces(k)
  BY <1>1, PiecesAlone
<1>3. QED BY <1>1, <1>2, RemainsAll

LEMMA RemainsStep ==
  ASSUME ScanInv, GuardInv, Course, Orderly', [Next]_vars, ~ Spill
  PROVE  Remains
<1>1. CASE Take
  <2>1. placed' = placed
    BY <1>1, TakeDoes
  <2>2. PICK k \in Tiers : k = Tier
    BY <1>1, TakeDoes
  <2>3. PICK q, r \in Seq(IntervalType), iv \in IntervalType : Takes(k, q, r, iv)
    BY <1>1, <2>2, TakeDoes
  <2>4. /\ unhandled[k] = q /\ unhandled'[k] = r /\ Range(q) = Range(r) \cup {iv}
        /\ CurIn(stack, k) = {} /\ CurIn(stack', k) = IF iv.start < iv.end THEN {iv} ELSE {}
        /\ ReloadIn(stack', k) = ReloadIn(stack, k) /\ Elsewhere({k})
    BY <2>3 DEF Takes
  <2>5. \A z \in Pieces(k) : z.start < z.end => z \in Pieces(k)'
    BY <2>1, <2>4 DEF Pieces
  <2>6. RemainsIn(k)
    BY <2>1, <2>5 DEF RemainsIn, SamePiece
  <2>7. QED BY <2>4, <2>6, RemainsElsewhere DEF Remains
<1>2. CASE Place
  <2>1. unhandled' = unhandled
    BY <1>2, PlaceDoes
  <2>2. PICK k \in Tiers : k = Tier
    BY <1>2, PlaceDoes
  <2>3. PICK d, e \in Seq(IntervalType), x, c \in IntervalType, o \in Nat : Places(k, d, e, x, c, o)
    BY <1>2, <2>2, PlaceDoes
  <2>4. /\ d = placed[k] /\ e = placed'[k] /\ Range(e) = Range(d) \cup {c} /\ SamePiece(c, x)
        /\ CurIn(stack, k) = {x} /\ ReloadIn(stack', k) = ReloadIn(stack, k) /\ Elsewhere({k})
    BY <2>3 DEF Places
  <2>5. \A z \in Pieces(k) : z \in Pieces(k)' \/ z = x
    BY <2>1, <2>4 DEF Pieces
  <2>6. c \in Pieces(k)'
    BY <2>4 DEF Pieces
  <2>7. \A z : SamePiece(z, z)
    BY DEF SamePiece
  <2>8. \A z \in Pieces(k) : \E y \in Pieces(k)' : SamePiece(y, z)
    BY <2>4, <2>5, <2>6, <2>7
  <2>9. Range(placed[k]) \subseteq Range(placed'[k])
    BY <2>4
  <2>10. RemainsIn(k)
    BY <2>8, <2>9 DEF RemainsIn
  <2>11. QED BY <2>4, <2>10, RemainsElsewhere DEF Remains
<1>3. CASE GiveUp
  BY <1>3, GiveUpDoes DEF Orderly
<1>4. CASE Return
  <2>1. placed' = placed /\ stack # << >>
    BY <1>4, ReturnDoes
  <2>2. PICK l \in Tiers : l = Tier /\ CurIn(stack, l) = {} /\ l \in Nat
    BY <1>4, ReturnDoes
  <2>3. ReloadIn(stack, l) = {}
    BY <2>1, <2>2, TopFree
  <2>4. unhandled'[l] = unhandled[l] => RemainsIn(l)
    <3>1. unhandled'[l] = unhandled[l] => Pieces(l) \subseteq Pieces(l)'
      BY <2>1, <2>2, <2>3 DEF Pieces
    <3>2. QED BY <2>1, <3>1, RemainsAll
  <2>5. CASE ReturnsToNone
    <3>1. unhandled' = unhandled /\ Elsewhere({l})
      BY <2>2, <2>5 DEF ReturnsToNone
    <3>2. QED BY <2>4, <3>1, RemainsElsewhere DEF Remains
  <2>6. ASSUME NEW k \in Tiers, k \in Nat, ReturnsTo(k) PROVE Remains
    <3>1. /\ CurIn(stack', k) = CurIn(stack, k) /\ ReloadIn(stack', k) = {} /\ unhandled'[l] = unhandled[l]
          /\ \/ ReloadIn(stack, k) = {} /\ unhandled'[k] = unhandled[k]
             \/ \E iv \in IntervalType : /\ ReloadIn(stack, k) = {iv}
                                         /\ unhandled'[k] = AddUnhandled(unhandled[k], iv)
          /\ Elsewhere({k, l})
      BY <2>2, <2>6 DEF ReturnsTo
    <3>2. CASE ReloadIn(stack, k) = {} /\ unhandled'[k] = unhandled[k]
      <4>1. Pieces(k) \subseteq Pieces(k)'
        BY <2>1, <3>1, <3>2 DEF Pieces
      <4>2. RemainsIn(k)
        BY <2>1, <4>1, RemainsAll
      <4>3. QED BY <2>4, <3>1, <4>2, RemainsElsewhere DEF Remains
    <3>3. ASSUME NEW iv \in IntervalType, ReloadIn(stack, k) = {iv},
                 unhandled'[k] = AddUnhandled(unhandled[k], iv)
          PROVE  Remains
      <4>1. PICK q \in Seq(IntervalType) : q = unhandled[k]
        BY DEF ScanInv, QueuesTyped
      <4>2. Range(unhandled'[k]) = Range(q) \cup {iv}
        BY <3>3, <4>1, AddUnhandledElements
      <4>3. Pieces(k) \subseteq Pieces(k)'
        BY <2>1, <3>1, <3>3, <4>1, <4>2 DEF Pieces
      <4>4. RemainsIn(k)
        BY <2>1, <4>3, RemainsAll
      <4>5. QED BY <2>4, <3>1, <4>4, RemainsElsewhere DEF Remains
    <3>4. QED BY <3>1, <3>2, <3>3
  <2>7. QED BY <1>4, <2>5, <2>6, ReturnDoes
<1>5. CASE ~ (Take \/ Place \/ GiveUp \/ Return)
  <2>1. unhandled' = unhandled /\ placed' = placed /\ \A k : SameCalls(stack, stack', k)
    BY <1>5, PiecesRest DEF Next
  <2>2. ASSUME NEW k \in Tiers PROVE RemainsIn(k)
    <3>1. Pieces(k)' = Pieces(k)
      BY <2>1, PiecesAlone
    <3>2. QED BY <2>1, <3>1, RemainsAll
  <2>3. QED BY <2>2 DEF Remains
<1>6. QED BY <1>1, <1>2, <1>3, <1>4, <1>5

-----------------------------------------------------------------------------
(* What holds of the scan and its code as long as they are orderly.  The    *)
(* code is in order: a copy comes before the operation it stands for, and   *)
(* copies for one operation in the order of what they make.                 *)
Before(x, y) ==
  \/ x.at < y.at
  \/ x.at = y.at /\ IsCopy(x) /\ (IsCopy(y) => \A f \in x.writes, g \in y.writes : f < g)

Sorted(c) == \A i, j \in DOMAIN c : i < j => Before(c[i], c[j])

(* Pieces of one buffer follow each other, and none is being placed while   *)
(* another is active.                                                       *)
PartsApart ==
  \A k, l \in Tiers : \A y \in Pieces(k), z \in Pieces(l) :
    y.id = z.id /\ y.mem # z.mem => prog.guard = 0 /\ (y.end <= z.start \/ z.end <= y.start)

CurAlone == \A k \in Tiers : \A c \in CurIn(stack, k), j \in Active(k) : placed[k][j].id # c.id

(* The memrefs are marked with the places, and nothing else is.             *)
Marked ==
  \A k \in Tiers : \A y \in Range(placed[k]) :
    y.mem # NoMem => memrefs[y.mem].tier = k /\ memrefs[y.mem].offset = y.offset

Located ==
  \A m \in DOMAIN memrefs : memrefs[m].tier # -1 =>
     \/ memrefs[m].tier \in Tiers /\ \E y \in Range(placed[memrefs[m].tier]) : y.mem = m
     \/ HomeOf(prog, memrefs[m].buf) > 0 /\ m \notin Bufs(prog)

(* What is placed has a lifetime, which starts where its memref is defined, *)
(* and what is in tier 0 starts with its buffer or at a use.                *)
Lives == \A k \in Tiers : \A y \in Range(placed[k]) : y.start < y.end

FreshOrBack ==
  \A y \in Pieces(0) : y.mem # NoMem => y.mem \in Bufs(prog) \/ y.start \in ExecTimes

Born == \A k \in Tiers : \A y \in Pieces(k) : y.start >= DefTime(prog, y.id.buf)

DefsDated ==
  \A x \in Range(code) : \A m \in DOMAIN memrefs : Defines(x, m) =>
    \A k \in Tiers : \A y \in Pieces(k) : y.mem = m => x.at = y.start

(* The stage for the use at t. *)
StageAt(m, t) ==
  /\ m \notin Bufs(prog) /\ memrefs[m].tier \in Tiers /\ memrefs[m].tier < HomeOf(prog, memrefs[m].buf)
  /\ \E y \in Range(placed[memrefs[m].tier]) :
       /\ y.id = [buf |-> memrefs[m].buf, stage |-> memrefs[m].tier, use |-> t]
       /\ y.start = t /\ y.end = t + 1 /\ y.offset = memrefs[m].offset /\ y.mem = NoMem

(* A spill copies what ends there in tier 0 to tier 1, a reload what ends   *)
(* there in tier 1 to tier 0, and a chain from the resident or a stage to   *)
(* the next stage.                                                          *)
OutFits(x, f, g) ==
  /\ x.at \notin ExecTimes /\ x.at <= Now
  /\ \A k \in Tiers : \A y \in Pieces(k) :
       /\ y.mem = f => k = 0 /\ y.end = x.at
       /\ y.mem = g => k = 1
  /\ \E y \in Range(placed[0]) : y.mem = f

BackFits(x, f, g) ==
  /\ x.at \in ExecTimes
  /\ \A k \in Tiers : \A y \in Pieces(k) :
       /\ y.mem = f => k = 1 /\ y.end = x.at
       /\ y.mem = g => k = 0
  /\ 1 \in Tiers /\ \E y \in Pieces(1) : y.mem = f /\ y.start < y.end

StageFits(x, f, g) ==
  /\ x.at \in UsesOf(prog, memrefs[g].buf)
  /\ f \in Bufs(prog) \/ StageAt(f, x.at)
  /\ StageAt(g, x.at)

CopyFits(x, f, g) ==
  /\ DefTime(prog, memrefs[g].buf) < x.at
  /\ IF HomeOf(prog, memrefs[g].buf) = 0 THEN OutFits(x, f, g) \/ BackFits(x, f, g) ELSE StageFits(x, f, g)

CopiesFit == \A x \in Range(code) : IsCopy(x) => \A f \in x.reads, g \in x.writes : CopyFits(x, f, g)

StagesUsed ==
  \A x \in Execs(code) : \A m \in Touched(x) :
    HomeOf(prog, memrefs[m].buf) > 0 => ToStage(x, m) \/ StageAt(m, x.time)

(* A memref is defined before it is needed, a stage for the same operation. *)
DefsFirst ==
  \A x, y \in Range(code) : \A m \in DOMAIN memrefs : Defines(x, m) /\ Needs(y, m) =>
    /\ Before(x, y)
    /\ m \notin Bufs(prog) /\ HomeOf(prog, memrefs[m].buf) > 0 => x.at = y.at

(* The residents and the stages are what they were at first, and the        *)
(* memrefs of the stages come last.                                         *)
Kept ==
  \A iv \in Intervals(prog) : iv.home > 0 \/ iv.mem = NoMem =>
    \E y \in Pieces(EntryTier(prog, iv)) : SamePiece(y, iv)

StagesLate ==
  /\ phase = "alloc" => \A m \in DOMAIN memrefs : m \in Bufs(prog) \/ HomeOf(prog, memrefs[m].buf) = 0
  /\ \A m, n \in DOMAIN memrefs :
       m \notin Bufs(prog) /\ n \notin Bufs(prog)
         /\ HomeOf(prog, memrefs[m].buf) = 0 /\ HomeOf(prog, memrefs[n].buf) > 0
         => m < n

NeatPlaces == PartsApart /\ CurAlone /\ Marked /\ Located /\ Lives /\ FreshOrBack /\ Born /\ Kept /\ StagesLate
NeatCode == Sorted(code) /\ DefsDated /\ CopiesFit /\ StagesUsed /\ DefsFirst
Neat == NeatPlaces /\ NeatCode

(* Copies put before an operation, each after those for it. *)
LEMMA SortedSplice ==
  ASSUME NEW s \in Seq(CodeType), NEW cs \in Seq(CodeType), NEW p \in 1 .. Len(s), Sorted(s), ~ IsCopy(s[p]),
         \A i \in DOMAIN cs : IsCopy(cs[i]) /\ cs[i].at = s[p].at,
         \A i, j \in DOMAIN cs : i < j => \A f \in cs[i].writes, g \in cs[j].writes : f < g,
         \A x \in Range(s) : IsCopy(x) /\ x.at = s[p].at =>
           \A i \in DOMAIN cs : \A f \in x.writes, g \in cs[i].writes : f < g
  PROVE  Sorted(Spliced(s, cs, p))
<1>1. PICK n, h \in Nat : n = Len(s) /\ h = Len(cs) /\ DOMAIN s = 1 .. n /\ DOMAIN cs = 1 .. h
  BY LenProperties
<1>2. PICK r \in Seq(CodeType) :
        /\ r = Spliced(s, cs, p) /\ DOMAIN r = 1 .. n + h
        /\ \A i \in 1 .. n + h : r[i] = IF i < p THEN s[i] ELSE IF i < p + h THEN cs[i - p + 1] ELSE s[i - h]
  <2>1. p \in 1 .. Len(s) + 1
    BY <1>1
  <2>2. /\ Spliced(s, cs, p) \in Seq(CodeType) /\ Len(Spliced(s, cs, p)) = Len(s) + Len(cs)
        /\ \A i \in 1 .. Len(s) + Len(cs) :
             Spliced(s, cs, p)[i] = IF i < p THEN s[i]
                                    ELSE IF i < p + Len(cs) THEN cs[i - p + 1] ELSE s[i - Len(cs)]
    BY ONLY s \in Seq(CodeType), cs \in Seq(CodeType), <2>1, SpliceAt
  <2>3. PICK r \in Seq(CodeType) : r = Spliced(s, cs, p)
    BY <2>2
  <2>4. DOMAIN r = 1 .. n + h
    BY <1>1, <2>2, <2>3
  <2>5. QED BY <1>1, <2>2, <2>3, <2>4
<1>3. \A i \in 1 .. n : s[i] \in CodeType /\ s[i].at \in Int
  <2>1. \A i \in 1 .. n : s[i] \in CodeType
    BY <1>1
  <2>2. QED BY <2>1, SMTT(30) DEF CodeType
<1>4. p \in 1 .. n
  BY <1>1
<1>5. ASSUME NEW i \in 1 .. n + h, NEW j \in 1 .. n + h, i < j PROVE Before(r[i], r[j])
  <2>1. CASE i < p /\ j < p
    <3>1. r[i] = s[i] /\ r[j] = s[j] /\ i \in 1 .. n /\ j \in 1 .. n
      BY <1>2, <1>4, <2>1
    <3>2. QED BY <1>1, <1>5, <3>1 DEF Sorted
  <2>2. CASE i < p /\ j >= p /\ j < p + h
    <3>1. r[i] = s[i] /\ r[j] = cs[j - p + 1] /\ i \in 1 .. n /\ j - p + 1 \in 1 .. h
      <4>1. i \in Nat /\ j \in Nat /\ p \in Nat /\ h \in Nat /\ n \in Nat
        BY <1>2, <1>4
      <4>2. ~ (j < p) /\ j - p + 1 \in 1 .. h /\ i \in 1 .. n
        BY <1>4, <2>2, <4>1
      <4>3. r[j] = cs[j - p + 1]
        BY <1>2, <2>2, <4>2
      <4>4. r[i] = s[i]
        BY <1>2, <2>2
      <4>5. QED BY <4>2, <4>3, <4>4
    <3>2. Before(s[i], s[p])
      BY <1>1, <1>4, <2>2, <3>1 DEF Sorted
    <3>3. s[i] \in Range(s)
      BY <1>1, <3>1, InRange
    <3>4. IsCopy(cs[j - p + 1]) /\ cs[j - p + 1].at = s[p].at
      BY <1>1, <3>1
    <3>5. s[i].at = s[p].at /\ IsCopy(s[i]) => \A f \in s[i].writes, g \in cs[j - p + 1].writes : f < g
      BY <1>1, <3>1, <3>3
    <3>6. QED BY <3>1, <3>2, <3>4, <3>5 DEF Before
  <2>3. CASE i < p /\ j >= p + h
    <3>1. r[i] = s[i] /\ r[j] = s[j - h] /\ i \in 1 .. n /\ j - h \in 1 .. n /\ i < j - h
      BY <1>2, <1>4, <2>3
    <3>2. QED BY <1>1, <3>1 DEF Sorted
  <2>4. CASE i >= p /\ i < p + h /\ j < p + h
    <3>1. /\ r[i] = cs[i - p + 1] /\ r[j] = cs[j - p + 1] /\ i - p + 1 \in 1 .. h /\ j - p + 1 \in 1 .. h
          /\ i - p + 1 < j - p + 1
      <4>1. ~ (i < p) /\ ~ (j < p)
        BY <1>4, <1>5, <2>4
      <4>2. r[i] = cs[i - p + 1] /\ r[j] = cs[j - p + 1]
        BY <1>2, <2>4, <4>1
      <4>3. i - p + 1 \in 1 .. h /\ j - p + 1 \in 1 .. h /\ i - p + 1 < j - p + 1
        BY <1>4, <1>5, <2>4
      <4>4. QED BY <4>2, <4>3
    <3>2. PICK u, w \in 1 .. h : u = i - p + 1 /\ w = j - p + 1 /\ u < w
      BY <3>1
    <3>3. IsCopy(cs[u]) /\ cs[u].at = s[p].at /\ cs[w].at = s[p].at
      BY <1>1
    <3>4. \A f \in cs[u].writes, g \in cs[w].writes : f < g
      BY <1>1, <3>2
    <3>5. QED BY <3>1, <3>2, <3>3, <3>4 DEF Before
  <2>5. CASE i >= p /\ i < p + h /\ j >= p + h
    <3>1. r[i] = cs[i - p + 1] /\ r[j] = s[j - h] /\ i - p + 1 \in 1 .. h /\ j - h \in p .. n
      BY <1>2, <1>4, <2>5
    <3>2. IsCopy(r[i]) /\ r[i].at = s[p].at
      BY <1>1, <3>1
    <3>3. CASE j - h = p
      BY <3>1, <3>2, <3>3 DEF Before
    <3>4. CASE j - h # p
      <4>1. PICK v \in p .. n : v = j - h /\ r[j] = s[v] /\ v # p
        BY <3>1, <3>4
      <4>2. v \in 1 .. n /\ p < v
        BY <1>4, <4>1
      <4>3. Before(s[p], s[v])
        BY <1>1, <1>4, <4>2 DEF Sorted
      <4>4. QED BY <3>2, <4>1, <4>3 DEF Before
    <3>5. QED BY <3>3, <3>4
  <2>6. CASE i >= p + h
    <3>1. r[i] = s[i - h] /\ r[j] = s[j - h] /\ i - h \in 1 .. n /\ j - h \in 1 .. n /\ i - h < j - h
      BY <1>2, <1>4, <1>5, <2>6
    <3>2. QED BY <1>1, <3>1 DEF Sorted
  <2>7. QED BY <1>4, <1>5, <2>1, <2>2, <2>3, <2>4, <2>5, <2>6
<1>6. QED BY <1>2, <1>5 DEF Sorted

(* Renaming uses of operations leaves the order alone. *)
LEMMA SortedReplaced ==
  ASSUME NEW d \in Seq(CodeType), Sorted(d), NEW times, \A x \in Range(d) : IsCopy(x) => x.time \notin times,
         NEW old, NEW new
  PROVE  Sorted(Replaced(d, times, old, new))
<1>1. PICK e : e = Replaced(d, times, old, new)
  OBVIOUS
<1>2. DOMAIN e = DOMAIN d /\ \A i \in DOMAIN d : Renames(e[i], d[i], times, old, new)
  BY <1>1, ReplacedAt
<1>3. ASSUME NEW i \in DOMAIN d PROVE e[i].at = d[i].at /\ e[i].kind = d[i].kind /\ (IsCopy(d[i]) => e[i] = d[i])
  <2>1. Renames(e[i], d[i], times, old, new) /\ d[i] \in Range(d)
    BY <1>2, InRange
  <2>2. QED BY <2>1 DEF Renames
<1>4. ASSUME NEW i \in DOMAIN d, NEW j \in DOMAIN d, Before(d[i], d[j]) PROVE Before(e[i], e[j])
  <2>1. /\ e[i].at = d[i].at /\ e[j].at = d[j].at /\ e[i].kind = d[i].kind /\ e[j].kind = d[j].kind
        /\ IsCopy(d[i]) => e[i] = d[i]
        /\ IsCopy(d[j]) => e[j] = d[j]
    BY <1>3
  <2>2. CASE d[i].at < d[j].at
    BY <2>1, <2>2 DEF Before
  <2>3. CASE d[i].at = d[j].at /\ IsCopy(d[i]) /\ (IsCopy(d[j]) => \A f \in d[i].writes, g \in d[j].writes : f < g)
    BY <2>1, <2>3 DEF Before, IsCopy
  <2>4. QED BY <1>4, <2>2, <2>3 DEF Before
<1>5. QED BY <1>1, <1>2, <1>4 DEF Sorted

-----------------------------------------------------------------------------
(* A step that neither evicts nor emits a chain.                            *)
Quiet ==
  /\ prog' = prog /\ code' = code /\ plan' = plan /\ KeepsPieces /\ Remains
  /\ DOMAIN memrefs' = DOMAIN memrefs /\ \A m \in DOMAIN memrefs : memrefs'[m].buf = memrefs[m].buf
  /\ Now \in Int /\ Now' \in Int /\ Now <= Now' /\ (phase' = "alloc" => phase = "alloc")
  /\ memrefs' = memrefs \/ phase = "alloc"

LEMMA QuietPieces ==
  ASSUME ScanInv, Neat, Quiet
  PROVE  PartsApart' /\ FreshOrBack' /\ Born' /\ Kept' /\ StagesLate' /\ DefsDated'
<1>1. prog' = prog /\ Tiers' = Tiers /\ 0 \in Tiers /\ ExecTimes' = ExecTimes /\ Bufs(prog') = Bufs(prog)
  BY TargetTyped DEF Quiet, ScanInv, Tiers, ExecTimes
<1>2. \A k \in Tiers : \A y \in Pieces(k)' : \E z \in Pieces(k) : SamePiece(y, z)
  BY DEF Quiet, KeepsPieces
<1>3. ASSUME NEW k \in Tiers, NEW l \in Tiers, NEW y \in Pieces(k)', NEW z \in Pieces(l)',
             y.id = z.id, y.mem # z.mem
      PROVE  prog.guard = 0 /\ (y.end <= z.start \/ z.end <= y.start)
  <2>1. PICK u \in Pieces(k) : SamePiece(y, u)
    BY <1>2
  <2>2. PICK w \in Pieces(l) : SamePiece(z, w)
    BY <1>2
  <2>3. u.id = w.id /\ u.mem # w.mem
    BY <1>3, <2>1, <2>2 DEF SamePiece
  <2>4. prog.guard = 0 /\ (u.end <= w.start \/ w.end <= u.start)
    BY <2>3 DEF Neat, NeatPlaces, PartsApart
  <2>5. QED BY <2>1, <2>2, <2>4 DEF SamePiece
<1>4. PartsApart'
  BY <1>1, <1>3 DEF PartsApart
<1>5. FreshOrBack'
  <2>1. ASSUME NEW y \in Pieces(0)', y.mem # NoMem PROVE y.mem \in Bufs(prog) \/ y.start \in ExecTimes
    <3>1. PICK z \in Pieces(0) : SamePiece(y, z)
      BY <1>1, <1>2
    <3>2. QED BY <2>1, <3>1 DEF Neat, NeatPlaces, FreshOrBack, SamePiece
  <2>2. QED BY <1>1, <2>1 DEF FreshOrBack
<1>6. Born'
  <2>1. ASSUME NEW k \in Tiers, NEW y \in Pieces(k)' PROVE y.start >= DefTime(prog, y.id.buf)
    <3>1. PICK z \in Pieces(k) : SamePiece(y, z)
      BY <1>2
    <3>2. QED BY <3>1 DEF Neat, NeatPlaces, Born, SamePiece
  <2>2. QED BY <1>1, <2>1 DEF Born
<1>7. Kept'
  <2>1. ASSUME NEW iv \in Intervals(prog), iv.home > 0 \/ iv.mem = NoMem
        PROVE  \E k : k = EntryTier(prog, iv) /\ \E y \in Pieces(k)' : SamePiece(y, iv)
    <3>1. PICK z \in Pieces(EntryTier(prog, iv)) : SamePiece(z, iv)
      BY <2>1 DEF Neat, NeatPlaces, Kept
    <3>2. iv.start < iv.end
      <4>0. prog \in Programs
        BY DEF ScanInv
      <4>1. \/ \E b \in Bufs(prog) : iv = BufInterval(prog, b)
            \/ \E b \in Bufs(prog), t \in Times(prog), k \in Nat : iv = Stage(prog, b, t, k)
        <5>1. CASE \E b \in Bufs(prog) : iv = BufInterval(prog, b)
          BY <5>1
        <5>2. CASE ~ \E b \in Bufs(prog) : iv = BufInterval(prog, b)
          <6>1. PICK b \in Bufs(prog) :
                  \E t \in UsesOf(prog, b), k \in 0 .. HomeOf(prog, b) - 1 : iv = Stage(prog, b, t, k)
            BY <5>2 DEF Intervals
          <6>2. UsesOf(prog, b) \subseteq Times(prog) /\ 0 .. HomeOf(prog, b) - 1 \subseteq Nat
            BY <4>0, HomeTyped DEF UsesOf
          <6>3. QED BY <6>1, <6>2
        <5>3. QED BY <5>1, <5>2
      <4>2. ASSUME NEW b \in Bufs(prog), iv = BufInterval(prog, b) PROVE iv.start < iv.end
        <5>1. DefTime(prog, b) \in Times(prog) /\ b \in Touched(prog.ops[DefTime(prog, b)])
          BY DefinedFirst DEF ScanInv, Touched
        <5>2. QED BY <4>2, <5>1, EndsLast DEF ScanInv, BufInterval
      <4>3. ASSUME NEW b \in Bufs(prog), NEW t \in Times(prog), NEW k \in Nat, iv = Stage(prog, b, t, k)
            PROVE  iv.start < iv.end
        <5>1. t \in Nat
          BY FunctionTyped DEF ScanInv
        <5>2. QED BY <4>3, <5>1 DEF Stage
      <4>4. QED BY <4>1, <4>2, <4>3
    <3>3. PICK k : k = EntryTier(prog, iv)
      OBVIOUS
    <3>4. CASE k \in Tiers
      <4>1. PICK y \in Pieces(k)' : SamePiece(y, z)
        BY <3>1, <3>2, <3>3, <3>4 DEF Quiet, Remains, RemainsIn, SamePiece
      <4>2. SamePiece(y, iv)
        BY <3>1, <4>1 DEF SamePiece
      <4>3. QED BY <3>3, <4>1, <4>2
    <3>5. k \in Tiers
      <4>1. Bottom \in Nat /\ Tiers = 0 .. Bottom /\ Cardinality(DOMAIN prog.caps) - 1 = Bottom
        BY TargetTyped DEF ScanInv, Tiers, Bottom
      <4>2. iv.home \in Nat
        BY IntervalsFinite DEF ScanInv, IntervalType
      <4>3. EntryTier(prog, iv) = IF iv.home > Bottom THEN Bottom ELSE iv.home
        BY <4>1 DEF EntryTier
      <4>4. QED BY <3>3, <4>1, <4>2, <4>3
    <3>6. QED BY <3>4, <3>5
  <2>2. ASSUME NEW iv \in Intervals(prog'), iv.home > 0 \/ iv.mem = NoMem
        PROVE  (\E y \in Pieces(EntryTier(prog, iv)) : SamePiece(y, iv))'
    <3>1. iv \in Intervals(prog) /\ EntryTier(prog', iv) = EntryTier(prog, iv)
      BY <1>1
    <3>2. PICK k : k = EntryTier(prog, iv) /\ \E y \in Pieces(k)' : SamePiece(y, iv)
      BY <2>1, <2>2, <3>1
    <3>3. k = EntryTier(prog', iv)
      BY <3>1, <3>2
    <3>4. QED BY <3>2, <3>3
  <2>3. QED BY <2>2 DEF Kept
<1>8. StagesLate'
  <2>1. /\ phase = "alloc" => \A m \in DOMAIN memrefs : m \in Bufs(prog) \/ HomeOf(prog, memrefs[m].buf) = 0
        /\ \A m, n \in DOMAIN memrefs :
             m \notin Bufs(prog) /\ n \notin Bufs(prog) /\ HomeOf(prog, memrefs[m].buf) = 0
               /\ HomeOf(prog, memrefs[n].buf) > 0
               => m < n
    BY DEF Neat, NeatPlaces, StagesLate
  <2>2. QED BY <2>1 DEF StagesLate, Quiet
<1>9. DefsDated'
  <2>1. ASSUME NEW x \in Range(code), NEW m \in DOMAIN memrefs, Defines(x, m), NEW k \in Tiers, NEW y \in Pieces(k)',
               y.mem = m
        PROVE  x.at = y.start
    <3>1. PICK z \in Pieces(k) : SamePiece(y, z)
      BY <1>2
    <3>2. z.mem = m
      BY <2>1, <3>1 DEF SamePiece
    <3>3. x.at = z.start
      BY <2>1, <3>2 DEF Neat, NeatCode, DefsDated
    <3>4. QED BY <3>1, <3>3 DEF SamePiece
  <2>2. QED BY <1>1, <2>1 DEF DefsDated, Quiet, Defines
<1>10. QED BY <1>4, <1>5, <1>6, <1>7, <1>8, <1>9

LEMMA StageStays ==
  ASSUME NEW m, NEW t, StageAt(m, t), prog' = prog, memrefs'[m] = memrefs[m], Remains
  PROVE  StageAt(m, t)'
<1>1. PICK k : k = memrefs[m].tier /\ k = memrefs'[m].tier
  OBVIOUS
<1>2. k \in Tiers /\ Tiers' = Tiers /\ Range(placed[k]) \subseteq Range(placed'[k])
  BY <1>1 DEF StageAt, Remains, RemainsIn, Tiers
<1>3. PICK y \in Range(placed[k]) :
         /\ y.id = [buf |-> memrefs[m].buf, stage |-> memrefs[m].tier, use |-> t]
         /\ y.start = t /\ y.end = t + 1 /\ y.offset = memrefs[m].offset /\ y.mem = NoMem
  BY <1>1 DEF StageAt
<1>4. QED BY <1>1, <1>2, <1>3 DEF StageAt

LEMMA QuietCode ==
  ASSUME ScanInv, CodeInv, Shaped, Neat, Quiet
  PROVE  Sorted(code)' /\ CopiesFit' /\ StagesUsed' /\ DefsFirst'
<1>1. prog' = prog /\ Tiers' = Tiers /\ 0 \in Tiers /\ ExecTimes' = ExecTimes /\ Bufs(prog') = Bufs(prog)
  BY TargetTyped DEF Quiet, ScanInv, Tiers, ExecTimes
<1>2. /\ code' = code /\ plan' = plan /\ \A k \in Tiers : \A y \in Pieces(k)' : \E z \in Pieces(k) : SamePiece(y, z)
      /\ \A m \in DOMAIN memrefs : memrefs'[m].buf = memrefs[m].buf
      /\ memrefs' = memrefs \/ phase = "alloc"
      /\ Now \in Int /\ Now' \in Int /\ Now <= Now' /\ DOMAIN memrefs' = DOMAIN memrefs
  BY DEF Quiet, KeepsPieces
<1>3. \A m \in DOMAIN memrefs : \A t : StageAt(m, t) => StageAt(m, t)'
  <2>1. ASSUME NEW m \in DOMAIN memrefs, NEW t, StageAt(m, t) PROVE StageAt(m, t)'
    <3>1. CASE memrefs' = memrefs
      BY <1>1, <2>1, <3>1, StageStays DEF Quiet
    <3>2. CASE phase = "alloc"
      <4>1. m \notin Bufs(prog) /\ memrefs[m].tier \in Tiers /\ memrefs[m].tier < HomeOf(prog, memrefs[m].buf)
        BY <2>1 DEF StageAt
      <4>2. HomeOf(prog, memrefs[m].buf) = 0
        BY <3>2, <4>1 DEF Neat, NeatPlaces, StagesLate
      <4>3. Tiers \subseteq Nat
        BY TargetTyped DEF ScanInv
      <4>4. PICK k : k = memrefs[m].tier
        OBVIOUS
      <4>5. k \in Nat /\ k < 0
        BY <4>1, <4>2, <4>3, <4>4
      <4>6. QED BY <4>5
    <3>3. QED BY <1>2, <3>1, <3>2
  <2>2. QED BY <2>1
<1>4. ASSUME NEW x \in Range(code), IsCopy(x), NEW f \in x.reads, NEW g \in x.writes PROVE CopyFits(x, f, g)'
  <2>1. x.at \in Times(prog) /\ f \in DOMAIN memrefs /\ g \in DOMAIN memrefs /\ x.at \in Int
    <3>1. CopyOk(x, memrefs)
      BY <1>4 DEF Shaped, Shapes
    <3>2. f \in 1 .. Len(memrefs) /\ g \in 1 .. Len(memrefs) /\ x.at \in Times(prog)
      BY <3>1 DEF CopyOk
    <3>3. memrefs \in Seq(MemrefType)
      BY DEF ScanInv, MemrefsTyped
    <3>4. QED BY <3>2, <3>3, FunctionTyped DEF ScanInv
  <2>2. CopyFits(x, f, g)
    BY <1>4 DEF Neat, NeatCode, CopiesFit
  <2>3. memrefs'[g].buf = memrefs[g].buf
    BY <1>2, <2>1
  <2>4. ASSUME OutFits(x, f, g) PROVE OutFits(x, f, g)'
    <3>1. ASSUME NEW k \in Tiers, NEW y \in Pieces(k)'
          PROVE  (y.mem = f => k = 0 /\ y.end = x.at) /\ (y.mem = g => k = 1)
      <4>1. PICK z \in Pieces(k) : SamePiece(y, z)
        BY <1>2
      <4>2. QED BY <2>4, <4>1 DEF OutFits, SamePiece
    <3>2. x.at \notin ExecTimes /\ x.at <= Now'
      BY <1>2, <2>1, <2>4 DEF OutFits
    <3>3. \E y \in Range(placed'[0]) : y.mem = f
      BY <1>1, <2>4 DEF OutFits, Quiet, Remains, RemainsIn
    <3>4. QED BY <1>1, <3>1, <3>2, <3>3 DEF OutFits
  <2>5. ASSUME BackFits(x, f, g) PROVE BackFits(x, f, g)'
    <3>1. ASSUME NEW k \in Tiers, NEW y \in Pieces(k)'
          PROVE  (y.mem = f => k = 1 /\ y.end = x.at) /\ (y.mem = g => k = 0)
      <4>1. PICK z \in Pieces(k) : SamePiece(y, z)
        BY <1>2
      <4>2. QED BY <2>5, <4>1 DEF BackFits, SamePiece
    <3>2. x.at \in ExecTimes /\ 1 \in Tiers
      BY <2>5 DEF BackFits
    <3>3. \E y \in Pieces(1)' : y.mem = f /\ y.start < y.end
      <4>1. PICK z \in Pieces(1) : z.mem = f /\ z.start < z.end
        BY <2>5 DEF BackFits
      <4>2. PICK y \in Pieces(1)' : SamePiece(y, z)
        BY <3>2, <4>1 DEF Quiet, Remains, RemainsIn
      <4>3. QED BY <4>1, <4>2 DEF SamePiece
    <3>4. QED BY <1>1, <3>1, <3>2, <3>3 DEF BackFits
  <2>6. ASSUME StageFits(x, f, g) PROVE StageFits(x, f, g)'
    BY <1>1, <1>3, <2>1, <2>3, <2>6 DEF StageFits
  <2>7. QED BY <1>1, <2>2, <2>3, <2>4, <2>5, <2>6 DEF CopyFits
<1>5. CopiesFit'
  BY <1>2, <1>4 DEF CopiesFit
<1>6. StagesUsed'
  <2>1. ASSUME NEW x \in Execs(code), NEW m \in Touched(x), HomeOf(prog, memrefs'[m].buf) > 0
        PROVE  ToStage(x, m)' \/ StageAt(m, x.time)'
    <3>1. m \in DOMAIN memrefs
      <4>1. m \in 1 .. Len(memrefs) /\ memrefs \in Seq(MemrefType)
        BY TouchedTyped DEF ScanInv, MemrefsTyped, Execs
      <4>2. QED BY <4>1
    <3>2. HomeOf(prog, memrefs[m].buf) > 0
      BY <1>2, <2>1, <3>1
    <3>3. ToStage(x, m) \/ StageAt(m, x.time)
      BY <3>2 DEF Neat, NeatCode, StagesUsed
    <3>4. QED BY <1>1, <1>2, <1>3, <3>1, <3>3 DEF ToStage
  <2>2. QED BY <1>1, <1>2, <2>1 DEF StagesUsed, Execs
<1>7. DefsFirst'
  BY <1>1, <1>2 DEF Neat, NeatCode, DefsFirst, Defines, Needs, Before, IsCopy
<1>8. Sorted(code)'
  BY <1>2 DEF Neat, NeatCode, Sorted, Before, IsCopy
<1>9. QED BY <1>5, <1>6, <1>7, <1>8

LEMMA QuietStep ==
  ASSUME ScanInv, GuardInv, Course, Orderly', Neat, [Next]_vars, ~ Spill, ~ EmitChain
  PROVE  Quiet
<1>1. prog' = prog /\ \A m \in 1 .. Len(memrefs) : memrefs'[m].buf = memrefs[m].buf
  BY BufsStay
<1>2. code' = code /\ plan' = plan /\ (phase' = "alloc" => phase = "alloc")
  BY DEF Next, StartTier, Take, Place, SpillOfNothing, GiveUp, Return, Scanned, Finish, Execute, vars, outState,
         Calling, Idle, Placing
<1>3. KeepsPieces
  BY PiecesTake, PiecesPlace, PiecesReturn, PiecesGiveUp, PiecesRest DEF Next
<1>4. Remains
  BY RemainsStep
<1>5. memrefs \in Seq(MemrefType) /\ DOMAIN memrefs = 1 .. Len(memrefs)
  BY DEF ScanInv, MemrefsTyped
<1>6. DOMAIN memrefs' = DOMAIN memrefs /\ (memrefs' = memrefs \/ phase = "alloc")
  <2>1. CASE Place
    <3>1. PICK d, e \in Seq(IntervalType), x, c \in IntervalType, o \in Nat : Places(Tier, d, e, x, c, o)
      BY <2>1, PlaceDoes
    <3>2. memrefs' = Annotated(Tier, o) /\ Tier \in Nat /\ o \in Int /\ phase = "alloc"
      BY <2>1, <3>1, PlaceDoes DEF Places
    <3>3. PICK M \in Seq(MemrefType) : M = memrefs' /\ Len(M) = Len(memrefs)
      BY <3>2, AnnotatedTyped
    <3>4. QED BY <1>5, <3>2, <3>3
  <2>2. CASE ~ Place
    BY <2>2 DEF Next, StartTier, Take, SpillOfNothing, GiveUp, Return, Scanned, Finish, Execute, vars, outState
  <2>3. QED BY <2>1, <2>2
<1>7. Now \in Int /\ 0 \in Tiers
  BY NowTyped
<1>8. Now' \in Int /\ Now <= Now'
  <2>1. CASE taken'[0] = taken[0]
    BY <1>7, <2>1 DEF Now
  <2>2. CASE taken'[0] # taken[0]
    <3>1. Take
      BY <2>2 DEF Next, StartTier, Place, SpillOfNothing, GiveUp, Return, Scanned, Finish, Execute, vars
    <3>2. PICK q, r \in Seq(IntervalType), iv \in IntervalType : Takes(Tier, q, r, iv)
      BY <3>1, TakeDoes
    <3>3. Tier = 0
      BY <1>7, <2>2, <3>2 DEF Takes, Elsewhere
    <3>4. PICK t \in Seq(Int) : t = taken[0]
      BY <1>7 DEF GuardInv
    <3>5. taken'[0] = Append(t, iv.start) /\ iv.start \in Int /\ iv \in Pieces(0)
      BY <3>2, <3>3, <3>4 DEF Takes, IntervalType, Pieces
    <3>6. PICK u \in Seq(Int) : /\ u = Append(t, iv.start) /\ Len(u) = Len(t) + 1 /\ u[Len(t) + 1] = iv.start
                                /\ \A i \in DOMAIN t : u[i] = t[i]
      <4>1. PICK w \in Int : w = iv.start
        BY <3>5
      <4>2. /\ Append(t, w) \in Seq(Int) /\ Len(Append(t, w)) = Len(t) + 1 /\ Append(t, w)[Len(t) + 1] = w
            /\ \A i \in DOMAIN t : Append(t, w)[i] = t[i]
        BY ONLY t \in Seq(Int), w \in Int, Appended
      <4>3. QED BY <4>1, <4>2
    <3>7. taken'[0] = u /\ Now' = iv.start
      <4>1. taken'[0] = u
        BY <3>5, <3>6
      <4>2. Len(t) \in Nat /\ Len(u) = Len(t) + 1 /\ u # << >>
        BY <3>6
      <4>3. Now' = u[Len(u)]
        BY <4>1, <4>2 DEF Now
      <4>4. QED BY <3>6, <4>1, <4>2, <4>3
    <3>8. \A i, j \in DOMAIN u : i < j => u[i] <= u[j]
      <4>1. InOrder(0)'
        BY <1>1, <1>7 DEF Orderly, Tiers
      <4>2. QED BY <3>7, <4>1 DEF InOrder
    <3>9. CASE t = << >>
      <4>1. Now = 0
        BY <3>4, <3>9 DEF Now
      <4>2. DefTime(prog, iv.id.buf) \in Nat
        <5>1. iv.id.buf \in Bufs(prog)
          BY <1>7, <3>5, PiecesTyped DEF Sound
        <5>2. prog \in Programs
          BY DEF ScanInv
        <5>3. DefTime(prog, iv.id.buf) \in Times(prog)
          BY <5>1, <5>2, DefinedFirst
        <5>4. Times(prog) \subseteq Nat
          <6>1. Times(prog) = 1 .. Len(prog.ops) /\ Len(prog.ops) \in Nat
            BY <5>2, FunctionTyped
          <6>2. QED BY <6>1
        <5>5. QED BY <5>3, <5>4
      <4>3. iv.start >= DefTime(prog, iv.id.buf)
        BY <1>7, <3>5 DEF Neat, NeatPlaces, Born
      <4>4. QED BY <3>5, <3>7, <4>1, <4>2, <4>3
    <3>10. CASE t # << >>
      <4>1. Len(t) \in DOMAIN t /\ Len(t) \in DOMAIN u /\ Len(t) + 1 \in DOMAIN u /\ Len(t) < Len(t) + 1
        BY <3>6, <3>10
      <4>2. Now = t[Len(t)]
        BY <3>4, <3>10 DEF Now
      <4>3. QED BY <3>5, <3>6, <3>7, <3>8, <4>1, <4>2
    <3>11. QED BY <3>9, <3>10
  <2>3. QED BY <2>1, <2>2
<1>9. QED BY <1>1, <1>2, <1>3, <1>4, <1>5, <1>6, <1>7, <1>8 DEF Quiet

(* What a call takes is alone: what was active of it has ended, and has     *)
(* expired.                                                                 *)
LEMMA AloneTake ==
  ASSUME ScanInv, GuardInv, Sole, Orderly', Neat, Take
  PROVE  CurAlone'
<1>1. PICK k \in Tiers : k = Tier /\ prog' = prog /\ placed' = placed
  BY TakeDoes
<1>2. PICK q, r \in Seq(IntervalType), iv \in IntervalType : Takes(k, q, r, iv)
  BY <1>1, TakeDoes
<1>3. /\ handled'[k] = handled[k] \cup {j \in Active(k) : Expired(placed[k][j], iv.start)}
      /\ taken'[k] = Append(taken[k], iv.start) /\ Elsewhere({k}) /\ iv \in Range(unhandled[k]) /\ iv \in Pieces(k)
      /\ CurIn(stack', k) = IF iv.start < iv.end THEN {iv} ELSE {}
  BY <1>2 DEF Takes, Pieces
<1>4. PICK S : S = stack'
  OBVIOUS
<1>5. ASSUME NEW c \in CurIn(S, k), NEW j \in DOMAIN placed[k], j \notin handled'[k], placed[k][j].id = c.id
      PROVE  FALSE
  <2>1. c = iv /\ iv.start < iv.end
    BY <1>3, <1>4, <1>5
  <2>2. j \in Active(k) /\ ~ Expired(placed[k][j], iv.start)
    BY <1>3, <1>5 DEF Active
  <2>3. PICK y \in IntervalType : y = placed[k][j] /\ y \in Range(placed[k]) /\ y \in Pieces(k) /\ y.id = iv.id
    <3>1. placed[k] \in Seq(IntervalType)
      BY DEF ScanInv, QueuesTyped
    <3>2. placed[k][j] \in Range(placed[k])
      BY <1>5, InRange
    <3>3. QED BY <1>5, <2>1, <3>1, <3>2 DEF Pieces
  <2>4. CASE y.mem = iv.mem
    <3>1. Twin(iv, y)
      BY <2>3, <2>4 DEF Twin
    <3>2. QED BY <1>3, <2>3, <3>1 DEF Sole, SoleIn, Foreign
  <2>5. CASE y.mem # iv.mem
    <3>1. prog.guard = 0 /\ (y.end <= iv.start \/ iv.end <= y.start)
      BY <1>3, <2>3, <2>5 DEF Neat, NeatPlaces, PartsApart
    <3>2. y.end \in Int /\ y.start \in Int /\ iv.start \in Int /\ iv.end \in Int
      BY DEF IntervalType
    <3>3. ~ (y.end <= iv.start)
      BY <2>2, <2>3, <3>1, <3>2 DEF Expired
    <3>4. PICK n \in DOMAIN taken[k] : y.start = taken[k][n]
      BY <1>5, <2>3 DEF GuardInv, Dated
    <3>5. PICK t \in Seq(Int) : t = taken[k]
      BY DEF GuardInv
    <3>6. PICK u \in Seq(Int) : /\ u = Append(t, iv.start) /\ Len(u) = Len(t) + 1 /\ u[Len(t) + 1] = iv.start
                                /\ \A i \in DOMAIN t : u[i] = t[i]
      <4>1. PICK w \in Int : w = iv.start
        BY <3>2
      <4>2. /\ Append(t, w) \in Seq(Int) /\ Len(Append(t, w)) = Len(t) + 1 /\ Append(t, w)[Len(t) + 1] = w
            /\ \A i \in DOMAIN t : Append(t, w)[i] = t[i]
        BY ONLY t \in Seq(Int), w \in Int, Appended
      <4>3. QED BY <4>1, <4>2
    <3>7. \A i, l \in DOMAIN u : i < l => u[i] <= u[l]
      <4>1. InOrder(k)'
        BY <1>1 DEF Orderly, Tiers
      <4>2. QED BY <1>3, <3>5, <3>6, <4>1 DEF InOrder
    <3>8. n \in DOMAIN u /\ Len(t) + 1 \in DOMAIN u /\ n < Len(t) + 1
      BY <3>4, <3>5, <3>6
    <3>9. y.start <= iv.start
      <4>1. u[n] <= u[Len(t) + 1]
        BY <3>7, <3>8
      <4>2. u[n] = t[n] /\ u[Len(t) + 1] = iv.start
        BY <3>4, <3>5, <3>6
      <4>3. QED BY <3>4, <3>5, <4>1, <4>2
    <3>10. QED BY <2>1, <3>1, <3>2, <3>3, <3>9
  <2>6. QED BY <2>4, <2>5
<1>6. ASSUME NEW l \in Tiers, NEW c \in CurIn(S, l), NEW j \in DOMAIN placed'[l] \ handled'[l]
      PROVE  placed'[l][j].id # c.id
  <2>1. CASE l = k
    BY <1>1, <1>5, <1>6, <2>1
  <2>2. CASE l # k
    <3>1. placed'[l] = placed[l] /\ handled'[l] = handled[l] /\ CurIn(S, l) = CurIn(stack, l)
      BY <1>3, <1>4, <2>2 DEF Elsewhere, SameCalls
    <3>2. QED BY <1>6, <3>1 DEF Neat, NeatPlaces, CurAlone, Active
  <2>3. QED BY <2>1, <2>2
<1>7. QED BY <1>1, <1>4, <1>6 DEF CurAlone, Active, Tiers

(* What is annotated is what is placed.                                     *)
LEMMA PlaceMarks ==
  ASSUME ScanInv, GuardInv, Sole, Neat, Place
  PROVE  Marked' /\ Located' /\ Lives'
<1>1. PICK k \in Tiers : k = Tier /\ prog' = prog /\ Cur # NoInterval /\ stack # << >>
  BY PlaceDoes
<1>2. PICK d, e \in Seq(IntervalType), x, c \in IntervalType, o \in Nat : Places(k, d, e, x, c, o)
  BY <1>1, PlaceDoes
<1>3. /\ d = placed[k] /\ e = placed'[k] /\ Range(e) = Range(d) \cup {c} /\ c.offset = o /\ SamePiece(c, x)
      /\ memrefs' = Annotated(k, o) /\ CurIn(stack, k) = {x} /\ x = Cur /\ Elsewhere({k})
  BY <1>2 DEF Places
<1>4. \A j \in Active(k) : placed[k][j].id # Cur.id
  BY <1>3 DEF Neat, NeatPlaces, CurAlone
<1>5. memrefs' = IF x.mem = NoMem THEN memrefs
                 ELSE [memrefs EXCEPT ![x.mem] = [buf |-> @.buf, tier |-> k, offset |-> o]]
  <2>1. {j \in Active(k) : placed[k][j].id = Cur.id} = {}
    BY <1>4
  <2>2. QED BY <1>3, <2>1 DEF Annotated
<1>6. memrefs \in Seq(MemrefType) /\ DOMAIN memrefs = 1 .. Len(memrefs)
  BY DEF ScanInv, MemrefsTyped
<1>7. PICK M : M = memrefs'
  OBVIOUS
<1>8. /\ DOMAIN M = DOMAIN memrefs
      /\ \A m \in DOMAIN memrefs : /\ M[m].buf = memrefs[m].buf
                                   /\ m # x.mem => M[m] = memrefs[m]
      /\ x.mem # NoMem => x.mem \in DOMAIN memrefs /\ M[x.mem].tier = k /\ M[x.mem].offset = o
  <2>1. x.mem \in 0 .. Len(memrefs)
    BY <1>1, <1>3, TopTyped DEF Sound
  <2>2. x.mem # NoMem => x.mem \in DOMAIN memrefs
    BY <1>6, <2>1 DEF NoMem
  <2>3. CASE x.mem = NoMem
    BY <1>5, <1>7, <2>3
  <2>4. CASE x.mem # NoMem
    <3>1. M = [memrefs EXCEPT ![x.mem] = [buf |-> memrefs[x.mem].buf, tier |-> k, offset |-> o]]
      BY <1>5, <1>7, <2>4
    <3>2. QED BY <1>6, <2>2, <2>4, <3>1
  <2>5. QED BY <2>3, <2>4
<1>9. x \in Pieces(k) /\ c \in Range(placed'[k])
  BY <1>3 DEF Pieces
<1>10. ASSUME NEW l \in Tiers, NEW y \in Range(placed[l]), y.mem # NoMem
       PROVE  y.mem # x.mem /\ y.mem \in DOMAIN memrefs
  <2>1. y \in Pieces(l)
    BY DEF Pieces
  <2>2. y.mem \in 0 .. Len(memrefs)
    BY <2>1, PiecesTyped DEF Sound
  <2>3. y.mem \in DOMAIN memrefs
    BY <1>6, <1>10, <2>2 DEF NoMem
  <2>4. ~ Twin(x, y)
    <3>1. CASE l = k
      BY <1>3, <3>1 DEF Sole, SoleIn, Foreign
    <3>2. CASE l # k
      BY <1>9, <2>1, <3>2 DEF Sole, Foreign
    <3>3. QED BY <3>1, <3>2
  <2>5. QED BY <1>10, <2>3, <2>4 DEF Twin
<1>11. \A l \in Tiers : \A y \in Range(placed'[l]) : y \in Range(placed[l]) \/ (l = k /\ y = c)
  BY <1>3 DEF Elsewhere
<1>12. \A l \in Tiers : \A y \in Range(placed[l]) : y \in Range(placed'[l])
  BY <1>3 DEF Elsewhere
<1>13. ASSUME NEW l \in Tiers, NEW y \in Range(placed'[l]), y.mem # NoMem
       PROVE  M[y.mem].tier = l /\ M[y.mem].offset = y.offset
  <2>1. CASE y \in Range(placed[l])
    <3>1. y.mem # x.mem /\ y.mem \in DOMAIN memrefs
      BY <1>10, <1>13, <2>1
    <3>2. memrefs[y.mem].tier = l /\ memrefs[y.mem].offset = y.offset
      BY <1>13, <2>1 DEF Neat, NeatPlaces, Marked
    <3>3. QED BY <1>8, <3>1, <3>2
  <2>2. CASE l = k /\ y = c
    BY <1>3, <1>8, <1>13, <2>2 DEF SamePiece
  <2>3. QED BY <1>11, <2>1, <2>2
<1>14. Marked'
  BY <1>1, <1>7, <1>13 DEF Marked, Tiers
<1>15. ASSUME NEW m \in DOMAIN memrefs, M[m].tier # -1
       PROVE  \/ M[m].tier \in Tiers /\ \E y \in Range(placed'[M[m].tier]) : y.mem = m
              \/ HomeOf(prog, M[m].buf) > 0 /\ m \notin Bufs(prog)
  <2>1. CASE m = x.mem
    <3>1. m # NoMem
      BY <1>6 DEF NoMem
    <3>2. M[m].tier = k /\ c.mem = m
      BY <1>3, <1>8, <2>1, <3>1 DEF SamePiece
    <3>3. QED BY <1>9, <3>2
  <2>2. CASE m # x.mem
    <3>1. M[m] = memrefs[m]
      BY <1>8, <2>2
    <3>2. \/ memrefs[m].tier \in Tiers /\ \E y \in Range(placed[memrefs[m].tier]) : y.mem = m
          \/ HomeOf(prog, memrefs[m].buf) > 0 /\ m \notin Bufs(prog)
      BY <1>15, <3>1 DEF Neat, NeatPlaces, Located
    <3>3. PICK l : l = memrefs[m].tier
      OBVIOUS
    <3>4. l \in Tiers /\ (\E y \in Range(placed[l]) : y.mem = m) => \E y \in Range(placed'[l]) : y.mem = m
      BY <1>12
    <3>5. QED BY <3>1, <3>2, <3>3, <3>4
  <2>3. QED BY <2>1, <2>2
<1>16. Located'
  BY <1>1, <1>7, <1>8, <1>15 DEF Located, Tiers
<1>17. c.start < c.end
  BY <1>1, <1>3, PlacingLast DEF SamePiece
<1>18. Lives'
  <2>1. \A l \in Tiers : \A y \in Range(placed[l]) : y.start < y.end
    BY DEF Neat, NeatPlaces, Lives
  <2>2. QED BY <1>1, <1>11, <1>17, <2>1 DEF Lives, Tiers
<1>19. QED BY <1>14, <1>16, <1>18

(* A step that neither evicts nor emits a chain leaves the places neat.     *)
LEMMA QuietAlone ==
  ASSUME ScanInv, GuardInv, Sole, Orderly', Neat, [Next]_vars, ~ Spill, ~ EmitChain
  PROVE  CurAlone'
<1>1. CASE Take
  BY <1>1, AloneTake
<1>2. CASE Place
  <2>1. PICK k \in Tiers : k = Tier /\ prog' = prog /\ handled' = handled
    BY <1>2, PlaceDoes
  <2>2. PICK d, e \in Seq(IntervalType), x, c \in IntervalType, o \in Nat : Places(k, d, e, x, c, o)
    BY <1>2, <2>1, PlaceDoes
  <2>3. PICK S : S = stack' /\ CurIn(S, k) = {} /\ Elsewhere({k})
    BY <2>2 DEF Places
  <2>4. \A l \in Tiers : l # k => placed'[l] = placed[l] /\ CurIn(S, l) = CurIn(stack, l)
    BY <2>3 DEF Elsewhere, SameCalls
  <2>5. QED BY <2>1, <2>3, <2>4 DEF Neat, NeatPlaces, CurAlone, Active, Tiers
<1>3. CASE GiveUp
  BY <1>3, GiveUpDoes DEF Orderly
<1>4. CASE ~ (Take \/ Place \/ GiveUp)
  <2>1. PICK S : S = stack'
    OBVIOUS
  <2>2. /\ prog' = prog /\ placed' = placed /\ handled' = handled
        /\ \A l \in Tiers : CurIn(S, l) \subseteq CurIn(stack, l)
    <3>1. CASE Return
      <4>1. PICK l \in Tiers : l = Tier /\ prog' = prog /\ placed' = placed /\ handled' = handled
        BY <3>1, ReturnDoes
      <4>2. CASE ReturnsToNone
        <5>1. CurIn(S, l) = {} /\ Elsewhere({l})
          BY <2>1, <4>1, <4>2 DEF ReturnsToNone
        <5>2. \A j \in Tiers : j # l => CurIn(S, j) = CurIn(stack, j)
          BY <2>1, <5>1 DEF Elsewhere, SameCalls
        <5>3. QED BY <4>1, <5>1, <5>2
      <4>3. ASSUME NEW k \in Tiers, ReturnsTo(k) PROVE \A j \in Tiers : CurIn(S, j) \subseteq CurIn(stack, j)
        <5>1. CurIn(S, l) = {} /\ CurIn(S, k) = CurIn(stack, k) /\ Elsewhere({k, l})
          BY <2>1, <4>1, <4>3 DEF ReturnsTo
        <5>2. \A j \in Tiers : j # l /\ j # k => CurIn(S, j) = CurIn(stack, j)
          BY <2>1, <5>1 DEF Elsewhere, SameCalls
        <5>3. QED BY <5>1, <5>2
      <4>4. QED BY <3>1, <4>1, <4>2, <4>3, ReturnDoes
    <3>2. CASE ~ Return
      <4>1. prog' = prog /\ placed' = placed /\ handled' = handled /\ \A k : SameCalls(stack, stack', k)
        BY <1>4, <3>2, PiecesRest DEF Next
      <4>2. QED BY <2>1, <4>1 DEF SameCalls
    <3>3. QED BY <3>1, <3>2
  <2>3. QED BY <2>1, <2>2 DEF Neat, NeatPlaces, CurAlone, Active, Tiers
<1>5. QED BY <1>1, <1>2, <1>3, <1>4

LEMMA NeatQuiet ==
  ASSUME ScanInv, GuardInv, CodeInv, Course, Sole, Shaped, Orderly', Neat, [Next]_vars, ~ Spill, ~ EmitChain
  PROVE  Neat'
<1>1. Quiet
  BY QuietStep
<1>2. /\ PartsApart' /\ FreshOrBack' /\ Born' /\ Kept' /\ StagesLate' /\ DefsDated'
      /\ Sorted(code)' /\ CopiesFit' /\ StagesUsed' /\ DefsFirst'
  BY <1>1, QuietPieces, QuietCode
<1>3. CurAlone'
  BY QuietAlone
<1>4. Marked' /\ Located' /\ Lives'
  <2>1. CASE Place
    BY <2>1, PlaceMarks
  <2>2. CASE ~ Place
    <3>1. memrefs' = memrefs
      BY <2>2 DEF Next, StartTier, Take, SpillOfNothing, GiveUp, Return, Scanned, Finish, Execute, vars, outState
    <3>2. placed' = placed
      BY <2>2 DEF Next, StartTier, Take, SpillOfNothing, GiveUp, Return, Scanned, Finish, Execute, vars, tiersState
    <3>3. prog' = prog
      BY <1>1 DEF Quiet
    <3>4. QED BY <3>1, <3>2, <3>3 DEF Neat, NeatPlaces, Marked, Located, Lives, Tiers
  <2>3. QED BY <2>1, <2>2
<1>5. QED BY <1>2, <1>3, <1>4 DEF Neat, NeatPlaces, NeatCode

-----------------------------------------------------------------------------
(* An orderly eviction: a buffer that lives on is cut when a fresh one that *)
(* takes its place is defined, and what comes back does so at its next use. *)
Splits(a, c, x, next, uses, n) ==
  /\ 0 \in Tiers /\ 1 \in Tiers /\ Bottom > 0 /\ prog.guard = 0
  /\ c.mem \in Bufs(prog) /\ c.start = DefTime(prog, c.mem) /\ c.start \notin ExecTimes /\ c.start = Now
  /\ a.start \in Int /\ c.start \in Int /\ a.end \in Int /\ next \in Int
  /\ a.start < c.start /\ c.start < a.end /\ c.start <= next /\ next < a.end
  /\ Comes(a, next, uses) => next \in ExecTimes /\ c.start < next /\ Min(uses) = next
  /\ uses \subseteq ExecTimes /\ \A u \in uses : next <= u
  /\ a \in Pieces(0) /\ c \in Pieces(0) /\ a.mem # NoMem /\ a.mem # c.mem /\ a.id.buf \in Bufs(prog)
  /\ memrefs[a.mem].buf = a.id.buf /\ HomeOf(prog, a.id.buf) = 0
  /\ Cut(x, a, c.start)

(* The memrefs it makes. *)
Makings(a, next, uses, n) ==
  /\ n = Len(memrefs) /\ a.mem \in 1 .. n /\ Len(prog.size) <= n /\ DOMAIN memrefs = 1 .. n
  /\ DOMAIN memrefs' = 1 .. n + (IF Comes(a, next, uses) THEN 2 ELSE 1)
  /\ \A m \in 1 .. n : memrefs'[m] = memrefs[m]
  /\ memrefs'[n + 1] = Unplaced(a.id.buf)
  /\ Comes(a, next, uses) => memrefs'[n + 2] = Unplaced(a.id.buf)

CutOf(y, a, c) == y.id = a.id /\ y.mem = a.mem /\ y.start = a.start /\ y.end = c.start
OutOf(y, a, c, next, n) == y.id = a.id /\ y.mem = n + 1 /\ y.start = c.start /\ y.end = next
BackOf(y, a, next, n) == y.id = a.id /\ y.mem = n + 2 /\ y.start = next /\ y.end = a.end

PiecesCut(a, c, next, uses, n) ==
  /\ \A j \in Tiers : \A y \in Pieces(j)' :
       \/ y \in Pieces(j) /\ y.mem # a.mem /\ y.mem \in 0 .. n
       \/ j = 0 /\ CutOf(y, a, c)
       \/ j = 0 /\ Comes(a, next, uses) /\ BackOf(y, a, next, n)
       \/ j = 1 /\ OutOf(y, a, c, next, n)
  /\ \A j \in Tiers : \A z \in Pieces(j) : z.mem # a.mem => z \in Pieces(j)'
  /\ \E y \in Pieces(1)' : OutOf(y, a, c, next, n)

PlacesCut(a, c) ==
  /\ \A j \in Tiers : \A y \in Range(placed'[j]) :
       \/ y \in Range(placed[j]) /\ y.mem # a.mem
       \/ j = 0 /\ CutOf(y, a, c) /\ y.offset = a.offset
  /\ \A j \in Tiers : \A z \in Range(placed[j]) : z.mem # a.mem => z \in Range(placed'[j])
  /\ a \in Range(placed[0]) /\ \E y \in Range(placed'[0]) : CutOf(y, a, c)
  /\ \A j \in Tiers : /\ DOMAIN placed'[j] = DOMAIN placed[j]
                      /\ \A i \in DOMAIN placed[j] : placed'[j][i].id = placed[j][i].id

LEMMA SpillSplits ==
  ASSUME ScanInv, GuardInv, Homes, ZeroInv, Sole, Labelled, Orderly, Neat, Spill, NEW k \in Tiers, k = Tier,
         NEW v \in Ids, NEW i \in Nat, NEW a \in IntervalType, NEW c \in IntervalType, NEW x \in IntervalType,
         NEW next \in Int, NEW uses \in SUBSET Nat, NEW n \in Nat, Makes(k, v, i, a, c, x, next, uses, n),
         k + 1 \in Tiers, FreshEvictionsOnly'
  PROVE  k = 0 /\ Splits(a, c, x, next, uses, n)
<1>1. /\ prog \in Programs /\ prog' = prog /\ stack # << >> /\ Cur # NoInterval
      /\ Bottom \in Nat /\ Tiers = 0 .. Bottom
  BY SpillMakes, TargetTyped DEF ScanInv
<1>2. /\ evictedFor' = evictedFor \cup {<<k, c.mem, a.mem>>} /\ a.mem # NoMem /\ c.mem # NoMem
      /\ c = Cur /\ CurIn(stack, k) = {c} /\ i \in Active(k) /\ i \in DOMAIN placed[k] /\ a = placed[k][i]
      /\ a.id = v /\ v \notin Top.excluded /\ next = NextUse(a) /\ uses = {u \in a.uses : u >= next}
      /\ Cut(x, a, c.start) /\ a \in Pieces(k) /\ c \in Pieces(k) /\ Sound(a)
  BY DEF Makes, Spills
<1>3. k = 0 /\ c.mem \in Bufs(prog)
  <2>1. PICK e : e = <<k, c.mem, a.mem>>
    OBVIOUS
  <2>2. e \in evictedFor' /\ e[1] = k /\ e[2] = c.mem
    BY <1>2, <2>1
  <2>3. e[1] = 0 /\ e[2] \in Bufs(prog')
    BY <2>2 DEF FreshEvictionsOnly
  <2>4. QED BY <1>1, <2>2, <2>3
<1>4. 0 \in Tiers /\ 1 \in Tiers /\ Bottom > 0
  BY <1>1, <1>3
<1>5. InTurn /\ ~ Lost
  BY DEF ZeroInv, Orderly
<1>6. prog.guard = 0
  BY <1>3, <1>5, SpillUnguarded
<1>7. a.start \in Int /\ c.start \in Int /\ a.end \in Int
  BY DEF IntervalType
<1>8. c.start = DefTime(prog, c.mem) /\ c.start \notin ExecTimes
  <2>1. c.start = DefTime(prog, c.mem)
    BY <1>2, <1>3 DEF Homes, Origins
  <2>2. QED BY <1>1, <1>3, <2>1, DefinedFirst DEF ExecTimes
<1>9. c.start = Now
  BY <1>2, <1>3, NowTyped
<1>10. c.start < a.end
  <2>1. Latest(Top) /\ Top.tier = k /\ Top.cur = c
    BY <1>1, <1>2, PlacingLast
  <2>2. InOrder(k)
    BY DEF Orderly
  <2>3. ~ (a.end + prog.guard <= c.start)
    BY <1>2, <2>1, <2>2 DEF Latest
  <2>4. QED BY <1>6, <1>7, <2>3
<1>11. a \in Range(placed[0])
  BY <1>2, <1>3, InRange
<1>12. a.mem # c.mem
  <2>1. Foreign(CurIn(stack, 0), Range(placed[0]))
    BY <1>4 DEF Sole, SoleIn
  <2>2. QED BY <1>2, <1>3, <1>11, <2>1 DEF Foreign, Twin
<1>13. a.start < c.start
  <2>1. a.start <= c.start
    BY <1>2, <1>3, <1>5, <1>9 DEF InTurn
  <2>2. a.mem \in Bufs(prog) \/ a.start \in ExecTimes
    BY <1>2, <1>3 DEF Neat, NeatPlaces, FreshOrBack
  <2>3. a.start # c.start
    <3>1. CASE a.mem \in Bufs(prog)
      <4>1. a.start = DefTime(prog, a.mem)
        BY <1>2, <1>3, <3>1 DEF Homes, Origins
      <4>2. QED BY <1>1, <1>3, <1>8, <1>12, <3>1, <4>1, DefinedApart
    <3>2. CASE a.start \in ExecTimes
      BY <1>8, <3>2
    <3>3. QED BY <2>2, <3>1, <3>2
  <2>4. QED BY <1>7, <2>1, <2>3
<1>14. uses \subseteq ExecTimes /\ \A u \in uses : next <= u
  BY <1>2 DEF Sound
<1>15. c.start <= next /\ next < a.end /\ (uses # {} => next \in a.uses)
  <2>1. PICK now \in Int : now = Cur.start /\ now = c.start
    BY <1>2, <1>7
  <2>2. \A u \in a.uses : u < a.end
    BY <1>2 DEF Sound
  <2>3. now < a.end
    BY <1>10, <2>1
  <2>4. /\ now <= NextUse(a) /\ NextUse(a) < a.end
        /\ {u \in a.uses : u >= NextUse(a)} # {} => NextUse(a) \in a.uses
    BY <2>1, <2>2, <2>3, NextUseIsUse
  <2>5. QED BY <1>2, <2>1, <2>4
<1>16. Comes(a, next, uses) => next \in ExecTimes /\ c.start < next /\ Min(uses) = next
  <2>1. SUFFICES ASSUME Comes(a, next, uses) PROVE next \in ExecTimes /\ c.start < next /\ Min(uses) = next
    OBVIOUS
  <2>2. uses # {} /\ next \in uses
    BY <1>2, <1>15, <2>1 DEF Comes
  <2>3. next \in ExecTimes /\ c.start < next
    BY <1>7, <1>8, <1>14, <1>15, <2>2
  <2>4. PICK w : w = Min(uses) /\ w \in uses /\ \A u \in uses : w <= u
    BY <2>2, MinIsLeast
  <2>5. w <= next /\ next <= w /\ w \in Int /\ next \in Int
    BY <1>14, <2>2, <2>4
  <2>6. QED BY <2>3, <2>4, <2>5
<1>17. /\ a.id.buf \in Bufs(prog) /\ memrefs[a.mem].buf = a.id.buf
       /\ HomeOf(prog, a.id.buf) = 0
  <2>1. a \in Pieces(0)
    BY <1>2, <1>3
  <2>2. a.id.buf \in Bufs(prog)
    BY <1>2 DEF Sound
  <2>3. memrefs[a.mem].buf = a.id.buf
    BY <1>2, <1>4, <2>1 DEF Labelled
  <2>4. HomeOf(prog, a.id.buf) = 0
    BY <1>2, <1>4, <2>1 DEF Homes, NoResidents
  <2>5. QED BY <2>2, <2>3, <2>4
<1>18. QED
  BY <1>2, <1>3, <1>4, <1>6, <1>7, <1>8, <1>9, <1>10, <1>12, <1>13, <1>14, <1>15, <1>16, <1>17 DEF Splits

LEMMA SpillMakings ==
  ASSUME ScanInv, Spill, NEW k, NEW v \in Ids, NEW i \in Nat, NEW a \in IntervalType,
         NEW c \in IntervalType, NEW x \in IntervalType, NEW next \in Int, NEW uses \in SUBSET Nat, NEW n \in Nat,
         Makes(k, v, i, a, c, x, next, uses, n), ScanInv'
  PROVE  Makings(a, next, uses, n)
<1>1. /\ n = Len(memrefs) /\ a.mem \in 1 .. n /\ Len(prog.size) <= n /\ a.id = v
      /\ Len(memrefs') = n + (IF Comes(a, next, uses) THEN 2 ELSE 1)
      /\ \A m \in 1 .. n : memrefs'[m] = memrefs[m]
      /\ memrefs'[n + 1] = Unplaced(v.buf)
      /\ Comes(a, next, uses) => memrefs'[n + 2] = Unplaced(v.buf)
  BY DEF Makes, Spills
<1>2. memrefs \in Seq(MemrefType) /\ memrefs' \in Seq(MemrefType')
  BY DEF ScanInv, MemrefsTyped
<1>3. DOMAIN memrefs = 1 .. n /\ DOMAIN memrefs' = 1 .. Len(memrefs')
  BY <1>1, <1>2
<1>4. QED BY <1>1, <1>3 DEF Makings

(* What becomes of the pieces. *)
LEMMA SpillPieces ==
  ASSUME ScanInv, Course, Sole, stack # << >>, Tier = 0, NEW v \in Ids, NEW i \in Nat, NEW a \in IntervalType,
         NEW c \in IntervalType, NEW x \in IntervalType, NEW next \in Int, NEW uses \in SUBSET Nat, NEW n \in Nat,
         Makes(0, v, i, a, c, x, next, uses, n), Splits(a, c, x, next, uses, n), prog' = prog
  PROVE  PiecesCut(a, c, next, uses, n) /\ PlacesCut(a, c)
<1>1. /\ a = placed[0][i] /\ i \in DOMAIN placed[0] /\ DOMAIN placed'[0] = DOMAIN placed[0]
      /\ placed'[0][i] = x /\ Cut(x, a, c.start) /\ a.mem # NoMem /\ n = Len(memrefs)
      /\ \A j \in DOMAIN placed[0] : j # i => placed'[0][j] = placed[0][j]
      /\ unhandled'[0] = unhandled[0] /\ CurIn(stack, 0) = {c} /\ CurIn(stack', 0) = {c}
      /\ ReloadIn(stack', 0) = IF Comes(a, next, uses) THEN {Part(a, next, a.end, uses, n + 2)} ELSE {}
      /\ unhandled'[0 + 1] = AddUnhandled(unhandled[0 + 1], Part(a, c.start, next, {}, n + 1))
      /\ placed'[0 + 1] = placed[0 + 1] /\ SameCalls(stack, stack', 0 + 1) /\ Elsewhere({0, 0 + 1})
      /\ \A j \in Tiers : \A y \in Pieces(j) : y.mem \in 0 .. n
  BY DEF Makes, Spills
<1>2. /\ 0 \in Tiers /\ 1 \in Tiers /\ a.end \in Int /\ c.start \in Int /\ a \in Pieces(0) /\ 0 + 1 = 1
  BY DEF Splits
<1>3. PICK d, e : d = placed[0] /\ e = placed'[0]
  OBVIOUS
<1>4. a \in Range(d) /\ x \in Range(e) /\ CutOf(x, a, c) /\ x.offset = a.offset
  BY <1>1, <1>3, InRange DEF Cut, CutOf
<1>5. ASSUME NEW j \in DOMAIN d, j # i PROVE d[j].mem # a.mem
  <2>1. Distinct(d)
    BY <1>2, <1>3 DEF Sole, SoleIn
  <2>2. ~ Twin(d[j], d[i])
    BY <1>1, <1>3, <1>5, <2>1 DEF Distinct
  <2>3. QED BY <1>1, <1>3, <2>2 DEF Twin
<1>6. \A y \in Range(e) : (y \in Range(d) /\ y.mem # a.mem) \/ y = x
  <2>1. SUFFICES ASSUME NEW j \in DOMAIN e, e[j] # x PROVE e[j] \in Range(d) /\ e[j].mem # a.mem
    BY InRange
  <2>2. j \in DOMAIN d /\ j # i /\ e[j] = d[j]
    BY <1>1, <1>3, <2>1
  <2>3. QED BY <1>5, <2>2, InRange
<1>7. \A z \in Range(d) : z.mem # a.mem => z \in Range(e)
  <2>1. SUFFICES ASSUME NEW j \in DOMAIN d, d[j].mem # a.mem PROVE d[j] \in Range(e)
    BY InRange
  <2>2. j \in DOMAIN e /\ e[j] = d[j]
    BY <1>1, <1>3, <2>1
  <2>3. QED BY <2>2, InRange
<1>8. \A j \in Tiers : j # 0 => placed'[j] = placed[j]
  BY <1>1 DEF Elsewhere
<1>9. \A j \in Tiers : j # 0 => \A z \in Pieces(j) : z.mem # a.mem
  BY <1>1, <1>2 DEF Sole, Foreign, Twin
<1>10. \A j \in Tiers : \A z \in Range(placed[j]) : z \in Pieces(j)
  BY DEF Pieces
<1>11. PlacesCut(a, c)
  <2>1. ASSUME NEW j \in Tiers, NEW y \in Range(placed'[j])
        PROVE  (y \in Range(placed[j]) /\ y.mem # a.mem) \/ (j = 0 /\ CutOf(y, a, c) /\ y.offset = a.offset)
    <3>1. CASE j = 0
      BY <1>3, <1>4, <1>6, <3>1
    <3>2. CASE j # 0
      BY <1>8, <1>9, <1>10, <3>2
    <3>3. QED BY <3>1, <3>2
  <2>2. \A j \in Tiers : \A z \in Range(placed[j]) : z.mem # a.mem => z \in Range(placed'[j])
    BY <1>3, <1>7, <1>8
  <2>3. a \in Range(placed[0]) /\ \E y \in Range(placed'[0]) : CutOf(y, a, c)
    BY <1>3, <1>4
  <2>4. ASSUME NEW j \in Tiers
        PROVE  /\ DOMAIN placed'[j] = DOMAIN placed[j]
               /\ \A l \in DOMAIN placed[j] : placed'[j][l].id = placed[j][l].id
    <3>1. x.id = a.id
      BY <1>1 DEF Cut
    <3>2. QED BY <1>1, <1>8, <3>1
  <2>5. QED BY <2>1, <2>2, <2>3, <2>4 DEF PlacesCut
<1>12. /\ OutOf(Part(a, c.start, next, {}, n + 1), a, c, next, n)
       /\ BackOf(Part(a, next, a.end, uses, n + 2), a, next, n)
       /\ Part(a, c.start, next, {}, n + 1) \in IntervalType
  <2>1. (\E m \in Nat : m = n + 1) /\ (\E l \in Nat : l = n + 2) /\ c.start \in Int /\ a.end \in Int
    BY <1>2
  <2> PICK m \in Nat : m = n + 1
    BY <2>1
  <2> PICK l \in Nat : l = n + 2
    BY <2>1
  <2> PICK s \in Int : s = c.start
    BY <2>1
  <2> PICK w \in Int : w = a.end
    BY <2>1
  <2>2. PICK us \in SUBSET Nat : us = {}
    OBVIOUS
  <2>3. /\ Part(a, s, next, us, m).id = a.id /\ Part(a, s, next, us, m).mem = m
        /\ Part(a, s, next, us, m).start = s /\ Part(a, s, next, us, m).end = next
        /\ Part(a, s, next, us, m) \in IntervalType
    BY ONLY a \in IntervalType, m \in Nat, next \in Int, s \in Int, us \in SUBSET Nat, PartTyped
  <2>4. /\ Part(a, next, w, uses, l).id = a.id /\ Part(a, next, w, uses, l).mem = l
        /\ Part(a, next, w, uses, l).start = next /\ Part(a, next, w, uses, l).end = w
    BY ONLY a \in IntervalType, l \in Nat, next \in Int, w \in Int, uses \in SUBSET Nat, PartTyped
  <2>5. QED BY <2>2, <2>3, <2>4 DEF OutOf, BackOf
<1>13. PICK out \in IntervalType : out = Part(a, c.start, next, {}, n + 1) /\ OutOf(out, a, c, next, n)
  BY <1>12
<1>14. PICK q \in Seq(IntervalType) : q = unhandled[1] /\ unhandled'[1] = AddUnhandled(q, out)
  <2>1. unhandled[1] \in Seq(IntervalType)
    BY <1>2 DEF ScanInv, QueuesTyped
  <2>2. QED BY <1>1, <1>2, <1>13, <2>1
<1>15. Range(unhandled'[1]) = Range(q) \cup {out}
  <2>1. Range(AddUnhandled(q, out)) = Range(q) \cup {out}
    BY ONLY q \in Seq(IntervalType), out \in IntervalType, AddUnhandledElements
  <2>2. QED BY <1>14, <2>1
<1>16. ASSUME NEW y \in Pieces(0)'
       PROVE  \/ y \in Pieces(0) /\ y.mem # a.mem
              \/ CutOf(y, a, c)
              \/ Comes(a, next, uses) /\ BackOf(y, a, next, n)
  <2>1. \/ y \in Range(unhandled[0]) \/ y = c \/ y \in Range(e)
        \/ Comes(a, next, uses) /\ y = Part(a, next, a.end, uses, n + 2)
    BY <1>1, <1>3, <1>16 DEF Pieces
  <2>2. ASSUME y \in Range(unhandled[0]) \/ y = c PROVE y \in Pieces(0) /\ y.mem # a.mem
    <3>1. ~ Twin(y, a)
      BY <1>1, <1>2, <1>3, <1>4, <2>2 DEF Sole, SoleIn, Foreign
    <3>2. QED BY <1>1, <2>2, <3>1 DEF Twin, Pieces
  <2>3. ASSUME y \in Range(d) PROVE y \in Pieces(0)
    BY <1>3, <2>3 DEF Pieces
  <2>4. QED BY <1>4, <1>6, <1>12, <2>1, <2>2, <2>3
<1>17. CurIn(stack', 1) = CurIn(stack, 1) /\ ReloadIn(stack', 1) = ReloadIn(stack, 1) /\ placed'[1] = placed[1]
  BY <1>1, <1>2 DEF SameCalls
<1>18. /\ \A y \in Pieces(1)' : y \in Pieces(1) \/ y = out
       /\ \A z \in Pieces(1) : z \in Pieces(1)'
       /\ out \in Pieces(1)'
  BY <1>14, <1>15, <1>17 DEF Pieces
<1>19. \A j \in Tiers : j # 0 /\ j # 1 => Pieces(j)' = Pieces(j)
  BY <1>1, <1>2, PiecesAlone DEF Elsewhere
<1>20. \A z \in Pieces(0) : z.mem # a.mem => z \in Pieces(0)'
  <2>1. ASSUME NEW z \in Pieces(0), z.mem # a.mem PROVE z \in Pieces(0)'
    <3>1. \/ z \in Range(unhandled[0]) \/ z = c \/ z \in ReloadIn(stack, 0) \/ z \in Range(d)
      BY <1>1, <1>3, <2>1 DEF Pieces
    <3>2. CASE z \in Range(unhandled[0]) \/ z = c
      BY <1>1, <3>2 DEF Pieces
    <3>3. CASE z \in Range(d)
      BY <1>3, <1>7, <2>1, <3>3 DEF Pieces
    <3>4. CASE z \in ReloadIn(stack, 0)
      BY <1>2, <3>4, TopFree
    <3>5. QED BY <3>1, <3>2, <3>3, <3>4
  <2>2. QED BY <2>1
<1>21. ASSUME NEW j \in Tiers, NEW y \in Pieces(j)'
       PROVE  \/ y \in Pieces(j) /\ y.mem # a.mem /\ y.mem \in 0 .. n
              \/ j = 0 /\ CutOf(y, a, c)
              \/ j = 0 /\ Comes(a, next, uses) /\ BackOf(y, a, next, n)
              \/ j = 1 /\ OutOf(y, a, c, next, n)
  <2>1. y \in Pieces(j) => y.mem \in 0 .. n
    BY <1>1
  <2>2. CASE j = 0
    BY <1>16, <1>21, <2>1, <2>2
  <2>3. CASE j = 1
    BY <1>2, <1>9, <1>13, <1>18, <1>21, <2>1, <2>3
  <2>4. CASE j # 0 /\ j # 1
    BY <1>9, <1>19, <1>21, <2>1, <2>4
  <2>5. QED BY <2>2, <2>3, <2>4
<1>22. ASSUME NEW j \in Tiers, NEW z \in Pieces(j), z.mem # a.mem PROVE z \in Pieces(j)'
  <2>1. CASE j = 0
    BY <1>20, <1>22, <2>1
  <2>2. CASE j = 1
    BY <1>18, <1>22, <2>2
  <2>3. CASE j # 0 /\ j # 1
    BY <1>19, <2>3
  <2>4. QED BY <2>1, <2>2, <2>3
<1>23. \E y \in Pieces(1)' : OutOf(y, a, c, next, n)
  BY <1>13, <1>18
<1>24. QED BY <1>11, <1>21, <1>22, <1>23 DEF PiecesCut

(* The pieces and the places stay neat.                                     *)
LEMMA SplitPieces ==
  ASSUME ScanInv, Homes, Neat, prog' = prog, NEW a, NEW c, NEW x, NEW next, NEW uses, NEW n \in Nat,
         Splits(a, c, x, next, uses, n), PiecesCut(a, c, next, uses, n)
  PROVE  PartsApart' /\ FreshOrBack' /\ Born' /\ Kept'
<1>1. /\ 0 \in Tiers /\ 1 \in Tiers /\ Bottom > 0 /\ prog.guard = 0
      /\ a.start \in Int /\ c.start \in Int /\ a.end \in Int /\ next \in Int
      /\ a.start < c.start /\ c.start < a.end /\ c.start <= next /\ next < a.end
      /\ Comes(a, next, uses) => next \in ExecTimes
      /\ a \in Pieces(0) /\ a.mem # NoMem /\ a.id.buf \in Bufs(prog)
      /\ prog \in Programs
  BY DEF Splits, ScanInv
<1>2. Tiers' = Tiers /\ ExecTimes' = ExecTimes /\ Bufs(prog') = Bufs(prog)
  BY DEF Tiers, ExecTimes
<1>3. \A j \in Tiers : \A y \in Pieces(j)' :
        \/ y \in Pieces(j) /\ y.mem # a.mem /\ y.mem \in 0 .. n
        \/ j = 0 /\ CutOf(y, a, c)
        \/ j = 0 /\ Comes(a, next, uses) /\ BackOf(y, a, next, n)
        \/ j = 1 /\ OutOf(y, a, c, next, n)
  BY DEF PiecesCut
<1>4. ASSUME NEW j \in Tiers, NEW y \in Pieces(j), y.id = a.id, y.mem # a.mem
      PROVE  y.start \in Int /\ y.end \in Int /\ (y.end <= a.start \/ a.end <= y.start)
  <2>1. y.end <= a.start \/ a.end <= y.start
    BY <1>1, <1>4 DEF Neat, NeatPlaces, PartsApart
  <2>2. y \in IntervalType
    BY PiecesTyped
  <2>3. QED BY <2>1, <2>2 DEF IntervalType
<1>5. \A y : CutOf(y, a, c) \/ BackOf(y, a, next, n) \/ OutOf(y, a, c, next, n) =>
        y.id = a.id /\ y.start \in Int /\ y.end \in Int /\ a.start <= y.start /\ y.end <= a.end
  BY <1>1 DEF CutOf, BackOf, OutOf
<1>6. ASSUME NEW k \in Tiers, NEW l \in Tiers, NEW y \in Pieces(k)', NEW z \in Pieces(l)',
             y.id = z.id, y.mem # z.mem
      PROVE  y.end <= z.start \/ z.end <= y.start
  <2>1. CASE y \in Pieces(k) /\ z \in Pieces(l)
    BY <1>6, <2>1 DEF Neat, NeatPlaces, PartsApart
  <2>2. CASE y \in Pieces(k) /\ y.mem # a.mem /\ z \notin Pieces(l)
    <3>1. CutOf(z, a, c) \/ BackOf(z, a, next, n) \/ OutOf(z, a, c, next, n)
      BY <1>3, <2>2
    <3>2. z.id = a.id /\ z.start \in Int /\ z.end \in Int /\ a.start <= z.start /\ z.end <= a.end
      BY <1>5, <3>1
    <3>3. y.start \in Int /\ y.end \in Int /\ (y.end <= a.start \/ a.end <= y.start)
      BY <1>4, <1>6, <2>2, <3>2
    <3>4. QED BY <1>1, <3>2, <3>3
  <2>3. CASE z \in Pieces(l) /\ z.mem # a.mem /\ (CutOf(y, a, c) \/ BackOf(y, a, next, n) \/ OutOf(y, a, c, next, n))
    <3>1. y.id = a.id /\ y.start \in Int /\ y.end \in Int /\ a.start <= y.start /\ y.end <= a.end
      BY <1>5, <2>3
    <3>2. z.start \in Int /\ z.end \in Int /\ (z.end <= a.start \/ a.end <= z.start)
      BY <1>4, <1>6, <2>3, <3>1
    <3>3. QED BY <1>1, <3>1, <3>2
  <2>4. CASE y \in Pieces(k) /\ y.mem # a.mem /\ (CutOf(z, a, c) \/ BackOf(z, a, next, n) \/ OutOf(z, a, c, next, n))
    <3>1. z.id = a.id /\ z.start \in Int /\ z.end \in Int /\ a.start <= z.start /\ z.end <= a.end
      BY <1>5, <2>4
    <3>2. y.start \in Int /\ y.end \in Int /\ (y.end <= a.start \/ a.end <= y.start)
      BY <1>4, <1>6, <2>4, <3>1
    <3>3. QED BY <1>1, <3>1, <3>2
  <2>5. CASE (CutOf(y, a, c) \/ BackOf(y, a, next, n) \/ OutOf(y, a, c, next, n))
             /\ (CutOf(z, a, c) \/ BackOf(z, a, next, n) \/ OutOf(z, a, c, next, n))
    BY <1>1, <1>6, <2>5 DEF CutOf, BackOf, OutOf
  <2>6. QED BY <1>3, <2>1, <2>3, <2>4, <2>5
<1>7. PartsApart'
  BY <1>1, <1>2, <1>6 DEF PartsApart
<1>8. FreshOrBack'
  <2>1. ASSUME NEW y \in Pieces(0)', y.mem # NoMem PROVE y.mem \in Bufs(prog) \/ y.start \in ExecTimes
    <3>1. CASE y \in Pieces(0)
      BY <2>1, <3>1 DEF Neat, NeatPlaces, FreshOrBack
    <3>2. CASE CutOf(y, a, c)
      <4>1. a.mem \in Bufs(prog) \/ a.start \in ExecTimes
        BY <1>1 DEF Neat, NeatPlaces, FreshOrBack
      <4>2. QED BY <3>2, <4>1 DEF CutOf
    <3>3. CASE Comes(a, next, uses) /\ BackOf(y, a, next, n)
      BY <1>1, <3>3 DEF BackOf
    <3>4. QED BY <1>1, <1>3, <3>1, <3>2, <3>3
  <2>2. QED BY <1>2, <2>1 DEF FreshOrBack
<1>9. Born'
  <2>1. ASSUME NEW k \in Tiers, NEW y \in Pieces(k)' PROVE y.start >= DefTime(prog, y.id.buf)
    <3>1. CASE y \in Pieces(k)
      BY <3>1 DEF Neat, NeatPlaces, Born
    <3>2. CASE y \notin Pieces(k)
      <4>1. y.id = a.id /\ y.start \in Int /\ a.start <= y.start
        BY <1>3, <1>5, <3>2
      <4>2. a.start >= DefTime(prog, a.id.buf)
        BY <1>1 DEF Neat, NeatPlaces, Born
      <4>3. PICK d \in Nat : d = DefTime(prog, a.id.buf)
        BY <1>1, DefinedFirst, FunctionTyped
      <4>4. QED BY <1>1, <4>1, <4>2, <4>3
    <3>3. QED BY <3>1, <3>2
  <2>2. QED BY <1>2, <2>1 DEF Born
<1>10. Kept'
  <2>1. ASSUME NEW iv \in Intervals(prog), iv.home > 0 \/ iv.mem = NoMem
        PROVE  \E k : k = EntryTier(prog, iv) /\ \E y \in Pieces(k)' : SamePiece(y, iv)
    <3>1. PICK k : k = EntryTier(prog, iv)
      OBVIOUS
    <3>2. PICK z \in Pieces(k) : SamePiece(z, iv)
      BY <2>1, <3>1 DEF Neat, NeatPlaces, Kept
    <3>3. k \in Tiers
      <4>1. Bottom \in Nat /\ Tiers = 0 .. Bottom /\ Cardinality(DOMAIN prog.caps) - 1 = Bottom
        BY TargetTyped DEF ScanInv, Tiers, Bottom
      <4>2. iv.home \in Nat
        BY <1>1, IntervalsFinite DEF IntervalType
      <4>3. EntryTier(prog, iv) = IF iv.home > Bottom THEN Bottom ELSE iv.home
        BY <4>1 DEF EntryTier
      <4>4. QED BY <3>1, <4>1, <4>2, <4>3
    <3>4. z.mem # a.mem
      <4>1. CASE iv.mem = NoMem
        BY <1>1, <3>2, <4>1 DEF SamePiece
      <4>2. CASE iv.home > 0
        <5>1. iv.home # 0
          <6>1. iv.home \in Nat
            BY <1>1, IntervalsFinite DEF IntervalType
          <6>2. QED BY <4>2, <6>1
        <5>2. k # 0
          BY <1>1, <3>1, <5>1, IntervalIs
        <5>3. QED BY <1>1, <3>2, <3>3, <5>2 DEF Homes, OfOneTier
      <4>3. QED BY <2>1, <4>1, <4>2
    <3>5. QED BY <3>1, <3>2, <3>3, <3>4 DEF PiecesCut
  <2>2. ASSUME NEW iv \in Intervals(prog'), iv.home > 0 \/ iv.mem = NoMem
        PROVE  (\E y \in Pieces(EntryTier(prog, iv)) : SamePiece(y, iv))'
    <3>1. iv \in Intervals(prog) /\ EntryTier(prog', iv) = EntryTier(prog, iv)
      OBVIOUS
    <3>2. PICK k : k = EntryTier(prog, iv) /\ \E y \in Pieces(k)' : SamePiece(y, iv)
      BY <2>1, <2>2, <3>1
    <3>3. k = EntryTier(prog', iv)
      BY <3>1, <3>2
    <3>4. QED BY <3>2, <3>3
  <2>3. QED BY <2>2 DEF Kept
<1>11. QED BY <1>7, <1>8, <1>9, <1>10

LEMMA SplitPlaces ==
  ASSUME ScanInv, Neat, prog' = prog, phase' = phase, phase = "alloc", handled' = handled,
         \A k \in Tiers : CurIn(stack', k) = CurIn(stack, k), NEW a, NEW c, NEW x, NEW next,
         NEW uses, NEW n \in Nat, Splits(a, c, x, next, uses, n), Makings(a, next, uses, n), PlacesCut(a, c)
  PROVE  CurAlone' /\ Marked' /\ Located' /\ Lives' /\ StagesLate'
<1>1. /\ 0 \in Tiers /\ a.start \in Int /\ c.start \in Int /\ a.start < c.start
      /\ a \in Pieces(0) /\ a.mem # NoMem /\ a.id.buf \in Bufs(prog) /\ HomeOf(prog, a.id.buf) = 0
  BY DEF Splits
<1>2. Tiers' = Tiers
  BY DEF Tiers
<1>3. /\ DOMAIN memrefs = 1 .. n /\ DOMAIN memrefs' = 1 .. n + (IF Comes(a, next, uses) THEN 2 ELSE 1)
      /\ \A m \in 1 .. n : memrefs'[m] = memrefs[m]
      /\ \A m \in DOMAIN memrefs' : m \in 1 .. n \/ memrefs'[m] = Unplaced(a.id.buf)
  BY DEF Makings
<1>4. /\ \A j \in Tiers : \A y \in Range(placed'[j]) :
           \/ y \in Range(placed[j]) /\ y.mem # a.mem
           \/ j = 0 /\ CutOf(y, a, c) /\ y.offset = a.offset
      /\ \A j \in Tiers : \A z \in Range(placed[j]) : z.mem # a.mem => z \in Range(placed'[j])
      /\ a \in Range(placed[0])
  BY DEF PlacesCut
<1>5. CurAlone'
  <2>1. PICK S : S = stack'
    OBVIOUS
  <2>2. ASSUME NEW k \in Tiers, NEW e \in CurIn(S, k), NEW j \in DOMAIN placed'[k] \ handled'[k]
        PROVE  placed'[k][j].id # e.id
    <3>1. e \in CurIn(stack, k) /\ j \in Active(k) /\ placed'[k][j].id = placed[k][j].id
      BY <2>1, <2>2 DEF PlacesCut, Active
    <3>2. QED BY <3>1 DEF Neat, NeatPlaces, CurAlone
  <2>3. QED BY <1>2, <2>1, <2>2 DEF CurAlone, Active
<1>6. Marked'
  <2>1. ASSUME NEW k \in Tiers, NEW y \in Range(placed'[k]), y.mem # NoMem
        PROVE  memrefs'[y.mem].tier = k /\ memrefs'[y.mem].offset = y.offset
    <3>1. PICK z \in Range(placed[k]) : z.mem = y.mem /\ z.offset = y.offset
      <4>1. CASE y \in Range(placed[k])
        BY <4>1
      <4>2. CASE k = 0 /\ CutOf(y, a, c) /\ y.offset = a.offset
        BY <1>4, <4>2 DEF CutOf
      <4>3. QED BY <1>4, <4>1, <4>2
    <3>2. memrefs[y.mem].tier = k /\ memrefs[y.mem].offset = y.offset
      BY <2>1, <3>1 DEF Neat, NeatPlaces, Marked
    <3>3. y.mem \in 1 .. n
      <4>1. z \in Pieces(k)
        BY DEF Pieces
      <4>2. z.mem \in 0 .. Len(memrefs)
        BY <4>1, PiecesTyped DEF Sound
      <4>3. QED BY <2>1, <3>1, <4>2 DEF NoMem, Makings
    <3>4. QED BY <1>3, <3>2, <3>3
  <2>2. QED BY <1>2, <2>1 DEF Marked
<1>7. Located'
  <2>1. ASSUME NEW m \in DOMAIN memrefs', memrefs'[m].tier # -1
        PROVE  \/ memrefs'[m].tier \in Tiers /\ \E y \in Range(placed'[memrefs'[m].tier]) : y.mem = m
               \/ HomeOf(prog, memrefs'[m].buf) > 0 /\ m \notin Bufs(prog)
    <3>1. m \in 1 .. n /\ memrefs'[m] = memrefs[m]
      BY <1>3, <2>1 DEF Unplaced
    <3>2. \/ memrefs[m].tier \in Tiers /\ \E y \in Range(placed[memrefs[m].tier]) : y.mem = m
          \/ HomeOf(prog, memrefs[m].buf) > 0 /\ m \notin Bufs(prog)
      BY <1>3, <2>1, <3>1 DEF Neat, NeatPlaces, Located
    <3>3. PICK l : l = memrefs[m].tier
      OBVIOUS
    <3>4. ASSUME l \in Tiers, NEW y \in Range(placed[l]), y.mem = m PROVE \E z \in Range(placed'[l]) : z.mem = m
      <4>1. CASE y.mem # a.mem
        BY <1>4, <3>4, <4>1
      <4>2. CASE y.mem = a.mem
        <5>1. a.mem \in 1 .. n /\ memrefs[a.mem].tier = 0
          BY <1>1, <1>4 DEF Makings, Neat, NeatPlaces, Marked
        <5>2. l = 0
          BY <3>3, <3>4, <4>2, <5>1
        <5>3. QED BY <3>4, <4>2, <5>2 DEF PlacesCut, CutOf
      <4>3. QED BY <4>1, <4>2
    <3>5. QED BY <3>1, <3>2, <3>3, <3>4
  <2>2. PICK M : M = memrefs'
    OBVIOUS
  <2>3. QED BY <1>2, <2>1 DEF Located
<1>8. Lives'
  <2>1. \A k \in Tiers : \A y \in Range(placed[k]) : y.start < y.end
    BY DEF Neat, NeatPlaces, Lives
  <2>2. QED BY <1>1, <1>2, <1>4, <2>1 DEF Lives, CutOf
<1>9. StagesLate'
  <2>1. ASSUME NEW m \in DOMAIN memrefs' PROVE m \in Bufs(prog) \/ HomeOf(prog, memrefs'[m].buf) = 0
    <3>1. CASE m \in 1 .. n
      BY <1>3, <3>1 DEF Neat, NeatPlaces, StagesLate
    <3>2. CASE memrefs'[m] = Unplaced(a.id.buf)
      BY <1>1, <3>2 DEF Unplaced
    <3>3. QED BY <1>3, <3>1, <3>2
  <2>2. QED BY <2>1 DEF StagesLate
<1>10. QED BY <1>5, <1>6, <1>7, <1>8, <1>9

(* The code it leaves: what there was, renamed from the next use on, and    *)
(* the two copies, each where its memref starts.                            *)
CodeCut(a, c, next, uses, n) ==
  \A o \in Range(code') :
    \/ o = Copy(c.start, a.mem, n + 1)
    \/ Comes(a, next, uses) /\ o = Copy(next, n + 1, n + 2)
    \/ \E op \in Range(code) : Renames(o, op, IF Comes(a, next, uses) THEN uses ELSE {}, a.mem, n + 2)

LEMMA OneSpliced ==
  ASSUME NEW s \in Seq(CodeType), NEW x \in CodeType, NEW p \in 1 .. Len(s), Sorted(s), ~ IsCopy(s[p]), IsCopy(x),
         x.at = s[p].at, \A y \in Range(s) : IsCopy(y) => \A f \in y.writes, g \in x.writes : f < g
  PROVE  Sorted(Spliced(s, <<x>>, p))
<1>1. PICK cs : cs = <<x>>
  OBVIOUS
<1>2. cs \in Seq(CodeType) /\ DOMAIN cs = {1} /\ cs[1] = x
  BY <1>1
<1>3. \A i \in DOMAIN cs : IsCopy(cs[i]) /\ cs[i].at = s[p].at
  BY <1>2
<1>4. \A i, j \in DOMAIN cs : i < j => \A f \in cs[i].writes, g \in cs[j].writes : f < g
  BY <1>2
<1>5. \A y \in Range(s) : IsCopy(y) /\ y.at = s[p].at =>
        \A i \in DOMAIN cs : \A f \in y.writes, g \in cs[i].writes : f < g
  BY <1>2
<1>6. Sorted(Spliced(s, cs, p))
  BY <1>2, <1>3, <1>4, <1>5, SortedSplice
<1>7. QED BY <1>1, <1>6

LEMMA SpillCuts ==
  ASSUME ScanInv, CodeInv, Shaped, Neat, 0 \in Tiers, NEW v \in Ids, NEW i \in Nat, NEW a \in IntervalType,
         NEW c \in IntervalType, NEW x \in IntervalType, NEW next \in Int, NEW uses \in SUBSET Nat, NEW n \in Nat,
         Makes(0, v, i, a, c, x, next, uses, n), Splits(a, c, x, next, uses, n), Makings(a, next, uses, n)
  PROVE  CodeCut(a, c, next, uses, n) /\ Sorted(code)'
<1>1. /\ c.mem \in Bufs(prog) /\ c.start \in Int /\ c \in Pieces(0) /\ uses \subseteq ExecTimes
      /\ Comes(a, next, uses) => next \in ExecTimes /\ Min(uses) = next
      /\ a.mem \in 1 .. n /\ n = Len(memrefs) /\ DOMAIN memrefs = 1 .. n
  BY DEF Splits, Makings
<1>2. PICK d, p : /\ Writes(d, n, a, next, uses, p) /\ Defines(code[p], c.mem)
                  /\ Comes(a, next, uses) => \E e, q : WritesBack(d, e, n, a, uses, q)
  BY SpillCode
<1>3. /\ p \in 1 .. Len(code) /\ code \in Seq(CodeType) /\ d \in Seq(CodeType)
      /\ Copy(code[p].at, a.mem, n + 1) \in CodeType
      /\ d = Spliced(code, <<Copy(code[p].at, a.mem, n + 1)>>, p)
      /\ Range(d) = Range(code) \cup {Copy(code[p].at, a.mem, n + 1)}
      /\ ~ Comes(a, next, uses) => code' = d
  BY <1>2 DEF Writes, Inserts
<1>4. code[p] \in Range(code) /\ c.mem \in DOMAIN memrefs
  <2>1. Bufs(prog) = 1 .. Len(prog.size) /\ Len(prog.size) <= n /\ Len(prog.size) \in Nat
    BY FunctionTyped DEF ScanInv, Makings
  <2>2. QED BY <1>1, <1>3, <2>1, InRange
<1>5. ~ IsCopy(code[p])
  <2>1. IsCopy(code[p]) => CopyOk(code[p], memrefs)
    BY <1>4 DEF Shaped, Shapes
  <2>2. QED BY <1>1, <1>2, <2>1 DEF CopyOk, Defines
<1>6. code[p].at = c.start
  BY <1>1, <1>2, <1>4 DEF Neat, NeatCode, DefsDated
<1>7. PICK y \in CodeType : y = Copy(c.start, a.mem, n + 1)
  BY <1>3, <1>6
<1>8. y.time = 0 /\ IsCopy(y) /\ y.writes = {n + 1} /\ y.at = c.start
  BY <1>7 DEF Copy, IsCopy
<1>9. /\ d = Spliced(code, <<y>>, p) /\ Range(d) = Range(code) \cup {y}
  BY <1>3, <1>6, <1>7
<1>10. \A o \in Range(code) : \A f \in o.writes : f \in 1 .. n
  BY <1>1 DEF CodeInv, CodeOk, Touched
<1>11. Sorted(d)
  <2>1. \A o \in Range(code) : IsCopy(o) => \A f \in o.writes, g \in y.writes : f < g
    BY <1>8, <1>10
  <2>2. Sorted(code)
    BY DEF Neat, NeatCode
  <2>3. Sorted(Spliced(code, <<y>>, p))
    BY <1>3, <1>5, <1>6, <1>8, <2>1, <2>2, OneSpliced
  <2>4. QED BY <1>9, <2>3
<1>12. CASE ~ Comes(a, next, uses)
  <2>1. code' = d
    BY <1>3, <1>12
  <2>2. \A o : Renames(o, o, {}, a.mem, n + 2)
    BY DEF Renames
  <2>3. CodeCut(a, c, next, uses, n)
    BY <1>7, <1>9, <1>12, <2>1, <2>2 DEF CodeCut
  <2>4. Sorted(code)'
    BY <1>11, <2>1 DEF Sorted, Before, IsCopy
  <2>5. QED BY <2>3, <2>4
<1>13. CASE Comes(a, next, uses)
  <2>1. PICK e, q : WritesBack(d, e, n, a, uses, q)
    BY <1>2, <1>13
  <2>2. /\ q \in 1 .. Len(d) /\ e \in Seq(CodeType) /\ d[q].time = Min(uses)
        /\ Copy(d[q].at, n + 1, n + 2) \in CodeType
        /\ e = Spliced(d, <<Copy(d[q].at, n + 1, n + 2)>>, q)
        /\ Range(e) = Range(d) \cup {Copy(d[q].at, n + 1, n + 2)}
        /\ code' = Replaced(e, uses, a.mem, n + 2)
    BY <2>1 DEF WritesBack, Inserts
  <2>3. 0 \notin ExecTimes
    BY FunctionTyped DEF ScanInv, ExecTimes
  <2>4. d[q].time = next /\ d[q].time # 0
    BY <1>1, <1>13, <2>2, <2>3
  <2>5. d[q] \in Range(code)
    <3>1. d[q] \in Range(d)
      BY <1>3, <2>2, InRange
    <3>2. QED BY <1>8, <1>9, <2>4, <3>1
  <2>6. ~ IsCopy(d[q]) /\ d[q].at = next
    <3>1. IF IsCopy(d[q]) THEN CopyOk(d[q], memrefs) ELSE OperationOk(d[q], memrefs)
      BY <2>5 DEF Shaped, Shapes
    <3>2. QED BY <2>4, <3>1 DEF CopyOk, OperationOk
  <2>7. PICK z \in CodeType : z = Copy(next, n + 1, n + 2)
    BY <2>2, <2>6
  <2>8. z.time = 0 /\ IsCopy(z) /\ z.writes = {n + 2} /\ z.at = next
    BY <2>7 DEF Copy, IsCopy
  <2>9. e = Spliced(d, <<z>>, q) /\ Range(e) = Range(d) \cup {z}
    BY <2>2, <2>6, <2>7
  <2>10. Sorted(e)
    <3>1. \A o \in Range(d) : IsCopy(o) => \A f \in o.writes, g \in z.writes : f < g
      <4>1. \A o \in Range(d) : \A f \in o.writes : f \in 1 .. n + 1
        BY <1>8, <1>9, <1>10
      <4>2. QED BY <2>8, <4>1
    <3>2. d \in Seq(CodeType) /\ Sorted(d) /\ q \in DOMAIN d /\ z \in CodeType
      BY <1>3, <1>11, <2>2, <2>7
    <3>3. IsCopy(z) /\ ~ IsCopy(d[q]) /\ z.at = d[q].at
      BY <2>6, <2>8
    <3>4. Sorted(Spliced(d, <<z>>, q))
      BY ONLY <3>1, <3>2, <3>3, OneSpliced
    <3>5. QED BY <2>9, <3>4
  <2>11. \A o \in Range(e) : IsCopy(o) => o.time \notin uses
    <3>1. ASSUME NEW o \in Range(code), IsCopy(o) PROVE o.time = 0
      BY <3>1 DEF Shaped, Shapes, CopyOk
    <3>2. QED BY <1>1, <1>8, <1>9, <2>3, <2>8, <2>9, <3>1
  <2>12. Sorted(Replaced(e, uses, a.mem, n + 2))
    BY <2>2, <2>10, <2>11, SortedReplaced
  <2>13. Sorted(code)'
    <3>1. PICK r : r = Replaced(e, uses, a.mem, n + 2)
      OBVIOUS
    <3>2. code' = r /\ Sorted(r)
      BY <2>2, <2>12, <3>1
    <3>3. QED BY <3>2 DEF Sorted, Before, IsCopy
  <2>14. PICK N : N = {y, z}
    OBVIOUS
  <2>15. Grown(code, Replaced(e, uses, a.mem, n + 2), N, uses, a.mem, n + 2)
    <3>1. Range(e) \subseteq Range(code) \cup N
      BY <1>9, <2>9, <2>14
    <3>2. \A op \in N : op.time \notin uses
      BY <1>1, <1>8, <2>3, <2>8, <2>14
    <3>3. QED BY <2>2, <3>1, <3>2, GrownReplaced
  <2>16. Grown(code, code', N, uses, a.mem, n + 2)
    BY <2>2, <2>15
  <2>17. CodeCut(a, c, next, uses, n)
    BY <1>7, <1>13, <2>7, <2>14, <2>16 DEF CodeCut, Grown
  <2>18. QED BY <2>13, <2>17
<1>14. QED BY <1>12, <1>13

(* What is not a new copy stems from an operation of the code before, and   *)
(* is that or works on the reload in place of something else.               *)
Stems(o, op, uses, new) ==
  /\ o.kind = op.kind /\ o.at = op.at /\ o.time = op.time
  /\ op.kind # "exec" => o = op
  /\ \A m \in Touched(o) : m \in Touched(op) \/ (m = new /\ op.time \in uses)

LEMMA CutStems ==
  ASSUME ScanInv, CodeInv, Shaped, NEW a, NEW c, NEW next, NEW uses, NEW n, uses \subseteq ExecTimes,
         CodeCut(a, c, next, uses, n), NEW o \in Range(code'),
         o # Copy(c.start, a.mem, n + 1), ~ (Comes(a, next, uses) /\ o = Copy(next, n + 1, n + 2))
  PROVE  \E op \in Range(code) : Stems(o, op, IF Comes(a, next, uses) THEN uses ELSE {}, n + 2)
<1>a. PICK T : T = IF Comes(a, next, uses) THEN uses ELSE {}
  OBVIOUS
<1>b. T \subseteq ExecTimes
  BY <1>a
<1>1. T = (IF Comes(a, next, uses) THEN uses ELSE {}) /\ T \subseteq ExecTimes
  BY <1>a, <1>b
<1>2. PICK op \in Range(code) : Renames(o, op, T, a.mem, n + 2)
  BY <1>1 DEF CodeCut
<1>3. op.kind # "exec" => op.time \notin T
  <2>1. CASE IsCopy(op)
    <3>1. op.time = 0
      BY <2>1 DEF Shaped, Shapes, CopyOk
    <3>2. 0 \notin ExecTimes
      BY FunctionTyped DEF ScanInv, ExecTimes
    <3>3. QED BY <1>1, <3>1, <3>2
  <2>2. CASE ~ IsCopy(op)
    <3>1. op.kind = prog.ops[op.time].kind
      BY <2>2 DEF Shaped, Shapes, OperationOk
    <3>2. QED BY <1>1, <3>1 DEF ExecTimes
  <2>3. QED BY <2>1, <2>2
<1>4. ASSUME NEW m \in Touched(o) PROVE m \in Touched(op) \/ (m = n + 2 /\ op.time \in T)
  BY <1>2, <1>4 DEF Renames, Renamed, Touched
<1>5. Stems(o, op, T, n + 2)
  BY <1>2, <1>3, <1>4 DEF Renames, Stems
<1>6. QED BY <1>1, <1>5

LEMMA SplitCopies ==
  ASSUME ScanInv, CodeInv, Shaped, Neat, prog' = prog, taken' = taken, NEW a \in IntervalType, NEW c, NEW x,
         NEW next, NEW uses, NEW n \in Nat, Splits(a, c, x, next, uses, n), Makings(a, next, uses, n),
         PiecesCut(a, c, next, uses, n), PlacesCut(a, c), CodeCut(a, c, next, uses, n)
  PROVE  CopiesFit'
<1>1. /\ 0 \in Tiers /\ 1 \in Tiers /\ a \in Pieces(0) /\ a.mem # NoMem /\ a.id.buf \in Bufs(prog)
      /\ HomeOf(prog, a.id.buf) = 0 /\ uses \subseteq ExecTimes
      /\ a.start \in Int /\ c.start \in Int /\ a.end \in Int /\ next \in Int
      /\ a.start < c.start /\ c.start < a.end /\ c.start <= next /\ c.start = Now /\ c.start \notin ExecTimes
      /\ Comes(a, next, uses) => next \in ExecTimes /\ c.start < next
  BY DEF Splits
<1>2. Tiers' = Tiers /\ ExecTimes' = ExecTimes /\ Now' = Now
  BY DEF Tiers, ExecTimes, Now
<1>3. /\ n = Len(memrefs) /\ a.mem \in 1 .. n /\ DOMAIN memrefs = 1 .. n
      /\ \A m \in 1 .. n : memrefs'[m] = memrefs[m]
      /\ memrefs'[n + 1] = Unplaced(a.id.buf)
      /\ Comes(a, next, uses) => memrefs'[n + 2] = Unplaced(a.id.buf)
  BY DEF Makings
<1>4. \A j \in Tiers : \A y \in Pieces(j)' :
        \/ y \in Pieces(j) /\ y.mem # a.mem /\ y.mem \in 0 .. n
        \/ j = 0 /\ CutOf(y, a, c)
        \/ j = 0 /\ Comes(a, next, uses) /\ BackOf(y, a, next, n)
        \/ j = 1 /\ OutOf(y, a, c, next, n)
  BY DEF PiecesCut
<1>5. DefTime(prog, a.id.buf) < c.start
  <2>1. a.start >= DefTime(prog, a.id.buf)
    BY <1>1 DEF Neat, NeatPlaces, Born
  <2>2. PICK d \in Nat : d = DefTime(prog, a.id.buf)
    BY <1>1, DefinedFirst, FunctionTyped DEF ScanInv
  <2>3. QED BY <1>1, <2>1, <2>2
<1>6. ASSUME NEW x1 \in Range(code'), IsCopy(x1), NEW f \in x1.reads, NEW g \in x1.writes,
             x1 = Copy(c.start, a.mem, n + 1)
      PROVE  CopyFits(x1, f, g)'
  <2>1. x1.at = c.start /\ f = a.mem /\ g = n + 1
    BY <1>6 DEF Copy
  <2>2. memrefs'[g].buf = a.id.buf
    BY <1>3, <2>1 DEF Unplaced
  <2>3. ASSUME NEW k \in Tiers, NEW y \in Pieces(k)'
        PROVE  (y.mem = f => k = 0 /\ y.end = x1.at) /\ (y.mem = g => k = 1)
    BY <1>3, <1>4, <2>1, <2>3 DEF CutOf, BackOf, OutOf
  <2>4. \E y \in Range(placed'[0]) : y.mem = f
    BY <2>1 DEF PlacesCut, CutOf
  <2>5. x1.at \notin ExecTimes /\ x1.at <= Now
    BY <1>1, <2>1
  <2>6. OutFits(x1, f, g)'
    BY <1>2, <2>3, <2>4, <2>5 DEF OutFits
  <2>7. HomeOf(prog, memrefs'[g].buf) = 0 /\ DefTime(prog, memrefs'[g].buf) < x1.at
    BY <1>1, <1>5, <2>1, <2>2
  <2>8. QED BY <2>6, <2>7 DEF CopyFits
<1>7. ASSUME NEW x1 \in Range(code'), IsCopy(x1), NEW f \in x1.reads, NEW g \in x1.writes,
             Comes(a, next, uses), x1 = Copy(next, n + 1, n + 2)
      PROVE  CopyFits(x1, f, g)'
  <2>1. x1.at = next /\ f = n + 1 /\ g = n + 2
    BY <1>7 DEF Copy
  <2>2. memrefs'[g].buf = a.id.buf
    BY <1>3, <1>7, <2>1 DEF Unplaced
  <2>3. ASSUME NEW k \in Tiers, NEW y \in Pieces(k)'
        PROVE  (y.mem = f => k = 1 /\ y.end = x1.at) /\ (y.mem = g => k = 0)
    BY <1>3, <1>4, <2>1, <2>3 DEF CutOf, BackOf, OutOf
  <2>4. \E y \in Pieces(1)' : y.mem = f /\ y.start < y.end
    BY <1>1, <1>7, <2>1 DEF PiecesCut, OutOf
  <2>5. x1.at \in ExecTimes
    BY <1>1, <1>7, <2>1
  <2>6. BackFits(x1, f, g)'
    BY <1>1, <1>2, <2>3, <2>4, <2>5 DEF BackFits
  <2>7. DefTime(prog, a.id.buf) < next
    <3>1. PICK d \in Nat : d = DefTime(prog, a.id.buf)
      BY <1>1, DefinedFirst, FunctionTyped DEF ScanInv
    <3>2. QED BY <1>1, <1>5, <1>7, <3>1
  <2>8. HomeOf(prog, memrefs'[g].buf) = 0 /\ DefTime(prog, memrefs'[g].buf) < x1.at
    BY <1>1, <2>1, <2>2, <2>7
  <2>9. QED BY <2>6, <2>8 DEF CopyFits
<1>8. ASSUME NEW m \in 1 .. n, NEW t, StageAt(m, t) PROVE StageAt(m, t)'
  <2>1. memrefs'[m] = memrefs[m]
    BY <1>3
  <2>2. PICK l \in Tiers : l = memrefs[m].tier /\ l = memrefs'[m].tier
    BY <1>8, <2>1 DEF StageAt
  <2>3. PICK y \in Range(placed[l]) :
           /\ y.id = [buf |-> memrefs[m].buf, stage |-> memrefs[m].tier, use |-> t]
           /\ y.start = t /\ y.end = t + 1 /\ y.offset = memrefs[m].offset /\ y.mem = NoMem
    BY <1>8, <2>2 DEF StageAt
  <2>4. y \in Range(placed'[l])
    BY <1>1, <2>3 DEF PlacesCut
  <2>5. QED BY <1>2, <1>8, <2>1, <2>2, <2>3, <2>4 DEF StageAt
<1>9. ASSUME NEW x1 \in Range(code), IsCopy(x1), NEW f \in x1.reads, NEW g \in x1.writes
      PROVE  CopyFits(x1, f, g)'
  <2>1. x1.at \in Int /\ f \in 1 .. n /\ g \in 1 .. n
    <3>1. CopyOk(x1, memrefs)
      BY <1>9 DEF Shaped, Shapes
    <3>2. QED BY <1>3, <1>9, <3>1, FunctionTyped DEF CopyOk, ScanInv
  <2>2. CopyFits(x1, f, g)
    BY <1>9 DEF Neat, NeatCode, CopiesFit
  <2>3. memrefs'[g] = memrefs[g]
    BY <1>3, <2>1
  <2>4. ASSUME OutFits(x1, f, g) PROVE OutFits(x1, f, g)'
    <3>1. x1.at \notin ExecTimes /\ x1.at <= Now
      BY <2>4 DEF OutFits
    <3>2. a.mem # f
      <4>1. a.mem = f => a.end = x1.at
        BY <1>1, <2>4 DEF OutFits
      <4>2. QED BY <1>1, <2>1, <3>1, <4>1
    <3>3. a.mem # g
      BY <1>1, <2>4 DEF OutFits
    <3>4. ASSUME NEW k \in Tiers, NEW y \in Pieces(k)'
          PROVE  (y.mem = f => k = 0 /\ y.end = x1.at) /\ (y.mem = g => k = 1)
      <4>1. CASE y \in Pieces(k)
        BY <2>4, <4>1 DEF OutFits
      <4>2. CASE y \notin Pieces(k)
        BY <1>4, <2>1, <3>2, <3>3, <4>2 DEF CutOf, BackOf, OutOf
      <4>3. QED BY <4>1, <4>2
    <3>5. \E y \in Range(placed'[0]) : y.mem = f
      BY <1>1, <2>4, <3>2 DEF OutFits, PlacesCut
    <3>6. QED BY <1>2, <3>1, <3>4, <3>5 DEF OutFits
  <2>5. ASSUME BackFits(x1, f, g) PROVE BackFits(x1, f, g)'
    <3>1. x1.at \in ExecTimes
      BY <2>5 DEF BackFits
    <3>2. a.mem # f
      BY <1>1, <2>5 DEF BackFits
    <3>3. ASSUME NEW k \in Tiers, NEW y \in Pieces(k)'
          PROVE  (y.mem = f => k = 1 /\ y.end = x1.at) /\ (y.mem = g => k = 0)
      <4>1. CASE y \in Pieces(k)
        BY <2>5, <4>1 DEF BackFits
      <4>2. CASE y \notin Pieces(k)
        BY <1>4, <2>1, <3>2, <4>2 DEF CutOf, BackOf, OutOf
      <4>3. QED BY <4>1, <4>2
    <3>4. \E y \in Pieces(1)' : y.mem = f /\ y.start < y.end
      BY <1>1, <2>5, <3>2 DEF BackFits, PiecesCut
    <3>5. QED BY <1>1, <1>2, <3>1, <3>3, <3>4 DEF BackFits
  <2>6. ASSUME StageFits(x1, f, g) PROVE StageFits(x1, f, g)'
    BY <1>8, <2>1, <2>3, <2>6 DEF StageFits
  <2>7. QED BY <2>2, <2>3, <2>4, <2>5, <2>6 DEF CopyFits
<1>10. ASSUME NEW x1 \in Range(code'), IsCopy(x1), NEW f \in x1.reads, NEW g \in x1.writes
       PROVE  CopyFits(x1, f, g)'
  <2>1. CASE x1 = Copy(c.start, a.mem, n + 1)
    BY <1>6, <1>10, <2>1
  <2>2. CASE Comes(a, next, uses) /\ x1 = Copy(next, n + 1, n + 2)
    BY <1>7, <1>10, <2>2
  <2>3. CASE x1 # Copy(c.start, a.mem, n + 1) /\ ~ (Comes(a, next, uses) /\ x1 = Copy(next, n + 1, n + 2))
    <3>1. PICK op \in Range(code) : Stems(x1, op, IF Comes(a, next, uses) THEN uses ELSE {}, n + 2)
      BY <1>1, <2>3, CutStems
    <3>2. x1 = op
      BY <1>10, <3>1 DEF Stems, IsCopy
    <3>3. QED BY <1>9, <1>10, <3>2
  <2>4. QED BY <2>1, <2>2, <2>3
<1>11. QED BY <1>10 DEF CopiesFit

LEMMA SplitStages ==
  ASSUME ScanInv, CodeInv, Shaped, Neat, prog' = prog, plan' = plan, NEW a, NEW c, NEW x,
         NEW next, NEW uses, NEW n \in Nat, Splits(a, c, x, next, uses, n), Makings(a, next, uses, n),
         PlacesCut(a, c), CodeCut(a, c, next, uses, n)
  PROVE  StagesUsed'
<1>1. /\ a.mem # NoMem /\ HomeOf(prog, a.id.buf) = 0 /\ uses \subseteq ExecTimes
  BY DEF Splits
<1>2. Tiers' = Tiers
  BY DEF Tiers
<1>3. /\ n = Len(memrefs) /\ \A m \in 1 .. n : memrefs'[m] = memrefs[m]
      /\ Comes(a, next, uses) => memrefs'[n + 2] = Unplaced(a.id.buf)
  BY DEF Makings
<1>4. ASSUME NEW o \in Range(code'), o.kind = "exec", NEW m \in Touched(o), HomeOf(prog, memrefs'[m].buf) > 0
      PROVE  ToStage(o, m)' \/ StageAt(m, o.time)'
  <2>1. o # Copy(c.start, a.mem, n + 1) /\ o # Copy(next, n + 1, n + 2)
    BY <1>4 DEF Copy
  <2>2. PICK op \in Range(code) : Stems(o, op, IF Comes(a, next, uses) THEN uses ELSE {}, n + 2)
    BY <1>1, <2>1, CutStems
  <2>3. op.kind = "exec" /\ o.time = op.time /\ (m \in Touched(op) \/ (m = n + 2 /\ Comes(a, next, uses)))
    BY <1>4, <2>2 DEF Stems
  <2>4. m \in Touched(op)
    <3>1. memrefs'[n + 2] = Unplaced(a.id.buf) => memrefs'[n + 2].buf = a.id.buf
      BY DEF Unplaced
    <3>2. m = n + 2 /\ Comes(a, next, uses) => memrefs'[m].buf = a.id.buf
      BY <1>3, <3>1
    <3>3. QED BY <1>1, <1>4, <2>3, <3>2
  <2>5. m \in 1 .. n /\ op \in Execs(code)
    BY <1>3, <2>3, <2>4, TouchedTyped DEF Execs
  <2>6. ToStage(op, m) \/ StageAt(m, op.time)
    BY <1>3, <1>4, <2>4, <2>5 DEF Neat, NeatCode, StagesUsed
  <2>7. ASSUME StageAt(m, op.time) PROVE StageAt(m, op.time)'
    <3>1. memrefs'[m] = memrefs[m]
      BY <1>3, <2>5
    <3>2. PICK l \in Tiers : l = memrefs[m].tier /\ l = memrefs'[m].tier
      BY <2>7, <3>1 DEF StageAt
    <3>3. PICK y \in Range(placed[l]) :
             /\ y.id = [buf |-> memrefs[m].buf, stage |-> memrefs[m].tier, use |-> op.time]
             /\ y.start = op.time /\ y.end = op.time + 1 /\ y.offset = memrefs[m].offset /\ y.mem = NoMem
      BY <2>7, <3>2 DEF StageAt
    <3>4. y \in Range(placed'[l])
      BY <1>1, <3>3 DEF PlacesCut
    <3>5. QED BY <1>2, <2>7, <3>1, <3>2, <3>3, <3>4 DEF StageAt
  <2>8. QED BY <2>3, <2>6, <2>7 DEF ToStage
<1>5. QED BY <1>4 DEF StagesUsed, Execs

LEMMA SplitDefs ==
  ASSUME ScanInv, CodeInv, Shaped, Neat, prog' = prog, NEW a \in IntervalType, NEW c, NEW x,
         NEW next, NEW uses, NEW n \in Nat, Splits(a, c, x, next, uses, n), Makings(a, next, uses, n),
         PiecesCut(a, c, next, uses, n), CodeCut(a, c, next, uses, n)
  PROVE  DefsDated' /\ DefsFirst'
<1> DEFINE Out == Copy(c.start, a.mem, n + 1)
           Back == Copy(next, n + 1, n + 2)
           Old(o) == o # Out /\ ~ (Comes(a, next, uses) /\ o = Back)
<1>1. /\ 0 \in Tiers /\ a \in Pieces(0) /\ a.mem # NoMem /\ a.id.buf \in Bufs(prog) /\ memrefs[a.mem].buf = a.id.buf
      /\ HomeOf(prog, a.id.buf) = 0 /\ uses \subseteq ExecTimes /\ \A u \in uses : next <= u
      /\ a.start \in Int /\ c.start \in Int /\ next \in Int /\ a.start < c.start
      /\ Comes(a, next, uses) => c.start < next
  BY DEF Splits
<1>2. Tiers' = Tiers /\ Bufs(prog') = Bufs(prog)
  BY DEF Tiers
<1>3. /\ n = Len(memrefs) /\ a.mem \in 1 .. n /\ DOMAIN memrefs = 1 .. n
      /\ DOMAIN memrefs' = 1 .. n + (IF Comes(a, next, uses) THEN 2 ELSE 1)
      /\ \A m \in 1 .. n : memrefs'[m] = memrefs[m]
      /\ memrefs'[n + 1].buf = a.id.buf
      /\ Comes(a, next, uses) => memrefs'[n + 2].buf = a.id.buf
  BY DEF Makings, Unplaced
<1>4. \A j \in Tiers : \A y \in Pieces(j)' :
        \/ y \in Pieces(j) /\ y.mem # a.mem /\ y.mem \in 0 .. n
        \/ j = 0 /\ CutOf(y, a, c)
        \/ j = 0 /\ Comes(a, next, uses) /\ BackOf(y, a, next, n)
        \/ j = 1 /\ OutOf(y, a, c, next, n)
  BY DEF PiecesCut
<1>5. /\ IsCopy(Out) /\ Out.at = c.start /\ Out.reads = {a.mem} /\ Out.writes = {n + 1}
      /\ Touched(Out) = {a.mem, n + 1}
      /\ IsCopy(Back) /\ Back.at = next /\ Back.reads = {n + 1} /\ Back.writes = {n + 2}
  BY DEF Copy, IsCopy, Touched
<1>6. ASSUME NEW o \in Range(code'), Old(o)
      PROVE  \E op \in Range(code) :
               /\ Stems(o, op, IF Comes(a, next, uses) THEN uses ELSE {}, n + 2)
               /\ \A m \in Touched(op) : m \in 1 .. n
  <2>1. PICK op \in Range(code) : Stems(o, op, IF Comes(a, next, uses) THEN uses ELSE {}, n + 2)
    BY <1>1, <1>6, CutStems
  <2>2. \A m \in Touched(op) : m \in 1 .. n
    BY <1>3, TouchedTyped
  <2>3. QED BY <2>1, <2>2
<1>7. ASSUME NEW o \in Range(code'), Old(o), NEW m, Defines(o, m)
      PROVE  o \in Range(code) /\ m \in 1 .. n
  <2>1. PICK op \in Range(code) :
               /\ Stems(o, op, IF Comes(a, next, uses) THEN uses ELSE {}, n + 2)
               /\ \A l \in Touched(op) : l \in 1 .. n
    BY <1>6, <1>7
  <2>2. o = op /\ m \in Touched(op)
    BY <1>7, <2>1 DEF Stems, Defines, Touched
  <2>3. QED BY <2>1, <2>2
<1>8. ASSUME NEW o \in Range(code), NEW m \in 1 .. n, Defines(o, m), NEW k \in Tiers, NEW y \in Pieces(k), y.mem = m
      PROVE  o.at = y.start
  BY <1>3, <1>8 DEF Neat, NeatCode, DefsDated
<1>9. DefsDated'
  <2>1. SUFFICES ASSUME NEW o \in Range(code'), NEW m \in DOMAIN memrefs', Defines(o, m), NEW k \in Tiers,
                        NEW y \in Pieces(k)', y.mem = m
                 PROVE  o.at = y.start
    BY <1>2 DEF DefsDated
  <2>2. CASE o = Out
    <3>1. m = n + 1
      BY <1>5, <2>1, <2>2 DEF Defines
    <3>2. OutOf(y, a, c, next, n)
      BY <1>3, <1>4, <2>1, <3>1 DEF CutOf, BackOf
    <3>3. QED BY <1>5, <2>2, <3>2 DEF OutOf
  <2>3. CASE Comes(a, next, uses) /\ o = Back
    <3>1. m = n + 2
      BY <1>5, <2>1, <2>3 DEF Defines
    <3>2. BackOf(y, a, next, n)
      BY <1>3, <1>4, <2>1, <3>1 DEF CutOf, OutOf
    <3>3. QED BY <1>5, <2>3, <3>2 DEF BackOf
  <2>4. CASE Old(o)
    <3>1. o \in Range(code) /\ m \in 1 .. n
      BY <1>7, <2>1, <2>4
    <3>2. CASE y \in Pieces(k)
      BY <1>8, <2>1, <3>1, <3>2
    <3>3. CASE y \notin Pieces(k)
      <4>1. CutOf(y, a, c)
        BY <1>4, <2>1, <3>1, <3>3 DEF BackOf, OutOf
      <4>2. a.mem = m /\ y.start = a.start
        BY <2>1, <4>1 DEF CutOf
      <4>3. QED BY <1>1, <1>8, <2>1, <3>1, <4>2
    <3>4. QED BY <3>2, <3>3
  <2>5. QED BY <2>2, <2>3, <2>4
<1>10. ASSUME NEW o \in Range(code'), NEW m, Needs(o, m)
       PROVE  \/ o = Out /\ m = a.mem
              \/ Comes(a, next, uses) /\ o = Back /\ m = n + 1
              \/ Comes(a, next, uses) /\ m = n + 2 /\ ~ IsCopy(o) /\ next <= o.at
              \/ m \in 1 .. n /\ \E op \in Range(code) : /\ Needs(op, m) /\ o.at = op.at
                                                        /\ (IsCopy(o) <=> IsCopy(op)) /\ (IsCopy(o) => o = op)
  <2>1. CASE o = Out
    BY <1>5, <1>10, <2>1 DEF Needs
  <2>2. CASE Comes(a, next, uses) /\ o = Back
    BY <1>5, <1>10, <2>2 DEF Needs
  <2>3. CASE Old(o)
    <3>1. PICK op \in Range(code) :
               /\ Stems(o, op, IF Comes(a, next, uses) THEN uses ELSE {}, n + 2)
               /\ \A l \in Touched(op) : l \in 1 .. n
      BY <1>6, <2>3
    <3>2. m \in Touched(o)
      BY <1>10 DEF Needs, Touched
    <3>3. CASE m \in Touched(op) /\ ~ IsCopy(o)
      <4>1. op.kind = "exec" /\ op.kind = o.kind /\ o.at = op.at
        BY <1>10, <3>1, <3>3 DEF Needs, Stems
      <4>2. Needs(op, m)
        BY <3>3, <4>1 DEF Needs, IsCopy
      <4>3. QED BY <3>1, <3>3, <4>1, <4>2 DEF IsCopy
    <3>4. CASE IsCopy(o)
      <4>1. o = op
        BY <3>1, <3>4 DEF Stems, IsCopy
      <4>2. QED BY <1>10, <3>1, <3>2, <4>1
    <3>5. CASE m \notin Touched(op) /\ ~ IsCopy(o)
      <4>1. Comes(a, next, uses) /\ m = n + 2 /\ op.time \in uses
        BY <3>1, <3>2, <3>5 DEF Stems
      <4>2. ~ IsCopy(op) /\ o.at = op.at
        BY <3>1, <3>5 DEF Stems, IsCopy
      <4>3. op.at = op.time
        BY <4>2 DEF Shaped, Shapes, OperationOk
      <4>4. QED BY <1>1, <3>5, <4>1, <4>2, <4>3
    <3>6. QED BY <3>3, <3>4, <3>5
  <2>4. QED BY <2>1, <2>2, <2>3
<1>11. DefsFirst'
  <2>1. SUFFICES ASSUME NEW o \in Range(code'), NEW y \in Range(code'), NEW m \in DOMAIN memrefs',
                        Defines(o, m), Needs(y, m)
                 PROVE  /\ Before(o, y)
                        /\ m \notin Bufs(prog) /\ HomeOf(prog, memrefs'[m].buf) > 0 => o.at = y.at
    BY <1>2 DEF DefsFirst
  <2>2. CASE o = Out
    <3>1. m = n + 1
      BY <1>5, <2>1, <2>2 DEF Defines
    <3>2. Comes(a, next, uses) /\ y = Back
      BY <1>3, <1>10, <2>1, <3>1
    <3>3. QED BY <1>1, <1>3, <1>5, <2>2, <3>1, <3>2 DEF Before
  <2>3. CASE Comes(a, next, uses) /\ o = Back
    <3>1. m = n + 2
      BY <1>5, <2>1, <2>3 DEF Defines
    <3>2. ~ IsCopy(y) /\ next <= y.at
      BY <1>3, <1>10, <2>1, <3>1
    <3>3. y.at \in Int
      <4>1. PICK op : op \in Range(code) /\ y.at = op.at
        BY <1>3, <1>5, <1>6, <3>2 DEF Stems
      <4>2. op.at \in Times(prog)
        BY <4>1 DEF Shaped, Shapes, CopyOk, OperationOk
      <4>3. QED BY <4>1, <4>2, FunctionTyped DEF ScanInv
    <3>4. Before(o, y)
      BY <1>1, <1>5, <2>3, <3>2, <3>3 DEF Before
    <3>5. QED BY <1>1, <1>3, <2>3, <3>1, <3>4
  <2>4. CASE Old(o)
    <3>1. o \in Range(code) /\ m \in 1 .. n
      BY <1>7, <2>1, <2>4
    <3>2. memrefs'[m] = memrefs[m] /\ m \in DOMAIN memrefs
      BY <1>3, <3>1
    <3>3. CASE y = Out /\ m = a.mem
      <4>1. o.at = a.start
        BY <1>1, <1>8, <2>1, <3>1, <3>3
      <4>2. Before(o, y)
        BY <1>1, <1>5, <3>3, <4>1 DEF Before
      <4>3. QED BY <1>1, <3>2, <3>3, <4>2
    <3>4. CASE ~ (y = Out /\ m = a.mem)
      <4>1. PICK op \in Range(code) : /\ Needs(op, m) /\ y.at = op.at
                                      /\ (IsCopy(y) <=> IsCopy(op)) /\ (IsCopy(y) => y = op)
        BY <1>3, <1>10, <2>1, <3>1, <3>4
      <4>2. /\ Before(o, op)
            /\ m \notin Bufs(prog) /\ HomeOf(prog, memrefs[m].buf) > 0 => o.at = op.at
        BY <2>1, <3>1, <3>2, <4>1 DEF Neat, NeatCode, DefsFirst
      <4>3. Before(o, y)
        BY <4>1, <4>2 DEF Before
      <4>4. QED BY <3>2, <4>1, <4>2, <4>3
    <3>5. QED BY <3>3, <3>4
  <2>5. QED BY <2>2, <2>3, <2>4
<1>12. QED BY <1>9, <1>11

(* An orderly eviction leaves the scan and its code neat.                   *)
LEMMA NeatSpill ==
  ASSUME ScanInv, GuardInv, CodeInv, Homes, ZeroInv, Course, Sole, Labelled, Shaped, ScanInv', Orderly, Orderly',
         Neat, Spill
  PROVE  Neat'
<1>1. /\ prog' = prog /\ phase' = phase /\ phase = "alloc" /\ plan' = plan
      /\ handled' = handled /\ taken' = taken /\ stack # << >>
  BY SpillMakes
<1>2. PICK k \in Tiers, v \in Ids, i \in Nat, a \in IntervalType, c \in IntervalType, x \in IntervalType,
           next \in Int, uses \in SUBSET Nat, n \in Nat :
              /\ k = Tier /\ k \in Nat /\ k + 1 \in Tiers /\ k < Bottom
              /\ Makes(k, v, i, a, c, x, next, uses, n)
  BY SpillMakes
<1>3. k = 0 /\ Splits(a, c, x, next, uses, n)
  <2>1. FreshEvictionsOnly'
    BY DEF Orderly
  <2>2. QED BY <1>2, <2>1, SpillSplits
<1>4. /\ 0 \in Tiers /\ Tier = 0 /\ Makes(0, v, i, a, c, x, next, uses, n)
  BY <1>2, <1>3
<1>5. Makings(a, next, uses, n)
  BY <1>2, SpillMakings
<1>6. PiecesCut(a, c, next, uses, n) /\ PlacesCut(a, c)
  BY <1>1, <1>3, <1>4, SpillPieces
<1>7. CodeCut(a, c, next, uses, n) /\ Sorted(code)'
  BY <1>3, <1>4, <1>5, SpillCuts
<1>8. \A j \in Tiers : CurIn(stack', j) = CurIn(stack, j)
  <2>1. /\ CurIn(stack, 0) = {c} /\ CurIn(stack', 0) = {c} /\ SameCalls(stack, stack', 1) /\ Elsewhere({0, 1})
    BY <1>4 DEF Makes, Spills
  <2>2. QED BY <2>1 DEF SameCalls, Elsewhere
<1>9. PartsApart' /\ FreshOrBack' /\ Born' /\ Kept'
  BY <1>1, <1>3, <1>6, SplitPieces
<1>10. CurAlone' /\ Marked' /\ Located' /\ Lives' /\ StagesLate'
  BY <1>1, <1>3, <1>5, <1>6, <1>8, SplitPlaces
<1>11. CopiesFit'
  BY <1>1, <1>3, <1>5, <1>6, <1>7, SplitCopies
<1>12. StagesUsed'
  BY <1>1, <1>3, <1>5, <1>6, <1>7, SplitStages
<1>13. DefsDated' /\ DefsFirst'
  BY <1>1, <1>3, <1>5, <1>6, <1>7, SplitDefs
<1>14. QED BY <1>7, <1>9, <1>10, <1>11, <1>12, <1>13 DEF Neat, NeatPlaces, NeatCode

-----------------------------------------------------------------------------
(* After the scan all there is of the buffers is placed.                    *)
LEMMA AllPlacedThen ==
  ASSUME ScanInv, Course, Drained, phase \in {"emit", "run"}
  PROVE  stack = << >> /\ \A k \in Tiers : Pieces(k) = Range(placed[k]) /\ CurIn(stack, k) = {}
<1>1. stack = << >> /\ level < 0
  BY DEF Course
<1>2. \A k \in Tiers : k > level
  BY <1>1, TargetTyped DEF ScanInv
<1>3. \A k \in Tiers : unhandled[k] = << >>
  BY <1>1, <1>2 DEF Drained
<1>4. ASSUME NEW k \in Tiers PROVE Pieces(k) = Range(placed[k]) /\ CurIn(stack, k) = {}
  <2>1. CurIn(stack, k) = {} /\ ReloadIn(stack, k) = {}
    <3>1. PICK s : s = stack
      OBVIOUS
    <3>2. \A i \in DOMAIN s : s[i].tier # k
      BY <1>1, <3>1
    <3>3. CurIn(s, k) = {} /\ ReloadIn(s, k) = {}
      BY ONLY <3>2, NoCall
    <3>4. QED BY <3>1, <3>3
  <2>2. Range(unhandled[k]) = {}
    BY <1>3, InRange
  <2>3. QED BY <2>1, <2>2 DEF Pieces
<1>5. QED BY <1>1, <1>4

(* The stages of a chain: each has the place it was given.                  *)
StagesMade(b, t, h, n) ==
  /\ prog' = prog /\ placed' = placed /\ handled' = handled /\ taken' = taken /\ phase' = phase /\ phase = "emit"
  /\ \A k \in Tiers : Pieces(k)' = Pieces(k) /\ CurIn(stack', k) = {}
  /\ n = Len(memrefs) /\ b \in Bufs(prog) /\ b \in 1 .. n /\ Bufs(prog) \subseteq 1 .. n
  /\ h = HomeOf(prog, b) /\ h > 0 /\ t \in UsesOf(prog, b) /\ t \in ExecTimes /\ DefTime(prog, b) < t
  /\ DOMAIN memrefs = 1 .. n /\ DOMAIN memrefs' = 1 .. n + h
  /\ \A m \in 1 .. n : memrefs'[m] = memrefs[m]
  /\ \A m \in n + 1 .. n + h : memrefs'[m].buf = b /\ memrefs'[m].tier = n + h - m /\ StageAt(m, t)'

(* Where the stage of a use was placed. *)
LEMMA StagePlaced ==
  ASSUME ScanInv, Course, Drained, Seated, Orderly, Neat, phase \in {"emit", "run"}, NEW b \in Bufs(prog),
         NEW t \in UsesOf(prog, b), NEW k \in 0 .. HomeOf(prog, b) - 1
  PROVE  k \in Tiers /\ \E y \in Range(placed[k]) :
           /\ y.id = [buf |-> b, stage |-> k, use |-> t] /\ y.start = t /\ y.end = t + 1 /\ y.mem = NoMem
           /\ y.id \in DOMAIN memMap /\ memMap[y.id] = y.offset
<1>1. Bottom \in Nat /\ Tiers = 0 .. Bottom /\ HomeOf(prog, b) \in Nat
  BY TargetTyped, HomeTyped DEF ScanInv
<1>2. HomeOf(prog, b) <= Bottom
  BY <1>1 DEF Orderly, ResidentsAreConstants
<1>3. k \in Tiers /\ k < Bottom
  BY <1>1, <1>2
<1>4. PICK iv : iv = Stage(prog, b, t, k)
  OBVIOUS
<1>5. iv \in Intervals(prog)
  BY <1>4 DEF Intervals
<1>6. /\ iv.id = [buf |-> b, stage |-> k, use |-> t] /\ iv.start = t /\ iv.end = t + 1 /\ iv.mem = NoMem
      /\ iv.home = k
  BY <1>4 DEF Stage
<1>7. EntryTier(prog, iv) = k
  BY <1>1, <1>3, <1>6 DEF EntryTier, Bottom, Tiers
<1>8. PICK y \in Pieces(k) : SamePiece(y, iv)
  BY <1>5, <1>6, <1>7 DEF Neat, NeatPlaces, Kept
<1>9. y \in Range(placed[k])
  BY <1>3, <1>8, AllPlacedThen
<1>10. y.id = iv.id /\ y.start = t /\ y.end = t + 1 /\ y.mem = NoMem
  BY <1>6, <1>8 DEF SamePiece
<1>11. y.id \in DOMAIN memMap /\ memMap[y.id] = y.offset
  BY <1>3, <1>9, <1>10 DEF Seated
<1>12. QED BY <1>3, <1>6, <1>9, <1>10, <1>11

LEMMA ChainStages ==
  ASSUME ScanInv, Course, Drained, Seated, Orderly, Neat, EmitChain, NEW b \in Bufs(prog), NEW t \in ExecTimes,
         NEW h \in Nat, NEW n \in Nat, Chained(b, t, h, n)
  PROVE  StagesMade(b, t, h, n)
<1>1. /\ prog' = prog /\ placed' = placed /\ handled' = handled /\ taken' = taken /\ phase' = phase /\ phase = "emit"
      /\ stack' = stack /\ unhandled' = unhandled /\ plan' = plan \ {<<b, t>>} /\ <<b, t>> \in plan
  BY DEF EmitChain, tiersState, Chained
<1>2. \A k \in Tiers : Pieces(k)' = Pieces(k) /\ CurIn(stack', k) = {}
  <2>1. \A k \in Tiers : CurIn(stack, k) = {}
    BY <1>1, AllPlacedThen
  <2>2. \A k : Pieces(k)' = Pieces(k)
    BY <1>1 DEF Pieces
  <2>3. QED BY <1>1, <2>1, <2>2
<1>3. /\ h = HomeOf(prog, b) /\ h > 0 /\ n = Len(memrefs) /\ Len(prog.size) <= n
      /\ memrefs' = memrefs \o StageMemrefs(b, t) /\ Len(memrefs') = n + h
      /\ \A m \in 1 .. n : memrefs'[m] = memrefs[m]
  BY DEF Chained
<1>4. Bufs(prog) = 1 .. Len(prog.size) /\ Len(prog.size) \in Nat
  BY FunctionTyped DEF ScanInv
<1>5. b \in 1 .. n /\ Bufs(prog) \subseteq 1 .. n
  BY <1>3, <1>4
<1>6. t \in UsesOf(prog, b)
  BY <1>1 DEF ScanInv, Chains
<1>7. DefTime(prog, b) < t
  <2>1. PICK d \in Nat : /\ d = DefTime(prog, b) /\ d \in Times(prog) /\ prog.ops[d].kind \in {"alloc", "global"}
                         /\ \A s \in Times(prog) : b \in Touched(prog.ops[s]) => d <= s
    BY DefinedFirst, FunctionTyped DEF ScanInv
  <2>2. t \in Times(prog) /\ t \in Nat /\ prog.ops[t].kind = "exec" /\ b \in Touched(prog.ops[t])
    BY <1>6, FunctionTyped DEF ScanInv, UsesOf
  <2>3. d <= t /\ d # t
    BY <2>1, <2>2
  <2>4. QED BY <2>1, <2>2, <2>3
<1>8. PICK M \in Seq(MemrefType) : M = memrefs
  BY DEF ScanInv, MemrefsTyped
<1>9. PICK added \in Seq(MemrefType) : added = StageMemrefs(b, t) /\ Len(added) = h
  BY <1>3, StageMemrefsTyped
<1>10. DOMAIN memrefs = 1 .. n /\ DOMAIN memrefs' = 1 .. n + h /\ \A m \in n + 1 .. n + h : memrefs'[m] = added[m - n]
  <2>1. /\ DOMAIN M = 1 .. Len(M) /\ DOMAIN (M \o added) = 1 .. Len(M) + Len(added)
        /\ \A m \in 1 .. Len(M) + Len(added) :
             (M \o added)[m] = IF m <= Len(M) THEN M[m] ELSE added[m - Len(M)]
    BY ConcatProperties
  <2>2. \A m \in n + 1 .. n + h : m \in 1 .. n + h /\ ~ (m <= n)
    OBVIOUS
  <2>3. memrefs' = M \o added /\ n = Len(M)
    BY <1>3, <1>8, <1>9
  <2>4. QED BY <1>8, <1>9, <2>1, <2>2, <2>3
<1>11. ASSUME NEW m \in n + 1 .. n + h
       PROVE  memrefs'[m].buf = b /\ memrefs'[m].tier = n + h - m /\ StageAt(m, t)'
  <2>1. PICK i \in 1 .. h : i = m - n
    BY <1>11
  <2>2. PICK k \in 0 .. h - 1 : k = h - i /\ k = n + h - m
    BY <2>1
  <2>3. added[i] = [buf |-> b, tier |-> k, offset |-> IF Stage(prog, b, t, k).id \in DOMAIN memMap
                                                       THEN memMap[Stage(prog, b, t, k).id] ELSE 0]
    BY <1>3, <1>9, <2>1, <2>2 DEF StageMemrefs
  <2>4. PICK id : id = [buf |-> b, stage |-> k, use |-> t] /\ id = Stage(prog, b, t, k).id
    BY DEF Stage
  <2>a. k \in 0 .. HomeOf(prog, b) - 1 /\ phase \in {"emit", "run"}
    BY <1>1, <1>3, <2>2
  <2>6. k \in Tiers /\ \E y \in Range(placed[k]) :
           /\ y.id = [buf |-> b, stage |-> k, use |-> t] /\ y.start = t /\ y.end = t + 1 /\ y.mem = NoMem
           /\ y.id \in DOMAIN memMap /\ memMap[y.id] = y.offset
    BY <1>6, <2>a, StagePlaced
  <2>5. PICK y \in Range(placed[k]) : /\ y.id = id /\ y.start = t /\ y.end = t + 1 /\ y.mem = NoMem
                                      /\ y.id \in DOMAIN memMap /\ memMap[y.id] = y.offset
    BY <2>4, <2>6
  <2>7. memrefs'[m].buf = b /\ memrefs'[m].tier = k /\ memrefs'[m].offset = y.offset
    BY <1>10, <2>1, <2>3, <2>4, <2>5
  <2>8. m \notin Bufs(prog)
    <3>1. m > n /\ m \in Nat /\ n \in Nat
      BY <1>3, <2>1
    <3>2. \A g \in Bufs(prog) : g \in Nat /\ g <= n
      <4>1. Len(prog.size) <= n /\ n \in Nat /\ Len(prog.size) \in Nat
        BY <1>3, <1>4, <3>1
      <4>2. QED BY <1>4, <4>1
    <3>3. QED BY <3>1, <3>2
  <2>9. Tiers' = Tiers
    BY <1>1 DEF Tiers
  <2>10. k < HomeOf(prog, b)
    BY <1>3
  <2>11. /\ y \in Range(placed'[memrefs'[m].tier])
         /\ y.id = [buf |-> memrefs'[m].buf, stage |-> memrefs'[m].tier, use |-> t]
         /\ y.start = t /\ y.end = t + 1 /\ y.offset = memrefs'[m].offset /\ y.mem = NoMem
    BY <1>1, <2>4, <2>5, <2>7
  <2>12. StageAt(m, t)'
    BY <1>1, <2>6, <2>7, <2>8, <2>9, <2>10, <2>11 DEF StageAt
  <2>13. QED BY <2>2, <2>7, <2>12
<1>12. QED BY <1>1, <1>2, <1>3, <1>5, <1>6, <1>7, <1>10, <1>11 DEF StagesMade

(* The places stay neat, the scan being over.                               *)
LEMMA ChainPlaces ==
  ASSUME ScanInv, Neat, NEW b, NEW t, NEW h \in Nat, NEW n \in Nat, StagesMade(b, t, h, n)
  PROVE  NeatPlaces'
<1>1. /\ prog' = prog /\ placed' = placed /\ handled' = handled /\ taken' = taken /\ phase' = phase /\ phase = "emit"
      /\ \A k \in Tiers : Pieces(k)' = Pieces(k) /\ CurIn(stack', k) = {}
      /\ n = Len(memrefs) /\ Bufs(prog) \subseteq 1 .. n /\ h = HomeOf(prog, b) /\ h > 0
      /\ DOMAIN memrefs = 1 .. n /\ DOMAIN memrefs' = 1 .. n + h
      /\ \A m \in 1 .. n : memrefs'[m] = memrefs[m]
      /\ \A m \in n + 1 .. n + h : memrefs'[m].buf = b
  BY DEF StagesMade
<1>2. Tiers' = Tiers /\ ExecTimes' = ExecTimes
  BY <1>1 DEF Tiers, ExecTimes
<1>3. \A m \in DOMAIN memrefs' : m \in 1 .. n \/ (m \in n + 1 .. n + h /\ m \notin Bufs(prog))
  BY <1>1
<1>4. PartsApart'
  <2>1. SUFFICES ASSUME NEW k \in Tiers, NEW l \in Tiers, NEW y \in Pieces(k)', NEW z \in Pieces(l)',
                        y.id = z.id, y.mem # z.mem
                 PROVE  prog.guard = 0 /\ (y.end <= z.start \/ z.end <= y.start)
    BY <1>1, <1>2 DEF PartsApart
  <2>2. y \in Pieces(k) /\ z \in Pieces(l)
    BY <1>1, <2>1
  <2>3. QED BY <2>1, <2>2 DEF Neat, NeatPlaces, PartsApart
<1>5. CurAlone'
  BY <1>1, <1>2 DEF CurAlone
<1>6. Marked'
  <2>1. SUFFICES ASSUME NEW k \in Tiers, NEW y \in Range(placed[k]), y.mem # NoMem
                 PROVE  memrefs'[y.mem].tier = k /\ memrefs'[y.mem].offset = y.offset
    BY <1>1, <1>2 DEF Marked
  <2>2. y.mem \in 1 .. n
    <3>1. Sound(y) /\ y \in IntervalType
      BY PiecesTyped DEF Pieces
    <3>2. QED BY <1>1, <2>1, <3>1 DEF Sound, NoMem
  <2>3. QED BY <1>1, <2>1, <2>2 DEF Neat, NeatPlaces, Marked
<1>7. Located'
  <2>1. SUFFICES ASSUME NEW m \in DOMAIN memrefs', memrefs'[m].tier # -1
                 PROVE  \/ memrefs'[m].tier \in Tiers /\ \E y \in Range(placed[memrefs'[m].tier]) : y.mem = m
                        \/ HomeOf(prog, memrefs'[m].buf) > 0 /\ m \notin Bufs(prog)
    BY <1>1, <1>2 DEF Located
  <2>2. CASE m \in 1 .. n
    <3>1. memrefs'[m] = memrefs[m]
      BY <1>1, <2>2
    <3>2. QED BY <1>1, <2>1, <2>2, <3>1 DEF Neat, NeatPlaces, Located
  <2>3. CASE m \in n + 1 .. n + h /\ m \notin Bufs(prog)
    BY <1>1, <2>3
  <2>4. QED BY <1>3, <2>1, <2>2, <2>3
<1>8. Lives'
  BY <1>1, <1>2 DEF Neat, NeatPlaces, Lives
<1>9. FreshOrBack'
  <2>1. 0 \in Tiers
    BY TargetTyped DEF ScanInv
  <2>2. Pieces(0)' = Pieces(0)
    BY <1>1, <2>1
  <2>3. QED BY <1>1, <1>2, <2>2 DEF Neat, NeatPlaces, FreshOrBack
<1>10. Born'
  BY <1>1, <1>2 DEF Neat, NeatPlaces, Born
<1>11. Kept'
  <2>1. SUFFICES ASSUME NEW iv \in Intervals(prog), iv.home > 0 \/ iv.mem = NoMem
                 PROVE  \E k : k = EntryTier(prog, iv) /\ \E y \in Pieces(k)' : SamePiece(y, iv)
    <3>1. \A iv \in Intervals(prog) : iv.home > 0 \/ iv.mem = NoMem =>
            \E k : k = EntryTier(prog, iv) /\ \E y \in Pieces(k)' : SamePiece(y, iv)
      BY <2>1
    <3>2. (\A iv \in Intervals(prog) : iv.home > 0 \/ iv.mem = NoMem =>
             \E k : k = EntryTier(prog, iv) /\ \E y \in Pieces(k) : SamePiece(y, iv))'
      BY <1>1, <3>1
    <3>3. (\A iv \in Intervals(prog) : iv.home > 0 \/ iv.mem = NoMem =>
             \E y \in Pieces(EntryTier(prog, iv)) : SamePiece(y, iv))'
      BY <3>2
    <3>4. QED BY <3>3 DEF Kept
  <2>2. PICK k : k = EntryTier(prog, iv) /\ \E y \in Pieces(k) : SamePiece(y, iv)
    BY <2>1 DEF Neat, NeatPlaces, Kept
  <2>3. k \in Tiers
    <3>1. iv.home \in Nat
      BY IntervalsFinite DEF ScanInv, IntervalType
    <3>2. Bottom \in Nat /\ Tiers = 0 .. Bottom
      BY TargetTyped DEF ScanInv
    <3>3. k = IF iv.home > Bottom THEN Bottom ELSE iv.home
      BY <2>2 DEF EntryTier, Bottom, Tiers
    <3>4. QED BY <3>1, <3>2, <3>3
  <2>4. QED BY <1>1, <2>2, <2>3
<1>12. StagesLate'
  <2>1. SUFFICES ASSUME NEW m \in DOMAIN memrefs', NEW l \in DOMAIN memrefs', m \notin Bufs(prog), l \notin Bufs(prog),
                        HomeOf(prog, memrefs'[m].buf) = 0, HomeOf(prog, memrefs'[l].buf) > 0
                 PROVE  m < l
    BY <1>1 DEF StagesLate
  <2>2. m \in 1 .. n /\ memrefs'[m] = memrefs[m]
    BY <1>1, <1>3, <2>1
  <2>3. CASE l \in 1 .. n
    <3>1. memrefs'[l] = memrefs[l]
      BY <1>1, <2>3
    <3>2. QED BY <1>1, <2>1, <2>2, <2>3, <3>1 DEF Neat, NeatPlaces, StagesLate
  <2>4. CASE l \in n + 1 .. n + h
    BY <2>2, <2>4
  <2>5. QED BY <1>3, <2>3, <2>4
<1>13. QED BY <1>4, <1>5, <1>6, <1>7, <1>8, <1>9, <1>10, <1>11, <1>12 DEF NeatPlaces

(* What is no copy of the chain stems from an operation there was.          *)
LEMMA RenamesStems ==
  ASSUME ScanInv, Shaped, NEW T, T \subseteq ExecTimes, NEW op \in Range(code), NEW o, NEW old, NEW new,
         Renames(o, op, T, old, new)
  PROVE  Stems(o, op, T, new)
<1>1. op.kind # "exec" => op.time \notin T
  <2>1. CASE IsCopy(op)
    <3>1. op.time = 0
      BY <2>1 DEF Shaped, Shapes, CopyOk
    <3>2. 0 \notin ExecTimes
      BY FunctionTyped DEF ScanInv, ExecTimes
    <3>3. QED BY <3>1, <3>2
  <2>2. CASE ~ IsCopy(op)
    <3>1. op.kind = prog.ops[op.time].kind
      BY <2>2 DEF Shaped, Shapes, OperationOk
    <3>2. QED BY <3>1 DEF ExecTimes
  <2>3. QED BY <2>1, <2>2
<1>2. ASSUME NEW m \in Touched(o) PROVE m \in Touched(op) \/ (m = new /\ op.time \in T)
  BY <1>2 DEF Renames, Renamed, Touched
<1>3. QED BY <1>1, <1>2 DEF Renames, Stems

LEMMA ChainStems ==
  ASSUME ScanInv, Shaped, NEW b, NEW t \in ExecTimes, NEW h \in Nat, NEW n \in Nat, NEW p, NEW cs, NEW d,
         Stages(b, t, h, n, p, cs, d), NEW o \in Range(code')
  PROVE  \/ \E i \in 1 .. h : o = cs[i]
         \/ \E op \in Range(code) : Stems(o, op, {t}, n + h)
<1>1. /\ d \in Seq(CodeType) /\ Range(d) = Range(code) \cup Range(cs) /\ code' = Replaced(d, {t}, b, n + h)
      /\ DOMAIN cs = 1 .. h /\ \A i \in 1 .. h : cs[i] = Copy(t, IF i = 1 THEN b ELSE n + i - 1, n + i)
  BY DEF Stages
<1>2. \A op \in Range(cs) : op.time \notin {t}
  <2>1. t # 0
    BY FunctionTyped DEF ScanInv, ExecTimes
  <2>2. ASSUME NEW op \in Range(cs) PROVE op.time = 0
    <3>1. PICK i \in 1 .. h : op = cs[i]
      BY <1>1, <2>2, InRange
    <3>2. QED BY <1>1, <3>1 DEF Copy
  <2>3. QED BY <2>1, <2>2
<1>3. Grown(code, code', Range(cs), {t}, b, n + h)
  BY <1>1, <1>2, GrownReplaced
<1>4. CASE o \in Range(cs)
  BY <1>1, <1>4, InRange
<1>5. CASE o \notin Range(cs)
  <2>1. PICK op \in Range(code) : Renames(o, op, {t}, b, n + h)
    BY <1>3, <1>5 DEF Grown
  <2>2. QED BY <2>1, RenamesStems
<1>6. QED BY <1>4, <1>5

LEMMA ChainSorted ==
  ASSUME ScanInv, CodeInv, Shaped, Neat, NEW b, NEW t \in ExecTimes, NEW h \in Nat, NEW n \in Nat, n = Len(memrefs),
         NEW p, NEW cs, NEW d, Stages(b, t, h, n, p, cs, d)
  PROVE  Sorted(code)'
<1>1. /\ p \in 1 .. Len(code) /\ code[p].time = t /\ code \in Seq(CodeType) /\ cs \in Seq(CodeType)
      /\ DOMAIN cs = 1 .. h /\ \A i \in 1 .. h : cs[i] = Copy(t, IF i = 1 THEN b ELSE n + i - 1, n + i)
      /\ d \in Seq(CodeType) /\ d = Spliced(code, cs, p) /\ Range(d) = Range(code) \cup Range(cs)
      /\ code' = Replaced(d, {t}, b, n + h)
  BY DEF Stages
<1>2. t # 0
  BY FunctionTyped DEF ScanInv, ExecTimes
<1>3. \A i \in 1 .. h : IsCopy(cs[i]) /\ cs[i].at = t /\ cs[i].time = 0 /\ cs[i].writes = {n + i}
  BY <1>1 DEF Copy, IsCopy
<1>4. code[p] \in Range(code)
  BY <1>1, InRange
<1>5. ~ IsCopy(code[p]) /\ code[p].at = t
  <2>1. ~ IsCopy(code[p])
    BY <1>1, <1>2, <1>4 DEF Shaped, Shapes, CopyOk
  <2>2. QED BY <1>1, <1>4, <2>1 DEF Shaped, Shapes, OperationOk
<1>6. Sorted(code)
  BY DEF Neat, NeatCode
<1>7. \A i, j \in DOMAIN cs : i < j => \A f \in cs[i].writes, g \in cs[j].writes : f < g
  BY <1>1, <1>3
<1>8. ASSUME NEW x \in Range(code), NEW i \in DOMAIN cs, NEW f \in x.writes, NEW g \in cs[i].writes
      PROVE  f < g
  <2>1. f \in 1 .. n
    BY <1>8, TouchedTyped DEF Touched
  <2>2. i \in 1 .. h
    BY <1>1
  <2>3. cs[i].writes = {n + i}
    BY <1>3, <2>2
  <2>4. g = n + i
    BY <1>8, <2>3
  <2>5. QED BY <2>1, <2>2, <2>4
<1>9. Sorted(d)
  <2>1. PICK s \in Seq(CodeType) : s = code
    BY <1>1
  <2>2. Sorted(Spliced(s, cs, p))
    <3>1. \A i \in DOMAIN cs : IsCopy(cs[i]) /\ cs[i].at = s[p].at
      BY <1>1, <1>3, <1>5, <2>1
    <3>2. p \in 1 .. Len(s) /\ Sorted(s) /\ ~ IsCopy(s[p])
      BY <1>1, <1>5, <1>6, <2>1
    <3>3. \A x \in Range(s) : IsCopy(x) /\ x.at = s[p].at =>
            \A i \in DOMAIN cs : \A f \in x.writes, g \in cs[i].writes : f < g
      BY <1>8, <2>1
    <3>4. cs \in Seq(CodeType)
      BY <1>1
    <3>5. QED BY ONLY s \in Seq(CodeType), <1>7, <3>1, <3>2, <3>3, <3>4, SortedSplice
  <2>3. QED BY <1>1, <2>1, <2>2
<1>10. \A x \in Range(d) : IsCopy(x) => x.time \notin {t}
  <2>1. SUFFICES ASSUME NEW x \in Range(d), IsCopy(x) PROVE x.time # t
    OBVIOUS
  <2>2. CASE x \in Range(code)
    BY <1>2, <2>1, <2>2 DEF Shaped, Shapes, CopyOk
  <2>3. CASE x \in Range(cs)
    <3>1. PICK i \in 1 .. h : x = cs[i]
      BY <1>1, <2>3, InRange
    <3>2. QED BY <1>2, <1>3, <3>1
  <2>4. QED BY <1>1, <2>1, <2>2, <2>3
<1>11. Sorted(Replaced(d, {t}, b, n + h))
  BY <1>1, <1>9, <1>10, SortedReplaced
<1>12. PICK e : e = code' /\ Sorted(e)
  BY <1>1, <1>11
<1>13. QED BY <1>12 DEF Sorted, Before

(* What a stem needs. *)
LEMMA StemNeeds ==
  ASSUME NEW T, NEW op, NEW o, NEW new, Stems(o, op, T, new), NEW m, Needs(o, m)
  PROVE  \/ m = new /\ op.time \in T /\ ~ IsCopy(o) /\ ~ IsCopy(op) /\ o.at = op.at
         \/ Needs(op, m) /\ o.at = op.at /\ (IsCopy(o) <=> IsCopy(op)) /\ (IsCopy(o) => o = op)
<1>1. m \in Touched(o)
  BY DEF Needs, Touched
<1>2. CASE IsCopy(o)
  <2>1. o = op
    BY <1>2 DEF Stems, IsCopy
  <2>2. QED BY <1>2, <2>1
<1>3. CASE ~ IsCopy(o)
  <2>1. op.kind = "exec" /\ op.kind = o.kind /\ o.at = op.at /\ ~ IsCopy(op)
    BY <1>3 DEF Needs, Stems, IsCopy
  <2>2. m \in Touched(op) => Needs(op, m)
    BY <2>1 DEF Needs, IsCopy
  <2>3. QED BY <1>1, <1>3, <2>1, <2>2 DEF Stems
<1>4. QED BY <1>2, <1>3

LEMMA ChainDefs ==
  ASSUME ScanInv, CodeInv, Shaped, Neat, NEW b, NEW t, NEW h \in Nat, NEW n \in Nat, StagesMade(b, t, h, n),
         NEW p, NEW cs, NEW d, Stages(b, t, h, n, p, cs, d)
  PROVE  DefsDated' /\ DefsFirst'
<1>1. /\ prog' = prog /\ \A k \in Tiers : Pieces(k)' = Pieces(k)
      /\ n = Len(memrefs) /\ b \in Bufs(prog) /\ b \in 1 .. n /\ Bufs(prog) \subseteq 1 .. n
      /\ h = HomeOf(prog, b) /\ h > 0 /\ t \in ExecTimes /\ DefTime(prog, b) < t
      /\ DOMAIN memrefs = 1 .. n /\ DOMAIN memrefs' = 1 .. n + h
      /\ \A m \in 1 .. n : memrefs'[m] = memrefs[m]
  BY DEF StagesMade
<1>2. Tiers' = Tiers /\ Bufs(prog') = Bufs(prog)
  BY <1>1 DEF Tiers
<1>3. \A i \in 1 .. h : cs[i] = Copy(t, IF i = 1 THEN b ELSE n + i - 1, n + i)
  BY DEF Stages
<1>4. \A i \in 1 .. h : /\ IsCopy(cs[i]) /\ cs[i].at = t /\ cs[i].writes = {n + i}
                        /\ cs[i].reads = {IF i = 1 THEN b ELSE n + i - 1}
  <2>1. ASSUME NEW i \in 1 .. h, NEW f, f = IF i = 1 THEN b ELSE n + i - 1
        PROVE  IsCopy(cs[i]) /\ cs[i].at = t /\ cs[i].writes = {n + i} /\ cs[i].reads = {f}
    <3>1. cs[i] = Copy(t, f, n + i)
      BY <1>3, <2>1
    <3>2. QED BY <3>1 DEF Copy, IsCopy
  <2>2. QED BY <2>1
<1>5. ASSUME NEW o \in Range(code')
      PROVE  \/ \E i \in 1 .. h : o = cs[i]
             \/ \E op \in Range(code) : Stems(o, op, {t}, n + h) /\ \A m \in Touched(op) : m \in 1 .. n
  <2>1. CASE \E op \in Range(code) : Stems(o, op, {t}, n + h)
    BY <1>1, <2>1, TouchedTyped
  <2>2. t \in ExecTimes /\ o \in Range(code')
    BY <1>1, <1>5
  <2>3. (\E i \in 1 .. h : o = cs[i]) \/ \E op \in Range(code) : Stems(o, op, {t}, n + h)
    BY <2>2, ChainStems
  <2>4. QED BY <2>1, <2>3
<1>6. ASSUME NEW o \in Range(code'), NEW m, Defines(o, m)
      PROVE  \/ \E i \in 1 .. h : o = cs[i] /\ m = n + i
             \/ o \in Range(code) /\ m \in 1 .. n
  <2>1. CASE \E i \in 1 .. h : o = cs[i]
    BY <1>4, <1>6, <2>1 DEF Defines
  <2>2. CASE \E op \in Range(code) : Stems(o, op, {t}, n + h) /\ \A l \in Touched(op) : l \in 1 .. n
    <3>1. PICK op \in Range(code) : Stems(o, op, {t}, n + h) /\ \A l \in Touched(op) : l \in 1 .. n
      BY <2>2
    <3>2. o = op /\ m \in Touched(op)
      BY <1>6, <3>1 DEF Stems, Defines, Touched
    <3>3. QED BY <3>1, <3>2
  <2>3. QED BY <1>5, <2>1, <2>2
<1>7. ASSUME NEW o \in Range(code), NEW m \in 1 .. n, Defines(o, m), NEW k \in Tiers, NEW y \in Pieces(k), y.mem = m
      PROVE  o.at = y.start
  BY <1>1, <1>7 DEF Neat, NeatCode, DefsDated
<1>8. DefsDated'
  <2>1. SUFFICES ASSUME NEW o \in Range(code'), NEW m \in DOMAIN memrefs', Defines(o, m), NEW k \in Tiers,
                        NEW y \in Pieces(k)', y.mem = m
                 PROVE  o.at = y.start
    BY <1>2 DEF DefsDated
  <2>2. y \in Pieces(k) /\ m \in 0 .. n
    <3>1. y \in Pieces(k)
      BY <1>1, <2>1
    <3>2. Sound(y)
      BY <3>1, PiecesTyped
    <3>3. QED BY <1>1, <2>1, <3>1, <3>2 DEF Sound
  <2>3. o \in Range(code) /\ m \in 1 .. n
    BY <1>6, <2>1, <2>2
  <2>4. QED BY <1>7, <2>1, <2>2, <2>3
<1>9. ASSUME NEW o \in Range(code), Defines(o, b)
      PROVE  o.at = DefTime(prog, b)
  <2>1. ~ IsCopy(o)
    <3>1. IsCopy(o) => \E g : o.writes = {g} /\ g \notin Bufs(prog)
      BY DEF Shaped, Shapes, CopyOk
    <3>2. QED BY <1>1, <1>9, <3>1 DEF Defines
  <2>2. o.time \in Times(prog) /\ o.at = o.time /\ o.kind = prog.ops[o.time].kind /\ o.writes = prog.ops[o.time].writes
    BY <1>9, <2>1 DEF Shaped, Shapes, OperationOk, Defines
  <2>3. o.kind \in {"alloc", "global"}
    <3>1. prog.ops[o.time].kind = "dealloc" => prog.ops[o.time].writes = {}
      BY <2>2, DeallocWritesNothing DEF ScanInv
    <3>2. prog.ops[o.time].kind \in {"alloc", "global", "exec", "dealloc"}
      BY <2>2, FunctionTyped DEF ScanInv, Operations
    <3>3. QED BY <1>9, <2>2, <3>1, <3>2 DEF Defines
  <2>4. b \in prog.ops[o.time].writes /\ prog.ops[o.time].kind \in {"alloc", "global"}
    BY <1>9, <2>2, <2>3 DEF Defines
  <2>5. prog \in Programs /\ b \in Bufs(prog)
    BY <1>1 DEF ScanInv
  <2>6. o.time = DefTime(prog, b)
    BY <2>2, <2>4, <2>5, OneDefinition
  <2>7. QED BY <2>2, <2>6
<1>10. ASSUME NEW o \in Range(code'), NEW m, Needs(o, m)
       PROVE  \/ \E i \in 1 .. h : o = cs[i] /\ m = IF i = 1 THEN b ELSE n + i - 1
              \/ m = n + h /\ ~ IsCopy(o) /\ o.at = t
              \/ m \in 1 .. n /\ \E op \in Range(code) : /\ Needs(op, m) /\ o.at = op.at
                                                        /\ (IsCopy(o) <=> IsCopy(op)) /\ (IsCopy(o) => o = op)
  <2>1. CASE \E i \in 1 .. h : o = cs[i]
    BY <1>4, <1>10, <2>1 DEF Needs
  <2>2. CASE \E op \in Range(code) : Stems(o, op, {t}, n + h) /\ \A l \in Touched(op) : l \in 1 .. n
    <3>1. PICK op \in Range(code) : Stems(o, op, {t}, n + h) /\ \A l \in Touched(op) : l \in 1 .. n
      BY <2>2
    <3>2. CASE m = n + h /\ op.time = t /\ ~ IsCopy(o) /\ ~ IsCopy(op) /\ o.at = op.at
      <4>1. op.at = op.time
        BY <3>2 DEF Shaped, Shapes, OperationOk
      <4>2. QED BY <3>2, <4>1
    <3>3. CASE Needs(op, m) /\ o.at = op.at /\ (IsCopy(o) <=> IsCopy(op)) /\ (IsCopy(o) => o = op)
      <4>1. m \in Touched(op)
        BY <3>3 DEF Needs, Touched
      <4>2. QED BY <3>1, <3>3, <4>1
    <3>4. QED BY <1>10, <3>1, <3>2, <3>3, StemNeeds
  <2>3. QED BY <1>5, <2>1, <2>2
<1>11. t \in Int /\ DefTime(prog, b) \in Int
  BY <1>1, DefinedFirst, FunctionTyped DEF ScanInv, ExecTimes
<1>12. DefsFirst'
  <2>1. SUFFICES ASSUME NEW o \in Range(code'), NEW y \in Range(code'), NEW m \in DOMAIN memrefs',
                        Defines(o, m), Needs(y, m)
                 PROVE  /\ Before(o, y)
                        /\ m \notin Bufs(prog) /\ HomeOf(prog, memrefs'[m].buf) > 0 => o.at = y.at
    BY <1>1, <1>2 DEF DefsFirst
  <2>2. CASE \E i \in 1 .. h : o = cs[i] /\ m = n + i
    <3>1. PICK i \in 1 .. h : o = cs[i] /\ m = n + i
      BY <2>2
    <3>2. m \notin 1 .. n
      BY <3>1
    <3>3. CASE \E j \in 1 .. h : y = cs[j] /\ m = IF j = 1 THEN b ELSE n + j - 1
      <4>1. PICK j \in 1 .. h : y = cs[j] /\ m = IF j = 1 THEN b ELSE n + j - 1
        BY <3>3
      <4>2. i < j
        BY <1>1, <3>1, <3>2, <4>1
      <4>3. n + i < n + j
        BY <4>2
      <4>4. QED BY <1>4, <3>1, <4>1, <4>3 DEF Before
    <3>4. CASE m = n + h /\ ~ IsCopy(y) /\ y.at = t
      BY <1>4, <3>1, <3>4 DEF Before
    <3>5. QED BY <1>10, <2>1, <3>2, <3>3, <3>4
  <2>3. CASE o \in Range(code) /\ m \in 1 .. n
    <3>1. memrefs'[m] = memrefs[m] /\ m \in DOMAIN memrefs
      BY <1>1, <2>3
    <3>2. CASE \E j \in 1 .. h : y = cs[j] /\ m = IF j = 1 THEN b ELSE n + j - 1
      <4>1. PICK j \in 1 .. h : y = cs[j] /\ m = IF j = 1 THEN b ELSE n + j - 1
        BY <3>2
      <4>2. m = b
        BY <2>3, <4>1
      <4>3. o.at < y.at
        BY <1>1, <1>4, <1>9, <2>1, <2>3, <4>1, <4>2
      <4>4. QED BY <1>1, <4>2, <4>3 DEF Before
    <3>3. CASE \E op \in Range(code) : /\ Needs(op, m) /\ y.at = op.at
                                       /\ (IsCopy(y) <=> IsCopy(op)) /\ (IsCopy(y) => y = op)
      <4>1. PICK op \in Range(code) : /\ Needs(op, m) /\ y.at = op.at
                                      /\ (IsCopy(y) <=> IsCopy(op)) /\ (IsCopy(y) => y = op)
        BY <3>3
      <4>2. /\ Before(o, op)
            /\ m \notin Bufs(prog) /\ HomeOf(prog, memrefs[m].buf) > 0 => o.at = op.at
        BY <2>1, <2>3, <3>1, <4>1 DEF Neat, NeatCode, DefsFirst
      <4>3. Before(o, y)
        BY <4>1, <4>2 DEF Before
      <4>4. QED BY <3>1, <4>1, <4>2, <4>3
    <3>4. m # n + h
      BY <1>1, <2>3
    <3>5. QED BY <1>10, <2>1, <3>2, <3>3, <3>4
  <2>4. QED BY <1>6, <2>1, <2>2, <2>3
<1>13. QED BY <1>8, <1>12

LEMMA ChainFits ==
  ASSUME ScanInv, CodeInv, Shaped, Neat, NEW b \in Bufs(prog), NEW t \in ExecTimes, NEW h \in Nat, NEW n \in Nat,
         Chained(b, t, h, n), StagesMade(b, t, h, n), NEW p, NEW cs, NEW d, Stages(b, t, h, n, p, cs, d)
  PROVE  CopiesFit' /\ StagesUsed'
<1>1. /\ prog' = prog /\ placed' = placed /\ taken' = taken /\ \A k \in Tiers : Pieces(k)' = Pieces(k)
      /\ n = Len(memrefs) /\ b \in 1 .. n /\ Bufs(prog) \subseteq 1 .. n
      /\ h = HomeOf(prog, b) /\ h > 0 /\ t \in UsesOf(prog, b) /\ DefTime(prog, b) < t
      /\ DOMAIN memrefs = 1 .. n /\ DOMAIN memrefs' = 1 .. n + h
      /\ \A m \in 1 .. n : memrefs'[m] = memrefs[m]
      /\ \A m \in n + 1 .. n + h : memrefs'[m].buf = b /\ StageAt(m, t)'
  BY DEF StagesMade
<1>2. Tiers' = Tiers /\ Bufs(prog') = Bufs(prog) /\ ExecTimes' = ExecTimes /\ Now' = Now
  BY <1>1 DEF Tiers, ExecTimes, Now
<1>3. ASSUME NEW m \in 1 .. n, NEW u, StageAt(m, u) PROVE StageAt(m, u)'
  <2>1. memrefs'[m] = memrefs[m]
    BY <1>1
  <2>2. Remains
    BY <1>1 DEF Remains, RemainsIn, SamePiece
  <2>3. QED BY <1>1, <1>3, <2>1, <2>2, StageStays
<1>4. \A i \in 1 .. h : cs[i] = Copy(t, IF i = 1 THEN b ELSE n + i - 1, n + i)
  BY DEF Stages
<1>5. ASSUME NEW i \in 1 .. h, NEW f \in cs[i].reads, NEW g \in cs[i].writes
      PROVE  CopyFits(cs[i], f, g)'
  <2>1. PICK e : e = IF i = 1 THEN b ELSE n + i - 1
    OBVIOUS
  <2>2. cs[i] = Copy(t, e, n + i)
    BY <1>4, <2>1
  <2>3. cs[i].at = t /\ f = e /\ g = n + i
    BY <1>5, <2>2 DEF Copy
  <2>4. g \in n + 1 .. n + h
    BY <2>3
  <2>5. memrefs'[g].buf = b /\ StageAt(g, t)'
    BY <1>1, <2>4
  <2>6. f \in Bufs(prog) \/ StageAt(f, t)'
    <3>1. CASE i = 1
      BY <2>1, <2>3, <3>1
    <3>2. CASE i # 1
      <4>1. f = n + i - 1
        BY <2>1, <2>3, <3>2
      <4>2. f \in n + 1 .. n + h
        BY <3>2, <4>1
      <4>3. QED BY <1>1, <4>2
    <3>3. QED BY <3>1, <3>2
  <2>7. StageFits(cs[i], f, g)'
    BY <1>1, <1>2, <2>3, <2>5, <2>6 DEF StageFits
  <2>8. HomeOf(prog, b) # 0
    BY <1>1
  <2>9. QED BY <1>1, <2>3, <2>5, <2>7, <2>8 DEF CopyFits
<1>6. ASSUME NEW x \in Range(code), IsCopy(x), NEW f \in x.reads, NEW g \in x.writes
      PROVE  CopyFits(x, f, g)'
  <2>1. f \in 1 .. n /\ g \in 1 .. n
    BY <1>1, <1>6, TouchedTyped DEF Touched
  <2>2. CopyFits(x, f, g)
    BY <1>6 DEF Neat, NeatCode, CopiesFit
  <2>3. memrefs'[g] = memrefs[g]
    BY <1>1, <2>1
  <2>4. ASSUME OutFits(x, f, g) PROVE OutFits(x, f, g)'
    BY <1>1, <1>2, <2>4 DEF OutFits
  <2>5. ASSUME BackFits(x, f, g) PROVE BackFits(x, f, g)'
    <3>1. x.at \in ExecTimes' /\ 1 \in Tiers
      BY <1>2, <2>5 DEF BackFits
    <3>2. \A k \in Tiers : \A y \in Pieces(k)' : (y.mem = f => k = 1 /\ y.end = x.at) /\ (y.mem = g => k = 0)
      BY <1>1, <2>5 DEF BackFits
    <3>3. \E y \in Pieces(1)' : y.mem = f /\ y.start < y.end
      <4>1. Pieces(1)' = Pieces(1)
        BY <1>1, <3>1
      <4>2. QED BY <2>5, <4>1 DEF BackFits
    <3>4. QED BY <1>2, <3>1, <3>2, <3>3 DEF BackFits
  <2>6. ASSUME StageFits(x, f, g) PROVE StageFits(x, f, g)'
    BY <1>1, <1>3, <2>1, <2>3, <2>6 DEF StageFits
  <2>7. QED BY <1>1, <2>2, <2>3, <2>4, <2>5, <2>6 DEF CopyFits
<1>7. CopiesFit'
  <2>1. SUFFICES ASSUME NEW x \in Range(code'), IsCopy(x), NEW f \in x.reads, NEW g \in x.writes
                 PROVE  CopyFits(x, f, g)'
    BY DEF CopiesFit
  <2>2. CASE \E i \in 1 .. h : x = cs[i]
    BY <1>5, <2>1, <2>2
  <2>3. CASE \E op \in Range(code) : Stems(x, op, {t}, n + h)
    <3>1. PICK op \in Range(code) : Stems(x, op, {t}, n + h)
      BY <2>3
    <3>2. x = op
      BY <2>1, <3>1 DEF Stems, IsCopy
    <3>3. QED BY <1>6, <2>1, <3>1, <3>2
  <2>4. (\E i \in 1 .. h : x = cs[i]) \/ \E op \in Range(code) : Stems(x, op, {t}, n + h)
    BY <2>1, ChainStems
  <2>5. QED BY <2>2, <2>3, <2>4
<1>8. StagesUsed'
  <2>1. SUFFICES ASSUME NEW o \in Execs(code'), NEW m \in Touched(o), HomeOf(prog, memrefs'[m].buf) > 0
                 PROVE  ToStage(o, m)' \/ StageAt(m, o.time)'
    BY <1>1 DEF StagesUsed, Execs
  <2>2. Follows(code, code', {t}, b, n + h)
    BY ChainFollows
  <2>3. PICK op \in Execs(code) :
           /\ op.time = o.time
           /\ \/ m \in Touched(op) /\ (m = b => o.time \notin {t})
              \/ m = n + h /\ b \in Touched(op) /\ o.time \in {t}
    BY <2>1, <2>2 DEF Follows
  <2>4. CASE m \in Touched(op) /\ (m = b => o.time # t)
    <3>1. m \in 1 .. n
      BY <1>1, <2>4, TouchedTyped DEF Execs
    <3>2. memrefs'[m] = memrefs[m]
      BY <1>1, <3>1
    <3>3. ToStage(op, m) \/ StageAt(m, op.time)
      BY <2>1, <2>4, <3>2 DEF Neat, NeatCode, StagesUsed
    <3>4. CASE StageAt(m, op.time)
      BY <1>3, <2>3, <3>1, <3>4
    <3>5. CASE ToStage(op, m)
      <4>1. <<m, o.time>> \in plan /\ <<m, o.time>> # <<b, t>> /\ m \in Bufs(prog)
        BY <2>3, <2>4, <3>5 DEF ToStage
      <4>2. plan' = plan \ {<<b, t>>}
        BY DEF Chained
      <4>3. QED BY <1>1, <4>1, <4>2 DEF ToStage
    <3>6. QED BY <3>3, <3>4, <3>5
  <2>5. CASE m = n + h /\ o.time = t
    <3>1. m \in n + 1 .. n + h
      BY <1>1, <2>5
    <3>2. QED BY <1>1, <2>5, <3>1
  <2>6. QED BY <2>3, <2>4, <2>5
<1>9. QED BY <1>7, <1>8

(* A chain leaves the code neat. *)
LEMMA NeatChain ==
  ASSUME ScanInv, CodeInv, Course, Shaped, Drained, Seated, Orderly, Neat, EmitChain
  PROVE  Neat'
<1>1. PICK b \in Bufs(prog), t \in ExecTimes, h \in Nat, n \in Nat : Chained(b, t, h, n)
  BY EmitChainDoes
<1>2. StagesMade(b, t, h, n)
  BY <1>1, ChainStages
<1>3. PICK p, cs, d : Stages(b, t, h, n, p, cs, d)
  BY <1>1, ChainCode
<1>4. NeatPlaces'
  BY <1>2, ChainPlaces
<1>5. Sorted(code)'
  <2>1. n = Len(memrefs)
    BY <1>1 DEF Chained
  <2>2. QED BY <1>3, <2>1, ChainSorted
<1>6. DefsDated' /\ DefsFirst'
  BY <1>2, <1>3, ChainDefs
<1>7. CopiesFit' /\ StagesUsed'
  BY <1>1, <1>2, <1>3, ChainFits
<1>8. QED BY <1>4, <1>5, <1>6, <1>7 DEF Neat, NeatCode

-----------------------------------------------------------------------------
(* At first the operations are those of the function and nothing is placed. *)
LEMMA NeatPlacesInit == Init => NeatPlaces
<1> SUFFICES ASSUME Init PROVE NeatPlaces
  OBVIOUS
<1>1. prog \in Programs /\ DOMAIN memrefs = Bufs(prog) /\ \A b \in Bufs(prog) : memrefs[b].tier = -1
  BY DEF Init, Unplaced
<1>2. \A k \in Tiers : /\ Pieces(k) = {iv \in Intervals(prog) : EntryTier(prog, iv) = k}
                       /\ Range(placed[k]) = {} /\ CurIn(stack, k) = {}
  <2>1. \A k \in Tiers : placed[k] = << >> /\ CurIn(stack, k) = {}
                         /\ Pieces(k) = {iv \in Intervals(prog) : EntryTier(prog, iv) = k}
    BY FirstPieces
  <2>2. \A k \in Tiers : Range(placed[k]) = {}
    BY <2>1, InRange
  <2>3. QED BY <2>1, <2>2
<1>3. ASSUME NEW k \in Tiers, NEW y \in Pieces(k)
      PROVE  /\ y.start >= DefTime(prog, y.id.buf)
             /\ \/ y.id = IdOf(y.mem) /\ y.mem \in Bufs(prog)
                \/ y.id.stage # -1 /\ y.mem = NoMem
  <2>1. y \in Intervals(prog)
    BY <1>2
  <2>2. CASE \E b \in Bufs(prog) : y = BufInterval(prog, b)
    <3>1. PICK b \in Bufs(prog) : y = BufInterval(prog, b)
      BY <2>2
    <3>2. y.id = IdOf(b) /\ y.mem = b /\ y.start = DefTime(prog, b) /\ y.id.buf = b
      BY <3>1 DEF BufInterval, IdOf
    <3>3. DefTime(prog, b) \in Int
      BY <1>1, DefinedFirst, FunctionTyped
    <3>4. QED BY <3>2, <3>3
  <2>3. CASE \E b \in Bufs(prog) : \E t \in UsesOf(prog, b), l \in 0 .. HomeOf(prog, b) - 1 : y = Stage(prog, b, t, l)
    <3>1. PICK b \in Bufs(prog) : \E t \in UsesOf(prog, b), l \in 0 .. HomeOf(prog, b) - 1 : y = Stage(prog, b, t, l)
      BY <2>3
    <3>2. PICK t \in UsesOf(prog, b), l \in 0 .. HomeOf(prog, b) - 1 : y = Stage(prog, b, t, l)
      BY <3>1
    <3>3. y.id.buf = b /\ y.id.stage = l /\ y.mem = NoMem /\ y.start = t
      BY <3>2 DEF Stage
    <3>4. l # -1
      BY <1>1, <3>2, HomeTyped
    <3>5. DefTime(prog, b) <= t
      BY <1>1, <3>2, DefinedFirst DEF UsesOf
    <3>6. t \in Int /\ DefTime(prog, b) \in Int
      BY <1>1, <3>2, DefinedFirst, FunctionTyped DEF UsesOf
    <3>7. QED BY <3>3, <3>4, <3>5, <3>6
  <2>4. QED BY <2>1, <2>2, <2>3 DEF Intervals
<1>4. PartsApart
  <2>1. SUFFICES ASSUME NEW k \in Tiers, NEW l \in Tiers, NEW y \in Pieces(k), NEW z \in Pieces(l), y.id = z.id
                 PROVE  y.mem = z.mem
    BY DEF PartsApart
  <2>2. \A m, j : IdOf(m) = IdOf(j) => m = j
    BY DEF IdOf
  <2>3. \A m : IdOf(m).stage = -1
    BY DEF IdOf
  <2>4. QED BY <1>3, <2>1, <2>2, <2>3
<1>5. CurAlone /\ Marked /\ Lives
  BY <1>2 DEF CurAlone, Marked, Lives
<1>6. Located
  BY <1>1 DEF Located
<1>7. FreshOrBack
  BY <1>3, FirstPieces DEF FreshOrBack
<1>8. Born
  BY <1>3 DEF Born
<1>9. Kept
  <2>1. ASSUME NEW iv \in Intervals(prog)
        PROVE  \E y \in Pieces(EntryTier(prog, iv)) : SamePiece(y, iv)
    <3>1. EntryTier(prog, iv) \in Tiers
      <4>1. iv.home \in Nat
        BY <1>1, IntervalsFinite DEF IntervalType
      <4>2. Bottom \in Nat /\ Tiers = 0 .. Bottom
        BY <1>1, TargetTyped
      <4>3. EntryTier(prog, iv) = IF iv.home > Bottom THEN Bottom ELSE iv.home
        BY DEF EntryTier, Bottom, Tiers
      <4>4. QED BY <4>1, <4>2, <4>3
    <3>2. iv \in Pieces(EntryTier(prog, iv))
      BY <1>2, <2>1, <3>1
    <3>3. QED BY <3>2 DEF SamePiece
  <2>2. QED BY <2>1 DEF Kept
<1>10. StagesLate
  BY <1>1 DEF StagesLate
<1>11. QED BY <1>4, <1>5, <1>6, <1>7, <1>8, <1>9, <1>10 DEF NeatPlaces

LEMMA NeatCodeInit == Init => NeatCode
<1> SUFFICES ASSUME Init PROVE NeatCode
  OBVIOUS
<1>1. /\ prog \in Programs /\ DOMAIN memrefs = Bufs(prog) /\ \A b \in Bufs(prog) : memrefs[b].buf = b
      /\ plan = Chains(prog)
      /\ code = [t \in Times(prog) |-> [kind |-> prog.ops[t].kind, time |-> t, at |-> t,
                                        reads |-> prog.ops[t].reads, writes |-> prog.ops[t].writes]]
  BY DEF Init, Unplaced
<1>2. ASSUME NEW t \in Times(prog)
      PROVE  /\ t \in Nat /\ code[t].kind = prog.ops[t].kind /\ code[t].time = t /\ code[t].at = t
             /\ code[t].reads = prog.ops[t].reads /\ code[t].writes = prog.ops[t].writes
             /\ Touched(code[t]) = Touched(prog.ops[t]) /\ ~ IsCopy(code[t])
  <2>1. prog.ops[t] \in Operations(Bufs(prog)) /\ t \in Nat
    BY <1>1, FunctionTyped
  <2>2. prog.ops[t].kind # "copy"
    BY <2>1 DEF Operations
  <2>3. code[t] = [kind |-> prog.ops[t].kind, time |-> t, at |-> t,
                   reads |-> prog.ops[t].reads, writes |-> prog.ops[t].writes]
    BY <1>1
  <2>4. QED BY <2>1, <2>2, <2>3 DEF Touched, IsCopy
<1>3. DOMAIN code = Times(prog) /\ \A x \in Range(code) : \E t \in Times(prog) : x = code[t]
  BY <1>1, InRange
<1>4. Sorted(code)
  BY <1>2, <1>3 DEF Sorted, Before
<1>5. ASSUME NEW t \in Times(prog), NEW m \in Bufs(prog), Defines(code[t], m)
      PROVE  t = DefTime(prog, m)
  <2>1. prog.ops[t].kind # "exec" /\ m \in prog.ops[t].writes
    BY <1>2, <1>5 DEF Defines
  <2>2. prog.ops[t].kind \in {"alloc", "global"}
    <3>1. prog.ops[t].kind = "dealloc" => prog.ops[t].writes = {}
      BY <1>1, ProgramsAssumption DEF WellFormed
    <3>2. prog.ops[t].kind \in {"alloc", "global", "exec", "dealloc"}
      BY <1>1, FunctionTyped DEF Operations
    <3>3. QED BY <2>1, <3>1, <3>2
  <2>3. PICK u \in Times(prog) : \A s \in Times(prog) :
          m \in prog.ops[s].writes /\ prog.ops[s].kind \in {"alloc", "global"} => s = u
    BY <1>1, ProgramsAssumption DEF WellFormed
  <2>4. DefTime(prog, m) = u
    BY <1>1, <2>3, DefinedFirst
  <2>5. QED BY <2>1, <2>2, <2>3, <2>4
<1>6. DefsDated
  <2>1. SUFFICES ASSUME NEW t \in Times(prog), NEW m \in Bufs(prog), Defines(code[t], m),
                        NEW k \in Tiers, NEW y \in Pieces(k), y.mem = m
                 PROVE  t = y.start
    BY <1>1, <1>2, <1>3 DEF DefsDated
  <2>2. y \in Intervals(prog)
    BY <2>1, FirstPieces
  <2>3. m # NoMem
    BY <1>1, FunctionTyped DEF NoMem
  <2>4. y.start = DefTime(prog, m)
    BY <1>1, <2>1, <2>2, <2>3, IntervalIs
  <2>5. QED BY <1>5, <2>1, <2>4
<1>7. CopiesFit
  BY <1>2, <1>3 DEF CopiesFit
<1>8. StagesUsed
  <2>1. SUFFICES ASSUME NEW x \in Execs(code), NEW m \in Touched(x), HomeOf(prog, memrefs[m].buf) > 0
                 PROVE  ToStage(x, m)
    BY DEF StagesUsed
  <2>2. PICK t \in Times(prog) : x = code[t]
    BY <1>3 DEF Execs
  <2>3. prog.ops[t].kind = "exec" /\ m \in Touched(prog.ops[t]) /\ x.time = t
    BY <1>2, <2>1, <2>2 DEF Execs
  <2>4. m \in Bufs(prog) /\ t \in UsesOf(prog, m)
    BY <1>1, <2>3, FunctionTyped DEF UsesOf
  <2>5. <<m, t>> \in Chains(prog)
    <3>1. PICK e : e = <<m, t>>
      OBVIOUS
    <3>2. e \in Bufs(prog) \X Times(prog) /\ e[1] = m /\ e[2] = t
      BY <2>4, <3>1
    <3>3. QED BY <1>1, <2>1, <2>4, <3>1, <3>2 DEF Chains
  <2>6. QED BY <1>1, <2>3, <2>4, <2>5 DEF ToStage
<1>9. DefsFirst
  <2>1. SUFFICES ASSUME NEW s \in Times(prog), NEW t \in Times(prog), NEW m \in Bufs(prog),
                        Defines(code[s], m), Needs(code[t], m)
                 PROVE  Before(code[s], code[t])
    BY <1>1, <1>3 DEF DefsFirst
  <2>2. s = DefTime(prog, m)
    BY <1>5, <2>1
  <2>3. prog.ops[t].kind = "exec" /\ m \in Touched(prog.ops[t])
    BY <1>2, <2>1 DEF Needs
  <2>4. s <= t /\ s # t
    BY <1>1, <2>2, <2>3, DefinedFirst
  <2>5. QED BY <1>2, <2>4 DEF Before
<1>10. QED BY <1>4, <1>6, <1>7, <1>8, <1>9 DEF NeatCode

(* As long as they are orderly, the scan and its code are neat.             *)
NeatInv == Orderly => Neat

LEMMA NeatStep ==
  ScanInv /\ GuardInv /\ CodeInv /\ Course /\ Homes /\ ZeroInv /\ Sole /\ Labelled /\ Seated /\ Drained /\ Shaped
  /\ NeatInv /\ ScanInv' /\ [Next]_vars => NeatInv'
<1> SUFFICES ASSUME ScanInv, GuardInv, CodeInv, Course, Homes, ZeroInv, Sole, Labelled, Seated, Drained, Shaped,
                    NeatInv, ScanInv', [Next]_vars, Orderly'
             PROVE  Neat'
  BY DEF NeatInv
<1>1. Orderly
  BY OrderlyBack
<1>2. Neat
  BY <1>1 DEF NeatInv
<1>3. CASE Spill
  BY <1>1, <1>2, <1>3, NeatSpill
<1>4. CASE EmitChain
  BY <1>1, <1>2, <1>4, NeatChain
<1>5. CASE ~ Spill /\ ~ EmitChain
  BY <1>2, <1>5, NeatQuiet
<1>6. QED BY <1>3, <1>4, <1>5

(* All that holds of the scan and its code.                                 *)
Tidy == Sole /\ Labelled /\ Seated /\ Drained /\ Shaped /\ NeatInv

LEMMA TidyInvariant == Spec => []Tidy
<1>1. Init => Tidy
  <2>1. Init => NeatInv
    BY NeatPlacesInit, NeatCodeInit DEF NeatInv, Neat
  <2>2. QED BY <2>1, SoleInit, LabelledInit, SeatedInit, DrainedInit, ShapedInit DEF Tidy
<1>2. ScanInv /\ GuardInv /\ CodeInv /\ Course /\ Homes /\ ZeroInv /\ Tidy /\ ScanInv' /\ [Next]_vars => Tidy'
  BY SoleStep, LabelledStep, SeatedStep, DrainedStep, ShapedStep, NeatStep DEF Tidy
<1>3. QED BY <1>1, <1>2, ScanWellFormed, GuardInvariant, CodeInvariant, CourseInvariant, HomesInvariant,
             ZeroInvariant, PTL DEF Spec

-----------------------------------------------------------------------------
(* The run of the code.  What it starts from.                               *)
Ready ==
  /\ phase = "run" /\ plan = {} /\ Orderly /\ Neat /\ Sole /\ Labelled /\ Seated /\ Shaped /\ UseCovered
  /\ \A k \in Tiers : Pieces(k) = Range(placed[k])

LEMMA RunReady ==
  ASSUME ScanInv, Course, CoverInv, Tidy, Orderly, phase = "run"
  PROVE  Ready
<1>1. \A k \in Tiers : Pieces(k) = Range(placed[k])
  BY AllPlacedThen DEF Tidy
<1>2. UseCovered
  BY DEF CoverInv, Orderly
<1>3. plan = {}
  BY DEF Course
<1>4. QED BY <1>1, <1>2, <1>3 DEF Tidy, NeatInv, Ready

(* The piece of a tier that has the place of a memref at t. *)
Holder(m, k, y, t) ==
  /\ y \in Range(placed[k])
  /\ memrefs[m].tier = k /\ memrefs[m].offset = y.offset /\ memrefs[m].buf = y.id.buf
  /\ y.start <= t
  /\ \/ y.mem = m
     \/ /\ y.mem = NoMem /\ y.id = [buf |-> memrefs[m].buf, stage |-> k, use |-> t]
        /\ HomeOf(prog, memrefs[m].buf) > 0

(* A spill or a reload of it there. *)
Leaves(u, m, t) ==
  /\ IsCopy(u) /\ u.at = t /\ HomeOf(prog, memrefs[m].buf) = 0
  /\ \E g \in u.writes : OutFits(u, m, g) \/ BackFits(u, m, g)

LEMMA MemrefAt ==
  ASSUME ScanInv, NEW m \in DOMAIN memrefs
  PROVE  /\ DOMAIN memrefs = 1 .. Len(memrefs) /\ m \in Nat /\ m # NoMem
         /\ memrefs[m].buf \in Bufs(prog) /\ memrefs[m].tier \in Int /\ memrefs[m].offset \in Int
         /\ prog.size[memrefs[m].buf] \in Nat
<1>1. PICK s \in Seq(MemrefType) : s = memrefs
  BY DEF ScanInv, MemrefsTyped
<1>2. DOMAIN s = 1 .. Len(s) /\ Len(s) \in Nat
  BY <1>1
<1>3. m \in 1 .. Len(s) /\ s[m] \in MemrefType
  BY <1>1, <1>2
<1>4. m \in Nat /\ m # NoMem
  BY <1>2, <1>3 DEF NoMem
<1>5. s[m].buf \in Bufs(prog) /\ s[m].tier \in Int /\ s[m].offset \in Int
  BY <1>3 DEF MemrefType
<1>6. prog.size[s[m].buf] \in Nat
  BY <1>5, FunctionTyped DEF ScanInv
<1>7. QED BY <1>1, <1>2, <1>4, <1>5, <1>6

LEMMA StageHolds ==
  ASSUME ScanInv, NEW m \in DOMAIN memrefs, NEW t \in Int, StageAt(m, t)
  PROVE  \E k \in Tiers : \E y : Holder(m, k, y, t) /\ y.start = t /\ t < y.end
<1>1. PICK k \in Tiers : k = memrefs[m].tier
  BY DEF StageAt
<1>2. PICK y \in Range(placed[k]) :
        /\ y.id = [buf |-> memrefs[m].buf, stage |-> k, use |-> t]
        /\ y.start = t /\ y.end = t + 1 /\ y.offset = memrefs[m].offset /\ y.mem = NoMem
  BY <1>1 DEF StageAt
<1>3. y.id.buf = memrefs[m].buf /\ t < t + 1 /\ t <= t
  BY <1>2
<1>4. HomeOf(prog, memrefs[m].buf) > 0
  <2>1. k \in Nat /\ k < HomeOf(prog, memrefs[m].buf)
    BY <1>1, TargetTyped DEF StageAt, ScanInv
  <2>2. HomeOf(prog, memrefs[m].buf) \in Nat
    BY MemrefAt, HomeTyped DEF ScanInv
  <2>3. QED BY <2>1, <2>2
<1>5. Holder(m, k, y, t)
  BY <1>1, <1>2, <1>3, <1>4 DEF Holder
<1>6. QED BY <1>2, <1>3, <1>5

(* What is placed of a memref has its place. *)
LEMMA PieceHolds ==
  ASSUME ScanInv, Ready, NEW m \in DOMAIN memrefs, NEW k \in Tiers, NEW y \in Range(placed[k]), y.mem = m,
         NEW d \in Range(code), Defines(d, m), NEW t \in Int, d.at <= t
  PROVE  Holder(m, k, y, t) /\ y.start = d.at /\ y \in IntervalType /\ Sound(y) /\ y.start < y.end
<1>1. m # NoMem
  BY MemrefAt
<1>2. y \in Pieces(k)
  BY DEF Ready
<1>3. y \in IntervalType /\ Sound(y)
  BY <1>2, PiecesTyped
<1>4. memrefs[m].tier = k /\ memrefs[m].offset = y.offset
  BY <1>1 DEF Ready, Neat, NeatPlaces, Marked
<1>5. memrefs[m].buf = y.id.buf
  BY <1>1, <1>2 DEF Ready, Labelled
<1>6. d.at = y.start
  BY <1>2 DEF Ready, Neat, NeatCode, DefsDated
<1>7. y.start < y.end
  BY DEF Ready, Neat, NeatPlaces, Lives
<1>8. QED BY <1>3, <1>4, <1>5, <1>6, <1>7 DEF Holder

(* A memref that was defined and is needed yet has a place, which is its    *)
(* own, or is just being given up by the copy that needs it.                *)
LEMMA WantedLive ==
  ASSUME ScanInv, CodeInv, Ready, NEW m \in DOMAIN memrefs, NEW d \in Range(code), NEW u \in Range(code),
         Defines(d, m), Needs(u, m), NEW t \in Int, d.at <= t, t <= u.at
  PROVE  \E k \in Tiers : \E y : Holder(m, k, y, t) /\ (t < y.end \/ (y.mem = m /\ Leaves(u, m, t)))
<1>1. PICK b \in Bufs(prog) : b = memrefs[m].buf
  BY MemrefAt
<1>2. HomeOf(prog, b) \in Nat
  BY <1>1, HomeTyped DEF ScanInv
<1>3. u.at \in Int
  <2>1. Times(prog) \subseteq Nat
    <3>1. Times(prog) = 1 .. Len(prog.ops) /\ Len(prog.ops) \in Nat
      BY FunctionTyped DEF ScanInv
    <3>2. QED BY <3>1
  <2>2. IF IsCopy(u) THEN CopyOk(u, memrefs) ELSE OperationOk(u, memrefs)
    BY DEF Ready, Shaped, Shapes
  <2>3. CASE IsCopy(u)
    BY <2>1, <2>2, <2>3 DEF CopyOk
  <2>4. CASE ~ IsCopy(u)
    <3>1. u.at = u.time /\ u.time \in Times(prog)
      BY <2>2, <2>4 DEF OperationOk
    <3>2. QED BY <2>1, <3>1
  <2>5. QED BY <2>3, <2>4
<1>4. ~ IsCopy(u) => u.kind = "exec" /\ u \in Execs(code) /\ m \in Touched(u) /\ u.at = u.time
  <2>1. ~ IsCopy(u) => u.kind = "exec" /\ m \in Touched(u)
    BY DEF Needs
  <2>2. ~ IsCopy(u) => u.at = u.time
    BY DEF Ready, Shaped, Shapes, OperationOk
  <2>3. QED BY <2>1, <2>2 DEF Execs
<1>5. IsCopy(u) => m \in u.reads /\ \E g \in u.writes : CopyFits(u, m, g) /\ memrefs[g].buf = b
  <2>1. SUFFICES ASSUME IsCopy(u) PROVE m \in u.reads /\ \E g \in u.writes : CopyFits(u, m, g) /\ memrefs[g].buf = b
    OBVIOUS
  <2>2. m \in u.reads
    BY <2>1 DEF Needs
  <2>3. PICK f \in 1 .. Len(memrefs), g \in 1 .. Len(memrefs) :
          u.reads = {f} /\ u.writes = {g} /\ memrefs[f].buf = memrefs[g].buf
    BY <2>1 DEF Ready, Shaped, Shapes, CopyOk
  <2>4. f = m /\ g \in u.writes
    BY <2>2, <2>3
  <2>5. CopyFits(u, m, g)
    BY <2>1, <2>2, <2>4 DEF Ready, Neat, NeatCode, CopiesFit
  <2>6. QED BY <1>1, <2>2, <2>3, <2>4, <2>5
<1>6. CASE HomeOf(prog, b) = 0
  <2>1. CASE ~ IsCopy(u)
    <3>1. \E y \in Pieces(0) : y.mem = m /\ u.time \in y.uses
      BY <1>1, <1>4, <1>6, <2>1 DEF Ready, UseCovered, Orderly
    <3>2. PICK y : y \in Pieces(0) /\ y.mem = m /\ u.time \in y.uses
      BY <3>1
    <3>3. 0 \in Tiers /\ y \in Range(placed[0])
      BY <3>2, TargetTyped DEF ScanInv, Ready
    <3>4. Holder(m, 0, y, t) /\ y \in IntervalType /\ Sound(y)
      BY <3>2, <3>3, PieceHolds
    <3>5. u.at < y.end
      BY <1>4, <2>1, <3>2, <3>4 DEF Sound
    <3>6. t < y.end
      BY <1>3, <3>4, <3>5 DEF IntervalType
    <3>7. QED BY <3>3, <3>4, <3>6
  <2>2. CASE IsCopy(u)
    <3>1. PICK g \in u.writes : CopyFits(u, m, g) /\ memrefs[g].buf = b
      BY <1>5, <2>2
    <3>2. OutFits(u, m, g) \/ BackFits(u, m, g)
      BY <1>6, <3>1 DEF CopyFits
    <3>3. \E k \in Tiers : \E y \in Range(placed[k]) : y.mem = m /\ y.end = u.at
      <4>1. CASE OutFits(u, m, g)
        <5>1. 0 \in Tiers
          BY TargetTyped DEF ScanInv
        <5>2. PICK y \in Range(placed[0]) : y.mem = m
          BY <4>1 DEF OutFits
        <5>3. y \in Pieces(0)
          BY <5>1, <5>2 DEF Ready
        <5>4. y.end = u.at
          BY <4>1, <5>1, <5>2, <5>3 DEF OutFits
        <5>5. QED BY <5>1, <5>2, <5>4
      <4>2. CASE BackFits(u, m, g)
        <5>1. 1 \in Tiers /\ \E y \in Pieces(1) : y.mem = m
          BY <4>2 DEF BackFits
        <5>2. PICK y : y \in Pieces(1) /\ y.mem = m
          BY <5>1
        <5>3. y \in Range(placed[1])
          BY <5>1, <5>2 DEF Ready
        <5>4. y.end = u.at
          BY <4>2, <5>1, <5>2 DEF BackFits
        <5>5. QED BY <5>1, <5>2, <5>3, <5>4
      <4>3. QED BY <3>2, <4>1, <4>2
    <3>4. PICK k \in Tiers : \E y \in Range(placed[k]) : y.mem = m /\ y.end = u.at
      BY <3>3
    <3>5. PICK y \in Range(placed[k]) : y.mem = m /\ y.end = u.at
      BY <3>4
    <3>6. Holder(m, k, y, t)
      BY <3>5, PieceHolds
    <3>7. t < y.end \/ Leaves(u, m, t)
      <4>1. t < u.at \/ t = u.at
        BY <1>3
      <4>2. CASE t = u.at
        BY <1>1, <1>6, <2>2, <3>2, <4>2 DEF Leaves
      <4>3. QED BY <3>5, <4>1, <4>2
    <3>8. QED BY <3>5, <3>6, <3>7
  <2>3. QED BY <2>1, <2>2
<1>7. CASE HomeOf(prog, b) > 0 /\ m \in Bufs(prog)
  <2>1. b = m
    BY <1>1, <1>7 DEF Ready, Labelled
  <2>2. IsCopy(u)
    <3>1. ~ IsCopy(u) => ToStage(u, m) \/ StageAt(m, u.time)
      BY <1>1, <1>4, <1>7 DEF Ready, Neat, NeatCode, StagesUsed
    <3>2. QED BY <1>7, <3>1 DEF Ready, ToStage, StageAt
  <2>3. u.at \in UsesOf(prog, m)
    <3>1. PICK g \in u.writes : CopyFits(u, m, g) /\ memrefs[g].buf = b
      BY <1>5, <2>2
    <3>2. StageFits(u, m, g)
      BY <1>7, <3>1 DEF CopyFits
    <3>3. QED BY <2>1, <3>1, <3>2 DEF StageFits
  <2>4. PICK iv : iv = BufInterval(prog, m)
    OBVIOUS
  <2>5. iv \in Intervals(prog) /\ iv.home = HomeOf(prog, m) /\ iv.mem = m /\ iv.end = EndOf(prog, m)
    BY <1>7, <2>4 DEF Intervals, BufInterval
  <2>6. PICK k : k = EntryTier(prog, iv) /\ \E y \in Pieces(k) : SamePiece(y, iv)
    BY <1>7, <2>1, <2>5 DEF Ready, Neat, NeatPlaces, Kept
  <2>7. k \in Tiers
    <3>1. iv.home \in Nat
      BY <1>2, <2>1, <2>5
    <3>2. Bottom \in Nat /\ Tiers = 0 .. Bottom
      BY TargetTyped DEF ScanInv
    <3>3. k = IF iv.home > Bottom THEN Bottom ELSE iv.home
      BY <2>6 DEF EntryTier, Bottom, Tiers
    <3>4. QED BY <3>1, <3>2, <3>3
  <2>8. PICK y : y \in Pieces(k) /\ SamePiece(y, iv)
    BY <2>6
  <2>9. y \in Range(placed[k]) /\ y.mem = m /\ y.end = EndOf(prog, m)
    BY <2>5, <2>7, <2>8 DEF Ready, SamePiece
  <2>10. Holder(m, k, y, t)
    BY <2>7, <2>9, PieceHolds
  <2>11. t < y.end
    <3>1. EndOf(prog, m) \in Nat /\ u.at < EndOf(prog, m)
      BY <1>7, <2>3, EndsLast DEF ScanInv, UsesOf
    <3>2. QED BY <1>3, <2>9, <3>1
  <2>12. QED BY <2>7, <2>10, <2>11
<1>8. CASE HomeOf(prog, b) > 0 /\ m \notin Bufs(prog)
  <2>1. StageAt(m, u.at)
    <3>1. CASE ~ IsCopy(u)
      <4>1. ToStage(u, m) \/ StageAt(m, u.time)
        BY <1>1, <1>4, <1>8, <3>1 DEF Ready, Neat, NeatCode, StagesUsed
      <4>2. QED BY <1>4, <1>8, <3>1, <4>1 DEF ToStage
    <3>2. CASE IsCopy(u)
      <4>1. PICK g \in u.writes : CopyFits(u, m, g) /\ memrefs[g].buf = b
        BY <1>5, <3>2
      <4>2. StageFits(u, m, g)
        BY <1>8, <4>1 DEF CopyFits
      <4>3. QED BY <1>8, <4>2 DEF StageFits
    <3>3. QED BY <3>1, <3>2
  <2>2. d.at = u.at
    BY <1>1, <1>8 DEF Ready, Neat, NeatCode, DefsFirst
  <2>3. t = u.at
    BY <1>3, <2>2
  <2>4. StageAt(m, t)
    BY <2>1, <2>3
  <2>5. QED BY <2>4, StageHolds
<1>9. QED BY <1>2, <1>6, <1>7, <1>8

-----------------------------------------------------------------------------
(* What is defined before p is not defined again, and some of it is needed  *)
(* from p on.                                                               *)
Filled(m, p) == \A i \in DOMAIN code : i >= p => ~ Defines(code[i], m)
Wanted(m, p) == \E i \in DOMAIN code : i >= p /\ Needs(code[i], m)

(* The operation of the function that comes next. *)
At(p) == IF p \in DOMAIN code THEN code[p].at ELSE Len(prog.ops) + 1

LEMMA CodeAt ==
  ASSUME ScanInv, CodeInv, Ready, NEW i \in DOMAIN code
  PROVE  /\ DOMAIN code = 1 .. Len(code) /\ Len(code) \in Nat /\ code \in Seq(CodeType) /\ i \in Nat
         /\ code[i] \in Range(code) /\ code[i].at \in Times(prog) /\ code[i].at \in Nat
         /\ (~ IsCopy(code[i]) => OperationOk(code[i], memrefs)) /\ (IsCopy(code[i]) => CopyOk(code[i], memrefs))
         /\ \A j \in DOMAIN code : i < j => Before(code[i], code[j]) /\ code[i].at <= code[j].at
<1>1. PICK c \in Seq(CodeType) : c = code
  BY DEF CodeInv, CodeOk
<1>2. DOMAIN c = 1 .. Len(c) /\ Len(c) \in Nat
  BY <1>1
<1>3. \A j \in DOMAIN code : /\ code[j] \in Range(code)
                             /\ (~ IsCopy(code[j]) => OperationOk(code[j], memrefs))
                             /\ (IsCopy(code[j]) => CopyOk(code[j], memrefs))
  <2>1. \A j \in DOMAIN code : code[j] \in Range(code)
    BY InRange
  <2>2. QED BY <2>1 DEF Ready, Shaped, Shapes
<1>4. \A j \in DOMAIN code : code[j].at \in Times(prog) /\ code[j].at \in Nat
  BY <1>3, FunctionTyped DEF OperationOk, CopyOk, ScanInv
<1>5. \A j \in DOMAIN code : i < j => Before(code[i], code[j])
  BY <1>1, <1>2 DEF Ready, Neat, NeatCode, Sorted
<1>6. \A j \in DOMAIN code : i < j => code[i].at <= code[j].at
  BY <1>4, <1>5 DEF Before
<1>7. QED BY <1>1, <1>2, <1>3, <1>4, <1>5, <1>6

(* What is defined before p was defined by an operation there. *)
LEMMA FilledBefore ==
  ASSUME ScanInv, CodeInv, Ready, NEW m \in DOMAIN memrefs, NEW p \in Nat, Filled(m, p)
  PROVE  \E j \in DOMAIN code : j < p /\ Defines(code[j], m)
<1>1. m \in 1 .. Len(memrefs)
  BY MemrefAt
<1>2. PICK d \in Range(code) : Defines(d, m)
  BY <1>1 DEF CodeInv, CodeOk, Defines
<1>3. PICK j \in DOMAIN code : code[j] = d
  BY InRange
<1>4. j \in Nat /\ ~ (j >= p)
  BY <1>2, <1>3, CodeAt DEF Filled
<1>5. QED BY <1>2, <1>3, <1>4

(* What an operation needs was defined before it. *)
LEMMA NeededFilled ==
  ASSUME ScanInv, CodeInv, Ready, NEW p \in DOMAIN code, NEW m \in DOMAIN memrefs, Needs(code[p], m)
  PROVE  Filled(m, p)
<1>1. SUFFICES ASSUME NEW i \in DOMAIN code, i >= p, Defines(code[i], m) PROVE FALSE
  BY DEF Filled
<1>2. PICK x \in Range(code), d \in Range(code) : x = code[p] /\ d = code[i]
  BY CodeAt
<1>3. Before(d, x)
  BY <1>1, <1>2 DEF Ready, Neat, NeatCode, DefsFirst
<1>4. x.at \in Nat /\ d.at \in Nat /\ i \in Nat /\ p \in Nat
  BY <1>2, CodeAt
<1>5. i # p
  <2>1. SUFFICES ASSUME i = p PROVE FALSE
    OBVIOUS
  <2>2. IsCopy(x)
    BY <1>2, <1>3, <1>4, <2>1 DEF Before
  <2>3. PICK f \in Nat, g \in Nat : x.reads = {f} /\ x.writes = {g} /\ f < g
    BY <1>2, <2>2, CodeAt, MemrefAt DEF CopyOk
  <2>4. m = f
    BY <1>2, <2>2, <2>3 DEF Needs
  <2>5. m = g
    BY <1>1, <1>2, <2>1, <2>3 DEF Defines
  <2>6. QED BY <2>3, <2>4, <2>5
<1>6. Before(x, d)
  BY <1>1, <1>2, <1>4, <1>5, CodeAt
<1>7. x.at = d.at /\ IsCopy(x) /\ IsCopy(d)
  BY <1>3, <1>4, <1>6 DEF Before
<1>8. PICK g \in Nat : x.writes = {g}
  BY <1>2, <1>7, CodeAt, MemrefAt DEF CopyOk
<1>9. PICK h \in Nat : d.writes = {h}
  BY <1>2, <1>7, CodeAt, MemrefAt DEF CopyOk
<1>10. g < h /\ h < g
  BY <1>3, <1>4, <1>6, <1>7, <1>8, <1>9 DEF Before
<1>11. QED BY <1>8, <1>9, <1>10

(* What is placed of a memref, and defined there. *)
LEMMA LocatedHolds ==
  ASSUME ScanInv, CodeInv, Ready, NEW g \in DOMAIN memrefs, NEW x \in Range(code), Defines(x, g),
         NEW k \in Tiers, NEW y \in Range(placed[k]), y.mem = g, x.at \in Int
  PROVE  Holder(g, k, y, x.at) /\ x.at < y.end
<1>1. Holder(g, k, y, x.at) /\ y.start = x.at /\ y \in IntervalType /\ y.start < y.end
  <2>1. x.at <= x.at
    OBVIOUS
  <2>2. QED BY <2>1, PieceHolds
<1>2. QED BY <1>1

(* What is written has a place, which is its own. *)
LEMMA WrittenLive ==
  ASSUME ScanInv, CodeInv, Ready, NEW p \in DOMAIN code, NEW x, x = code[p], x.kind # "alloc", NEW g \in x.writes,
         x.kind = "exec" \/ memrefs[g].tier # -1
  PROVE  /\ g \in DOMAIN memrefs
         /\ \E k \in Tiers : \E y : Holder(g, k, y, x.at) /\ x.at < y.end /\ (y.mem = g \/ IsCopy(x))
<1>1. x \in Range(code) /\ x.at \in Times(prog) /\ x.at \in Nat /\ p \in Nat
  BY CodeAt
<1>2. g \in DOMAIN memrefs
  <2>1. g \in 1 .. Len(memrefs) /\ Len(memrefs) \in Nat
    BY <1>1, TouchedTyped DEF Touched
  <2>2. PICK s \in Seq(MemrefType) : s = memrefs
    BY DEF ScanInv, MemrefsTyped
  <2>3. DOMAIN s = 1 .. Len(s)
    BY <2>2
  <2>4. QED BY <2>1, <2>2, <2>3
<1>3. PICK b \in Bufs(prog) : b = memrefs[g].buf
  BY <1>2, MemrefAt
<1>4. HomeOf(prog, b) \in Nat
  BY <1>3, HomeTyped DEF ScanInv
<1>5. CASE x.kind = "exec"
  <2>1. ~ IsCopy(x)
    BY <1>5 DEF IsCopy
  <2>2. x.time = x.at /\ prog.ops[x.time].kind = "exec" /\ b \in prog.ops[x.time].writes
    BY <1>3, <1>5, <2>1, CodeAt DEF OperationOk
  <2>3. x.time \in UsesOf(prog, b)
    BY <1>1, <2>2 DEF UsesOf, Touched
  <2>4. HomeOf(prog, b) = 0
    BY <1>4, <2>2, <2>3 DEF Ready, Orderly, ResidentsAreConstants
  <2>5. x \in Execs(code) /\ g \in Touched(x)
    BY <1>1, <1>5 DEF Execs, Touched
  <2>6. \E y \in Pieces(0) : y.mem = g /\ x.time \in y.uses
    BY <1>3, <2>4, <2>5 DEF Ready, UseCovered, Orderly
  <2>7. PICK y : y \in Pieces(0) /\ y.mem = g /\ x.time \in y.uses
    BY <2>6
  <2>8. 0 \in Tiers /\ y \in Range(placed[0])
    BY <2>7, TargetTyped DEF ScanInv, Ready
  <2>9. g \in 1 .. Len(memrefs)
    BY <1>2, MemrefAt
  <2>10. PICK d \in Range(code) : Defines(d, g)
    BY <2>9 DEF CodeInv, CodeOk, Defines
  <2>11. d.at <= x.at
    <3>1. Needs(x, g)
      BY <1>5, <2>1, <2>5 DEF Needs
    <3>2. Before(d, x)
      BY <1>1, <1>2, <2>10, <3>1 DEF Ready, Neat, NeatCode, DefsFirst
    <3>3. PICK j \in DOMAIN code : code[j] = d
      BY InRange
    <3>4. d.at \in Nat
      BY <3>3, CodeAt
    <3>5. QED BY <1>1, <3>2, <3>4 DEF Before
  <2>12. Holder(g, 0, y, x.at) /\ Sound(y)
    BY <1>1, <1>2, <2>7, <2>8, <2>10, <2>11, PieceHolds
  <2>13. x.at < y.end
    BY <2>2, <2>7, <2>12 DEF Sound
  <2>14. QED BY <1>2, <2>7, <2>8, <2>12, <2>13
<1>6. CASE x.kind # "exec" /\ \E k \in Tiers : \E y \in Range(placed[k]) : y.mem = g
  <2>1. Defines(x, g)
    BY <1>6 DEF Defines
  <2>2. PICK k \in Tiers : \E y \in Range(placed[k]) : y.mem = g
    BY <1>6
  <2>3. PICK y \in Range(placed[k]) : y.mem = g
    BY <2>2
  <2>4. Holder(g, k, y, x.at) /\ x.at < y.end
    BY <1>1, <1>2, <2>1, <2>3, LocatedHolds
  <2>5. QED BY <1>2, <2>3, <2>4
<1>7. CASE x.kind # "exec" /\ HomeOf(prog, b) > 0 /\ g \notin Bufs(prog)
  <2>1. IsCopy(x)
    <3>1. SUFFICES ASSUME ~ IsCopy(x) PROVE FALSE
      OBVIOUS
    <3>2. x.writes = prog.ops[x.time].writes /\ x.time \in Times(prog)
      BY <1>7, <3>1, CodeAt DEF OperationOk
    <3>3. x.writes \subseteq Bufs(prog)
      BY <3>2, FunctionTyped DEF ScanInv, Touched
    <3>4. QED BY <1>7, <3>3
  <2>2. PICK f \in x.reads : TRUE
    BY <2>1, CodeAt DEF CopyOk
  <2>3. CopyFits(x, f, g)
    BY <1>1, <2>1, <2>2 DEF Ready, Neat, NeatCode, CopiesFit
  <2>4. StageAt(g, x.at)
    BY <1>3, <1>4, <1>7, <2>3 DEF CopyFits, StageFits
  <2>5. \E k \in Tiers : \E y : Holder(g, k, y, x.at) /\ y.start = x.at /\ x.at < y.end
    BY <1>1, <1>2, <2>4, StageHolds
  <2>6. QED BY <1>2, <2>1, <2>5
<1>8. CASE x.kind # "exec"
  <2>1. memrefs[g].tier # -1
    BY <1>8
  <2>2. \/ memrefs[g].tier \in Tiers /\ \E y \in Range(placed[memrefs[g].tier]) : y.mem = g
        \/ HomeOf(prog, b) > 0 /\ g \notin Bufs(prog)
    BY <1>2, <1>3, <2>1 DEF Ready, Neat, NeatPlaces, Located
  <2>3. PICK k : k = memrefs[g].tier
    OBVIOUS
  <2>4. \/ k \in Tiers /\ \E y \in Range(placed[k]) : y.mem = g
        \/ HomeOf(prog, b) > 0 /\ g \notin Bufs(prog)
    BY <2>2, <2>3
  <2>5. QED BY <1>6, <1>7, <1>8, <2>4
<1>9. QED BY <1>5, <1>8

-----------------------------------------------------------------------------
(* Two memrefs that live at one time have no cell in common, or are the     *)
(* same stage.                                                              *)
Disjoint(m, g) == Cells(m) \cap Cells(g) = {}

LEMMA CellsOf ==
  ASSUME ScanInv, NEW m \in DOMAIN memrefs
  PROVE  \A c : c \in Cells(m) <=>
           memrefs[m].tier # -1 /\ \E i \in 0 .. prog.size[memrefs[m].buf] - 1 :
                                     c = <<memrefs[m].tier, memrefs[m].offset + i>>
  BY DEF Cells

LEMMA TiersDisjoint ==
  ASSUME ScanInv, NEW m \in DOMAIN memrefs, NEW g \in DOMAIN memrefs, memrefs[m].tier # memrefs[g].tier
  PROVE  Disjoint(m, g)
<1>1. SUFFICES ASSUME NEW c, c \in Cells(m), c \in Cells(g) PROVE FALSE
  BY DEF Disjoint
<1>2. PICK i : c = <<memrefs[m].tier, memrefs[m].offset + i>>
  BY <1>1, CellsOf
<1>3. PICK j : c = <<memrefs[g].tier, memrefs[g].offset + j>>
  BY <1>1, CellsOf
<1>4. QED BY <1>2, <1>3

LEMMA NowhereDisjoint ==
  ASSUME NEW m, NEW g, memrefs[g].tier = -1
  PROVE  Disjoint(m, g)
  BY DEF Disjoint, Cells

LEMMA HolderSize ==
  ASSUME ScanInv, Ready, NEW m \in DOMAIN memrefs, NEW k \in Tiers, NEW y, NEW t, Holder(m, k, y, t)
  PROVE  /\ y \in IntervalType /\ y.size = prog.size[memrefs[m].buf] /\ y \in Pieces(k) /\ y \in Range(placed[k])
         /\ memrefs[m].tier = k /\ memrefs[m].offset = y.offset /\ y.start <= t
<1>1. y \in Range(placed[k]) /\ memrefs[m].tier = k /\ memrefs[m].offset = y.offset /\ memrefs[m].buf = y.id.buf
      /\ y.start <= t
  BY DEF Holder
<1>2. y \in Pieces(k)
  BY <1>1 DEF Ready
<1>3. y \in IntervalType /\ Sound(y)
  BY <1>2, PiecesTyped
<1>4. QED BY <1>1, <1>2, <1>3 DEF Sound

LEMMA HoldersApart ==
  ASSUME ScanInv, GuardInv, Ready, NEW m \in DOMAIN memrefs, NEW g \in DOMAIN memrefs, NEW k \in Tiers, NEW y, NEW z,
         NEW t \in Int, Holder(m, k, y, t), Holder(g, k, z, t), t < y.end, t < z.end
  PROVE  y = z \/ Disjoint(m, g)
<1>1. /\ y \in IntervalType /\ y.size = prog.size[memrefs[m].buf] /\ y \in Range(placed[k])
      /\ memrefs[m].tier = k /\ memrefs[m].offset = y.offset /\ y.start <= t
  BY HolderSize
<1>2. /\ z \in IntervalType /\ z.size = prog.size[memrefs[g].buf] /\ z \in Range(placed[k])
      /\ memrefs[g].tier = k /\ memrefs[g].offset = z.offset /\ z.start <= t
  BY HolderSize
<1>3. PICK i \in DOMAIN placed[k], j \in DOMAIN placed[k] : placed[k][i] = y /\ placed[k][j] = z
  BY <1>1, <1>2, InRange
<1>4. prog.guard \in Nat
  BY FunctionTyped DEF ScanInv
<1>5. Clear(k)
  BY DEF Ready, Orderly, GuardInv
<1>6. i \in Nat /\ j \in Nat
  <2>1. PICK q \in Seq(IntervalType) : q = placed[k]
    BY DEF ScanInv, QueuesTyped
  <2>2. DOMAIN q = 1 .. Len(q) /\ Len(q) \in Nat
    BY <2>1
  <2>3. QED BY <2>1, <2>2
<1>7. /\ y.offset \in Int /\ z.offset \in Int /\ y.size \in Nat /\ z.size \in Nat
      /\ y.start \in Int /\ y.end \in Int /\ z.start \in Int /\ z.end \in Int
  BY <1>1, <1>2 DEF IntervalType
<1>8. i # j => y.offset + y.size <= z.offset \/ z.offset + z.size <= y.offset
  <2>1. ~ (y.end + prog.guard <= z.start) /\ ~ (z.end + prog.guard <= y.start)
    BY <1>1, <1>2, <1>4, <1>7
  <2>2. i < j => Apart(y, z, z.offset)
    BY <1>3, <1>5, <2>1 DEF Clear
  <2>3. j < i => Apart(z, y, y.offset)
    BY <1>3, <1>5, <2>1 DEF Clear
  <2>4. QED BY <1>6, <2>2, <2>3 DEF Apart
<1>9. CASE i = j
  BY <1>3, <1>9
<1>10. CASE i # j
  <2>1. SUFFICES ASSUME NEW c, c \in Cells(m), c \in Cells(g) PROVE FALSE
    BY DEF Disjoint
  <2>2. PICK a \in 0 .. y.size - 1 : c = <<k, y.offset + a>>
    BY <1>1, <2>1, CellsOf
  <2>3. PICK b \in 0 .. z.size - 1 : c = <<k, z.offset + b>>
    BY <1>2, <2>1, CellsOf
  <2>4. y.offset + a = z.offset + b
    BY <2>2, <2>3
  <2>5. a \in Int /\ b \in Int /\ 0 <= a /\ a < y.size /\ 0 <= b /\ b < z.size
    BY <1>7
  <2>6. QED BY <1>7, <1>8, <1>10, <2>4, <2>5
<1>11. QED BY <1>9, <1>10

(* Cells are cells of the memories. *)
Mapped == \A k \in Tiers : \A o \in 0 .. prog.caps[k] - 1 : <<k, o>> \in DOMAIN mem

LEMMA CellsMapped ==
  ASSUME ScanInv, Ready, Mapped, NEW m \in DOMAIN memrefs, NEW k \in Tiers, NEW y, NEW t, Holder(m, k, y, t)
  PROVE  Cells(m) \subseteq DOMAIN mem
<1>1. SUFFICES ASSUME NEW c \in Cells(m) PROVE c \in DOMAIN mem
  OBVIOUS
<1>2. /\ y \in IntervalType /\ y.size = prog.size[memrefs[m].buf] /\ y \in Range(placed[k])
      /\ memrefs[m].tier = k /\ memrefs[m].offset = y.offset
  BY HolderSize
<1>3. PICK i \in 0 .. y.size - 1 : c = <<k, y.offset + i>>
  BY <1>2, CellsOf
<1>4. 0 <= y.offset /\ y.offset + y.size <= prog.caps[k]
  BY <1>2 DEF Ready, Seated
<1>5. y.offset \in Int /\ y.size \in Nat
  BY <1>2 DEF IntervalType
<1>6. prog.caps[k] \in Nat
  BY CapsTyped DEF ScanInv
<1>7. y.offset + i \in 0 .. prog.caps[k] - 1
  BY <1>4, <1>5, <1>6
<1>8. QED BY <1>3, <1>7 DEF Mapped

(* What the next operation writes is apart from what was written and is     *)
(* needed yet, or is the same stage.                                        *)
SameStage(x, m, g) ==
  /\ IsCopy(x) /\ memrefs[m].buf = memrefs[g].buf
  /\ memrefs[m].tier = memrefs[g].tier /\ memrefs[m].offset = memrefs[g].offset

LEMMA WantedHolder ==
  ASSUME ScanInv, CodeInv, Ready, NEW p \in DOMAIN code, NEW m \in DOMAIN memrefs, Filled(m, p + 1), Wanted(m, p)
  PROVE  \E i \in DOMAIN code : i >= p /\ Needs(code[i], m) /\
           \E k \in Tiers : \E y :
             /\ Holder(m, k, y, code[p].at)
             /\ code[p].at < y.end \/ (y.mem = m /\ Leaves(code[i], m, code[p].at))
<1>1. p \in Nat
  BY CodeAt
<1>2. PICK i \in DOMAIN code : i >= p /\ Needs(code[i], m)
  BY DEF Wanted
<1>3. PICK j \in DOMAIN code : j < p + 1 /\ Defines(code[j], m)
  BY <1>1, FilledBefore
<1>4. PICK d \in Range(code), u \in Range(code), x \in Range(code) : d = code[j] /\ u = code[i] /\ x = code[p]
  BY CodeAt
<1>5. i \in Nat /\ j \in Nat /\ d.at \in Nat /\ x.at \in Nat /\ u.at \in Nat
  BY <1>4, CodeAt
<1>6. d.at <= x.at
  BY <1>1, <1>3, <1>4, <1>5, CodeAt
<1>7. x.at <= u.at
  BY <1>1, <1>2, <1>4, <1>5, CodeAt
<1>8. Defines(d, m) /\ Needs(u, m) /\ x.at \in Int
  BY <1>2, <1>3, <1>4, <1>5
<1>9. \E k \in Tiers : \E y : Holder(m, k, y, x.at) /\ (x.at < y.end \/ (y.mem = m /\ Leaves(u, m, x.at)))
  BY <1>6, <1>7, <1>8, WantedLive
<1>10. QED BY <1>2, <1>4, <1>9

(* What is about to be given up is in another tier than what is written.    *)
LEMMA LeavesApart ==
  ASSUME ScanInv, CodeInv, Ready, NEW p \in DOMAIN code, NEW i \in DOMAIN code, i >= p, NEW x, x = code[p],
         NEW u, u = code[i], NEW m \in DOMAIN memrefs, NEW g \in DOMAIN memrefs, g \in x.writes, Needs(u, m),
         NEW k \in Tiers, NEW y, Holder(m, k, y, x.at), y.mem = m, Leaves(u, m, x.at),
         NEW l \in Tiers, NEW z, Holder(g, l, z, x.at)
  PROVE  k # l
<1>1. y \in Pieces(k) /\ z \in Pieces(l)
  BY HolderSize
<1>2. IsCopy(u) /\ u.at = x.at /\ HomeOf(prog, memrefs[m].buf) = 0
  BY DEF Leaves
<1>3. PICK h \in u.writes : OutFits(u, m, h) \/ BackFits(u, m, h)
  BY DEF Leaves
<1>4. p \in Nat /\ i \in Nat /\ x.at \in Nat /\ x \in Range(code) /\ u \in Range(code)
  BY CodeAt
<1>5. i # p => Before(x, u)
  BY <1>4, CodeAt
<1>6. IsCopy(x)
  BY <1>2, <1>4, <1>5 DEF Before
<1>7. CopyOk(x, memrefs) /\ CopyOk(u, memrefs)
  BY <1>2, <1>6, CodeAt
<1>8. PICK f : x.reads = {f} /\ x.writes = {g}
  BY <1>7 DEF CopyOk
<1>9. u.writes = {h} /\ h \notin Bufs(prog) /\ memrefs[h].buf = memrefs[m].buf /\ h \in DOMAIN memrefs /\ h \in Nat
  <2>1. PICK e \in 1 .. Len(memrefs), n \in 1 .. Len(memrefs) :
          u.reads = {e} /\ u.writes = {n} /\ n \notin Bufs(prog) /\ memrefs[e].buf = memrefs[n].buf
    BY <1>7 DEF CopyOk
  <2>2. m \in u.reads
    BY <1>2 DEF Needs
  <2>3. n = h /\ e = m
    BY <2>1, <2>2
  <2>4. h \in DOMAIN memrefs /\ h \in Nat
    BY <2>1, <2>3, MemrefAt
  <2>5. QED BY <2>1, <2>3, <2>4
<1>10. CopyFits(x, f, g)
  BY <1>4, <1>6, <1>8 DEF Ready, Neat, NeatCode, CopiesFit
<1>11. HomeOf(prog, memrefs[g].buf) = 0 => z.mem = g
  BY DEF Holder
<1>12. HomeOf(prog, memrefs[g].buf) \in Nat
  BY MemrefAt, HomeTyped DEF ScanInv
<1>13. HomeOf(prog, memrefs[g].buf) # 0 => x.at \in ExecTimes /\ g \notin Bufs(prog)
  <2>1. SUFFICES ASSUME HomeOf(prog, memrefs[g].buf) # 0 PROVE x.at \in ExecTimes /\ g \notin Bufs(prog)
    OBVIOUS
  <2>2. StageFits(x, f, g)
    BY <1>10, <2>1 DEF CopyFits
  <2>3. x.at \in UsesOf(prog, memrefs[g].buf) /\ StageAt(g, x.at)
    BY <2>2 DEF StageFits
  <2>4. QED BY <2>3 DEF UsesOf, ExecTimes, StageAt
<1>14. CASE OutFits(u, m, h)
  <2>1. x.at \notin ExecTimes /\ k = 0
    BY <1>1, <1>2, <1>14 DEF OutFits
  <2>2. HomeOf(prog, memrefs[g].buf) = 0
    BY <1>13, <2>1
  <2>3. OutFits(x, f, g)
    BY <1>10, <2>1, <2>2 DEF CopyFits, BackFits
  <2>4. l = 1
    BY <1>1, <1>11, <2>2, <2>3 DEF OutFits
  <2>5. QED BY <2>1, <2>4
<1>15. CASE BackFits(u, m, h)
  <2>1. x.at \in ExecTimes /\ k = 1
    BY <1>1, <1>2, <1>15 DEF BackFits
  <2>2. CASE HomeOf(prog, memrefs[g].buf) = 0
    <3>1. BackFits(x, f, g)
      BY <1>10, <2>1, <2>2 DEF CopyFits, OutFits
    <3>2. l = 0
      BY <1>1, <1>11, <2>2, <3>1 DEF BackFits
    <3>3. QED BY <2>1, <3>2
  <2>3. CASE HomeOf(prog, memrefs[g].buf) # 0
    <3>1. g # h
      BY <1>2, <1>9, <2>3
    <3>2. i # p
      BY <1>8, <1>9, <3>1
    <3>3. g < h
      BY <1>2, <1>4, <1>5, <1>6, <1>8, <1>9, <3>2 DEF Before
    <3>4. HomeOf(prog, memrefs[h].buf) = 0 /\ HomeOf(prog, memrefs[g].buf) > 0 /\ g \notin Bufs(prog)
      BY <1>2, <1>9, <1>12, <1>13, <2>3
    <3>5. h < g
      BY <1>9, <3>4 DEF Ready, Neat, NeatPlaces, StagesLate
    <3>6. g \in Nat
      BY MemrefAt
    <3>7. QED BY <1>9, <3>3, <3>5, <3>6
  <2>4. QED BY <2>2, <2>3
<1>16. QED BY <1>3, <1>14, <1>15

LEMMA WrittenApart ==
  ASSUME ScanInv, GuardInv, CodeInv, Ready, NEW p \in DOMAIN code, NEW x, x = code[p], x.kind # "alloc",
         NEW g \in x.writes, NEW m \in DOMAIN memrefs, m # g, Filled(m, p + 1), Wanted(m, p)
  PROVE  g \in DOMAIN memrefs /\ (Disjoint(m, g) \/ SameStage(x, m, g))
<1>1. CASE x.kind # "exec" /\ memrefs[g].tier = -1
  <2>1. g \in DOMAIN memrefs
    <3>1. x \in Range(code)
      BY CodeAt
    <3>2. g \in 1 .. Len(memrefs)
      BY <3>1, TouchedTyped DEF Touched
    <3>3. QED BY <3>2, MemrefAt
  <2>2. QED BY <1>1, <2>1, NowhereDisjoint
<1>2. CASE x.kind = "exec" \/ memrefs[g].tier # -1
  <2>1. /\ g \in DOMAIN memrefs
        /\ \E l \in Tiers : \E z : Holder(g, l, z, x.at) /\ x.at < z.end /\ (z.mem = g \/ IsCopy(x))
    BY <1>2, WrittenLive
  <2>2. PICK l \in Tiers : \E z : Holder(g, l, z, x.at) /\ x.at < z.end /\ (z.mem = g \/ IsCopy(x))
    BY <2>1
  <2>3. PICK z : Holder(g, l, z, x.at) /\ x.at < z.end /\ (z.mem = g \/ IsCopy(x))
    BY <2>2
  <2>4. PICK i \in DOMAIN code :
          /\ i >= p /\ Needs(code[i], m)
          /\ \E k \in Tiers : \E y : /\ Holder(m, k, y, x.at)
                                     /\ x.at < y.end \/ (y.mem = m /\ Leaves(code[i], m, x.at))
    BY WantedHolder
  <2>5. PICK k \in Tiers : \E y : /\ Holder(m, k, y, x.at)
                                  /\ x.at < y.end \/ (y.mem = m /\ Leaves(code[i], m, x.at))
    BY <2>4
  <2>6. PICK y : /\ Holder(m, k, y, x.at)
                 /\ x.at < y.end \/ (y.mem = m /\ Leaves(code[i], m, x.at))
    BY <2>5
  <2>7. memrefs[m].tier = k /\ memrefs[g].tier = l
    BY <2>1, <2>3, <2>6, HolderSize
  <2>8. CASE k # l
    BY <2>1, <2>7, <2>8, TiersDisjoint
  <2>9. CASE k = l
    <3>1. x.at < y.end
      BY <2>1, <2>3, <2>4, <2>6, <2>9, LeavesApart
    <3>2. x.at \in Int
      BY CodeAt
    <3>3. Holder(g, k, z, x.at)
      BY <2>3, <2>9
    <3>4. y = z \/ Disjoint(m, g)
      BY <2>1, <2>3, <2>6, <3>1, <3>2, <3>3, HoldersApart
    <3>5. CASE y = z
      <4>1. m # NoMem /\ g # NoMem
        BY <2>1, MemrefAt
      <4>2. y.mem = m => z.mem # m
        BY <3>3, <4>1 DEF Holder
      <4>3. y.mem = NoMem
        BY <2>6, <3>5, <4>2 DEF Holder
      <4>4. IsCopy(x)
        BY <2>3, <3>5, <4>1, <4>3
      <4>5. memrefs[m].buf = y.id.buf /\ memrefs[g].buf = z.id.buf /\ memrefs[m].offset = y.offset
            /\ memrefs[g].offset = z.offset
        BY <2>3, <2>6 DEF Holder
      <4>6. SameStage(x, m, g)
        BY <2>7, <2>9, <3>5, <4>4, <4>5 DEF SameStage
      <4>7. QED BY <2>1, <4>6
    <3>6. QED BY <2>1, <3>4, <3>5
  <2>10. QED BY <2>8, <2>9
<1>3. QED BY <1>1, <1>2

-----------------------------------------------------------------------------
(* Where the run has got to in the function.                                *)
LEMMA TimeOf ==
  ASSUME ScanInv, CodeInv, Ready, NEW s \in Times(prog)
  PROVE  \E j \in DOMAIN code : ~ IsCopy(code[j]) /\ code[j].time = s /\ code[j].at = s
<1>1. PICK o \in Range(code) : o.time = s
  BY DEF CodeInv, CodeOk
<1>2. PICK j \in DOMAIN code : code[j] = o
  BY InRange
<1>3. s # 0
  BY FunctionTyped DEF ScanInv
<1>4. ~ IsCopy(o)
  BY <1>1, <1>2, <1>3, CodeAt DEF CopyOk
<1>5. o.at = s
  BY <1>1, <1>2, <1>4, CodeAt DEF OperationOk
<1>6. QED BY <1>1, <1>2, <1>4, <1>5

(* A copy comes before the operation it stands for.                         *)
LEMMA NextOfCopy ==
  ASSUME ScanInv, CodeInv, Ready, NEW p \in DOMAIN code, IsCopy(code[p])
  PROVE  p + 1 \in DOMAIN code /\ At(p + 1) = code[p].at /\ At(p) = code[p].at
<1>1. PICK x : x = code[p]
  OBVIOUS
<1>2. x.at \in Times(prog) /\ x.at \in Nat /\ p \in Nat /\ Len(code) \in Nat /\ DOMAIN code = 1 .. Len(code)
  BY <1>1, CodeAt
<1>3. PICK j \in DOMAIN code : ~ IsCopy(code[j]) /\ code[j].at = x.at
  BY <1>2, TimeOf
<1>4. j \in Nat /\ j # p
  BY <1>3, CodeAt
<1>5. ~ (j < p)
  <2>1. SUFFICES ASSUME j < p PROVE FALSE
    OBVIOUS
  <2>2. Before(code[j], x)
    BY <1>1, <2>1, CodeAt
  <2>3. QED BY <1>2, <1>3, <2>2 DEF Before
<1>6. p + 1 \in DOMAIN code
  BY <1>2, <1>3, <1>4, <1>5
<1>7. code[p + 1].at \in Nat /\ x.at <= code[p + 1].at
  BY <1>1, <1>2, <1>6, CodeAt
<1>8. code[p + 1].at <= x.at
  <2>1. PICK q \in DOMAIN code : q = p + 1
    BY <1>6
  <2>2. q = j \/ q < j
    BY <1>2, <1>4, <1>5, <2>1
  <2>3. q < j => code[q].at <= code[j].at
    BY CodeAt
  <2>4. code[q].at <= x.at
    BY <1>3, <1>7, <2>1, <2>2, <2>3
  <2>5. QED BY <2>1, <2>4
<1>9. code[p + 1].at = x.at
  BY <1>2, <1>7, <1>8
<1>10. QED BY <1>1, <1>6, <1>9 DEF At

(* After an operation the next one is that of the next number. *)
LEMMA NextOfOperation ==
  ASSUME ScanInv, CodeInv, Ready, NEW p \in DOMAIN code, ~ IsCopy(code[p])
  PROVE  \A s \in Times(prog) : s < At(p + 1) <=> s <= code[p].at
<1>1. PICK x : x = code[p]
  OBVIOUS
<1>2. /\ x.at \in Times(prog) /\ x.at \in Nat /\ p \in Nat /\ Len(code) \in Nat /\ DOMAIN code = 1 .. Len(code)
      /\ Times(prog) = 1 .. Len(prog.ops) /\ Len(prog.ops) \in Nat
  BY <1>1, CodeAt, FunctionTyped DEF ScanInv
<1>3. SUFFICES ASSUME NEW s \in Times(prog) PROVE s < At(p + 1) <=> s <= x.at
  BY <1>1
<1>4. x.at < At(p + 1) /\ At(p + 1) \in Nat
  <2>1. CASE p + 1 \in DOMAIN code
    <3>1. PICK q \in DOMAIN code : q = p + 1
      BY <2>1
    <3>2. code[q].at \in Nat /\ Before(x, code[q])
      BY <1>1, <1>2, <3>1, CodeAt
    <3>3. x.at < code[q].at
      BY <1>1, <3>2 DEF Before
    <3>4. QED BY <3>1, <3>2, <3>3 DEF At
  <2>2. CASE p + 1 \notin DOMAIN code
    BY <1>2, <2>2 DEF At
  <2>3. QED BY <2>1, <2>2
<1>5. PICK j \in DOMAIN code : ~ IsCopy(code[j]) /\ code[j].at = s
  BY TimeOf
<1>6. j \in Nat /\ s \in Nat
  BY <1>2, <1>5, CodeAt
<1>7. CASE j <= p
  <2>1. j < p => code[j].at <= x.at
    BY <1>1, CodeAt
  <2>2. j = p \/ j < p
    BY <1>2, <1>6, <1>7
  <2>3. s <= x.at
    BY <1>1, <1>2, <1>5, <2>1, <2>2
  <2>4. QED BY <1>2, <1>4, <1>6, <2>3
<1>8. CASE j > p
  <2>1. p + 1 \in DOMAIN code
    BY <1>2, <1>6, <1>8
  <2>2. PICK q \in DOMAIN code : q = p + 1
    BY <2>1
  <2>3. q = j \/ q < j
    BY <1>2, <1>6, <1>8, <2>2
  <2>4. q < j => code[q].at <= code[j].at
    BY CodeAt
  <2>5. code[q].at \in Nat
    BY CodeAt
  <2>6. code[q].at <= s
    BY <1>5, <1>6, <2>3, <2>4, <2>5
  <2>7. At(p + 1) <= s
    BY <2>2, <2>6 DEF At
  <2>8. QED BY <1>2, <1>4, <1>6, <2>7
<1>9. QED BY <1>2, <1>6, <1>7, <1>8

LEMMA WrittenNext ==
  ASSUME ScanInv, CodeInv, Ready, NEW p \in DOMAIN code, ~ IsCopy(code[p]), NEW t, t = code[p].at, NEW b
  PROVE  Written(b, At(p + 1)) =
           Written(b, t) \cup {s \in {t} : prog.ops[t].kind # "alloc" /\ b \in prog.ops[t].writes}
<1>1. t \in Times(prog) /\ t \in Nat /\ Times(prog) \subseteq Nat
  BY CodeAt, FunctionTyped DEF ScanInv
<1>2. \A s \in Times(prog) : s < At(p + 1) <=> s < t \/ s = t
  <2>1. \A s \in Times(prog) : s <= t <=> s < t \/ s = t
    BY <1>1
  <2>2. QED BY <2>1, NextOfOperation
<1>3. QED BY <1>1, <1>2 DEF Written

(* What was written last: the operation before t, or that at t. *)
LEMMA WrittenLast ==
  ASSUME ScanInv, NEW b, NEW t \in Times(prog)
  PROVE  Max(Written(b, t) \cup {t}) = t
<1>1. PICK n \in Nat : Times(prog) = 1 .. n
  BY FunctionTyped DEF ScanInv
<1>2. PICK S : S = Written(b, t) \cup {t}
  OBVIOUS
<1>3. S \in SUBSET (1 .. n) /\ t \in S /\ \A s \in S : s <= t
  BY <1>1, <1>2 DEF Written
<1>4. Max(S) \in S /\ \A s \in S : s <= Max(S)
  BY <1>1, <1>3, MaxIsGreatest
<1>5. Max(S) = t
  <2>1. PICK v : v = Max(S)
    OBVIOUS
  <2>2. v \in S /\ t <= v /\ v <= t
    BY <1>3, <1>4, <2>1
  <2>3. v \in 1 .. n /\ t \in 1 .. n
    BY <1>1, <1>3, <2>2
  <2>4. v = t
    BY <2>2, <2>3
  <2>5. QED BY <2>1, <2>4
<1>6. QED BY <1>2, <1>5

-----------------------------------------------------------------------------
(* What a memory w has of a memref before operation t, and what the memory  *)
(* has at p of all that was defined and is needed yet.                      *)
HoldsIn(w, m, t) ==
  LET b == memrefs[m].buf
  IN Written(b, t) # {} =>
       /\ memrefs[m].tier # -1
       /\ \A c \in Cells(m) : w[c] = <<b, Max(Written(b, t))>>

Ran(p) == \A m \in DOMAIN memrefs : Filled(m, p) /\ Wanted(m, p) => HoldsIn(mem, m, At(p))

(* What is needed yet has its place in the memories. *)
LEMMA WantedMapped ==
  ASSUME ScanInv, CodeInv, Ready, Mapped, NEW p \in DOMAIN code, NEW m \in DOMAIN memrefs, Filled(m, p + 1),
         Wanted(m, p + 1)
  PROVE  memrefs[m].tier # -1 /\ Cells(m) \subseteq DOMAIN mem /\ Wanted(m, p)
<1>1. Wanted(m, p)
  <2>1. PICK i \in DOMAIN code : i >= p + 1 /\ Needs(code[i], m)
    BY DEF Wanted
  <2>2. i \in Nat /\ p \in Nat
    BY CodeAt
  <2>3. i >= p
    BY <2>1, <2>2
  <2>4. QED BY <2>1, <2>3 DEF Wanted
<1>2. \E k \in Tiers : \E y : Holder(m, k, y, code[p].at)
  BY <1>1, WantedHolder
<1>3. PICK k \in Tiers : \E y : Holder(m, k, y, code[p].at)
  BY <1>2
<1>4. PICK y : Holder(m, k, y, code[p].at)
  BY <1>3
<1>5. Cells(m) \subseteq DOMAIN mem
  BY <1>4, CellsMapped
<1>6. memrefs[m].tier = k
  BY <1>4 DEF Holder
<1>7. k # -1
  BY TargetTyped DEF ScanInv
<1>8. QED BY <1>1, <1>5, <1>6, <1>7

LEMMA FilledNow ==
  ASSUME ScanInv, CodeInv, Ready, NEW p \in DOMAIN code, NEW m, Filled(m, p + 1), ~ Defines(code[p], m)
  PROVE  Filled(m, p)
<1>1. SUFFICES ASSUME NEW i \in DOMAIN code, i >= p PROVE ~ Defines(code[i], m)
  BY DEF Filled
<1>2. i \in Nat /\ p \in Nat
  BY CodeAt
<1>3. i = p \/ i >= p + 1
  BY <1>1, <1>2
<1>4. QED BY <1>3 DEF Filled

(* A copy moves what is there, from the cells of one to those of the other. *)
LEMMA CopiedAt ==
  ASSUME NEW x, IsCopy(x), NEW f, NEW g, x.reads = {f}, x.writes = {g}, NEW w, w = Executed(x), NEW c \in DOMAIN mem
  PROVE  /\ c \notin Cells(g) => w[c] = mem[c]
         /\ c \in Cells(g) /\ Cells(f) # {} => w[c] = mem[Shift(c, f, g)]
<1>1. x.kind = "copy"
  BY DEF IsCopy
<1>2. (CHOOSE m \in x.reads : TRUE) = f /\ (CHOOSE m \in x.writes : TRUE) = g
  OBVIOUS
<1>3. Executed(x) = [d \in DOMAIN mem |-> IF d \in Cells(g) /\ Cells(f) # {} THEN mem[Shift(d, f, g)] ELSE mem[d]]
  BY <1>1, <1>2 DEF Executed
<1>4. QED BY <1>3

LEMMA ShiftedInto ==
  ASSUME ScanInv, NEW f \in DOMAIN memrefs, NEW g \in DOMAIN memrefs, memrefs[f].buf = memrefs[g].buf,
         memrefs[f].tier # -1, NEW c \in Cells(g)
  PROVE  Shift(c, f, g) \in Cells(f)
<1>1. PICK i \in 0 .. prog.size[memrefs[g].buf] - 1 : c = <<memrefs[g].tier, memrefs[g].offset + i>>
  BY CellsOf
<1>2. memrefs[g].offset \in Int /\ i \in Int /\ prog.size[memrefs[g].buf] \in Nat
  BY MemrefAt
<1>3. c[2] - memrefs[g].offset = i
  <2>1. c[2] = memrefs[g].offset + i
    BY <1>1
  <2>2. QED BY <1>2, <2>1
<1>4. Shift(c, f, g) = <<memrefs[f].tier, memrefs[f].offset + i>>
  BY <1>3 DEF Shift
<1>5. QED BY <1>1, <1>4, CellsOf

LEMMA CopyRuns ==
  ASSUME ScanInv, GuardInv, CodeInv, Ready, Mapped, NEW p \in DOMAIN code, NEW x, x = code[p], IsCopy(x), Ran(p),
         NEW w, w = Executed(x), NEW m \in DOMAIN memrefs, Filled(m, p + 1), Wanted(m, p + 1)
  PROVE  HoldsIn(w, m, At(p + 1))
<1>1. PICK t : t = x.at
  OBVIOUS
<1>2. At(p + 1) = t /\ At(p) = t /\ p \in Nat
  BY <1>1, NextOfCopy, CodeAt
<1>3. PICK f \in DOMAIN memrefs, g \in DOMAIN memrefs :
        x.reads = {f} /\ x.writes = {g} /\ memrefs[f].buf = memrefs[g].buf
  BY CodeAt, MemrefAt DEF CopyOk
<1>4. memrefs[m].tier # -1 /\ Cells(m) \subseteq DOMAIN mem /\ Wanted(m, p)
  BY WantedMapped
<1>5. HoldsIn(mem, f, t)
  <2>1. Needs(x, f)
    BY <1>3 DEF Needs
  <2>2. Filled(f, p)
    BY <1>3, <2>1, NeededFilled
  <2>3. p >= p
    BY <1>2
  <2>4. Wanted(f, p)
    BY <2>1, <2>3 DEF Wanted
  <2>5. QED BY <1>2, <2>2, <2>4 DEF Ran
<1>6. ASSUME NEW b, b = memrefs[g].buf, Written(b, t) # {}, NEW c \in Cells(g), c \in DOMAIN mem
      PROVE  w[c] = <<b, Max(Written(b, t))>>
  <2>1. memrefs[f].tier # -1 /\ \A d \in Cells(f) : mem[d] = <<b, Max(Written(b, t))>>
    BY <1>3, <1>5, <1>6 DEF HoldsIn
  <2>2. Shift(c, f, g) \in Cells(f)
    BY <1>3, <1>6, <2>1, ShiftedInto
  <2>3. w[c] = mem[Shift(c, f, g)]
    BY <1>3, <1>6, <2>2, CopiedAt
  <2>4. QED BY <2>1, <2>2, <2>3
<1>7. SUFFICES ASSUME NEW b, b = memrefs[m].buf, Written(b, t) # {}, NEW c \in Cells(m)
               PROVE  w[c] = <<b, Max(Written(b, t))>>
  BY <1>2, <1>4 DEF HoldsIn
<1>8. c \in DOMAIN mem
  BY <1>4
<1>9. CASE m = g
  BY <1>6, <1>7, <1>8, <1>9
<1>10. CASE m # g /\ Disjoint(m, g)
  <2>1. c \notin Cells(g)
    BY <1>7, <1>10 DEF Disjoint
  <2>2. w[c] = mem[c]
    BY <1>3, <1>8, <2>1, CopiedAt
  <2>3. ~ Defines(x, m)
    BY <1>3, <1>10 DEF Defines
  <2>4. Filled(m, p)
    BY <2>3, FilledNow
  <2>5. HoldsIn(mem, m, t)
    BY <1>2, <1>4, <2>4 DEF Ran
  <2>6. QED BY <1>7, <2>2, <2>5 DEF HoldsIn
<1>11. CASE SameStage(x, m, g)
  <2>1. b = memrefs[g].buf /\ Cells(g) = Cells(m)
    BY <1>7, <1>11 DEF SameStage, Cells
  <2>2. QED BY <1>6, <1>7, <1>8, <2>1
<1>12. m # g => Disjoint(m, g) \/ SameStage(x, m, g)
  <2>1. SUFFICES ASSUME m # g PROVE Disjoint(m, g) \/ SameStage(x, m, g)
    OBVIOUS
  <2>2. x.kind # "alloc" /\ g \in x.writes
    BY <1>3 DEF IsCopy
  <2>3. QED BY <1>4, <2>1, <2>2, WrittenApart
<1>13. QED BY <1>9, <1>10, <1>11, <1>12

(* An operation of the function writes where its results are. *)
LEMMA ExecutedAt ==
  ASSUME NEW x, x.kind \in {"exec", "global"}, NEW w, w = Executed(x), NEW c \in DOMAIN mem
  PROVE  /\ (\A g \in x.writes : c \notin Cells(g)) => w[c] = mem[c]
         /\ \A m \in x.writes : c \in Cells(m) /\ (\A g \in x.writes : g # m => c \notin Cells(g))
              => w[c] = <<memrefs[m].buf, x.time>>
<1>1. x.kind # "copy"
  OBVIOUS
<1>2. Executed(x) = [d \in DOMAIN mem |->
                       LET hit == {m \in x.writes : d \in Cells(m)}
                       IN IF hit = {} THEN mem[d] ELSE <<memrefs[CHOOSE m \in hit : TRUE].buf, x.time>>]
  BY <1>1 DEF Executed
<1>3. PICK hit : hit = {m \in x.writes : c \in Cells(m)}
  OBVIOUS
<1>4. w[c] = IF hit = {} THEN mem[c] ELSE <<memrefs[CHOOSE m \in hit : TRUE].buf, x.time>>
  BY <1>2, <1>3
<1>5. (\A g \in x.writes : c \notin Cells(g)) => hit = {}
  BY <1>3
<1>6. ASSUME NEW m \in x.writes, c \in Cells(m), \A g \in x.writes : g # m => c \notin Cells(g)
      PROVE  w[c] = <<memrefs[m].buf, x.time>>
  <2>1. hit = {m}
    BY <1>3, <1>6
  <2>2. (CHOOSE n \in hit : TRUE) = m
    BY <2>1
  <2>3. QED BY <1>4, <2>1, <2>2
<1>7. QED BY <1>4, <1>5, <1>6

(* The definition of a buffer: nothing was written to it before.            *)
LEMMA DefiningTime ==
  ASSUME ScanInv, CodeInv, Ready, NEW p \in DOMAIN code, NEW x, x = code[p], x.kind \in {"alloc", "global"},
         NEW b \in x.writes
  PROVE  /\ b \in Bufs(prog) /\ x.writes = {b} /\ memrefs[b].buf = b /\ x.at = DefTime(prog, b)
         /\ Written(b, x.at) = {}
<1>1. ~ IsCopy(x)
  BY DEF IsCopy
<1>2. /\ x.time \in Times(prog) /\ x.at = x.time /\ x.kind = prog.ops[x.time].kind
      /\ x.writes = prog.ops[x.time].writes
  <2>1. OperationOk(x, memrefs)
    BY <1>1, CodeAt
  <2>2. QED BY <2>1 DEF OperationOk
<1>3. b \in Bufs(prog)
  BY <1>2, FunctionTyped DEF ScanInv, Touched
<1>4. PICK d \in Times(prog) :
        /\ prog.ops[d].writes = {b}
        /\ \A t \in Times(prog) :
             /\ b \in Touched(prog.ops[t]) => t >= d
             /\ b \in prog.ops[t].writes /\ prog.ops[t].kind \in {"alloc", "global"} => t = d
  BY <1>3, ProgramsAssumption DEF ScanInv, WellFormed
<1>5. x.time = d
  BY <1>2, <1>4
<1>6. DefTime(prog, b) = d
  BY <1>3, <1>4, DefinedFirst DEF ScanInv
<1>7. Written(b, x.at) = {}
  <2>1. SUFFICES ASSUME NEW s \in Times(prog), s < d, b \in prog.ops[s].writes PROVE FALSE
    BY <1>2, <1>5 DEF Written
  <2>2. s >= d
    BY <1>4, <2>1 DEF Touched
  <2>3. s \in Nat /\ d \in Nat
    BY FunctionTyped DEF ScanInv
  <2>4. QED BY <2>1, <2>2, <2>3
<1>8. memrefs[b].buf = b
  BY <1>3 DEF Ready, Labelled
<1>9. QED BY <1>2, <1>3, <1>4, <1>5, <1>6, <1>7, <1>8

(* What was defined before an operation that writes to its buffer is what   *)
(* it writes to.                                                            *)
LEMMA WritesOwn ==
  ASSUME ScanInv, GuardInv, CodeInv, Ready, NEW p \in DOMAIN code, NEW x, x = code[p], x.kind \in {"exec", "global"},
         NEW m \in DOMAIN memrefs, Filled(m, p + 1), Wanted(m, p), memrefs[m].buf \in prog.ops[x.time].writes
  PROVE  m \in x.writes
<1>1. PICK b : b = memrefs[m].buf
  OBVIOUS
<1>2. ~ IsCopy(x)
  BY DEF IsCopy
<1>3. /\ x.time \in Times(prog) /\ x.at = x.time /\ x.kind = prog.ops[x.time].kind
      /\ x.kind # "exec" => x.writes = prog.ops[x.time].writes
      /\ \E g \in x.writes : memrefs[g].buf = b
  <2>1. OperationOk(x, memrefs)
    BY <1>2, CodeAt
  <2>2. QED BY <1>1, <2>1 DEF OperationOk
<1>4. b \in Bufs(prog)
  BY <1>1, MemrefAt
<1>5. x.at \in Nat /\ p \in Nat /\ x \in Range(code)
  BY CodeAt
<1>6. CASE x.kind = "exec"
  <2>1. PICK g \in x.writes : memrefs[g].buf = b
    BY <1>3
  <2>2. SUFFICES ASSUME m # g PROVE FALSE
    BY <2>1
  <2>3. HomeOf(prog, b) = 0
    <3>1. x.time \in UsesOf(prog, b)
      BY <1>1, <1>3, <1>6 DEF UsesOf, Touched
    <3>2. HomeOf(prog, b) \in Nat
      BY <1>4, HomeTyped DEF ScanInv
    <3>3. QED BY <1>1, <1>4, <3>1, <3>2 DEF Ready, Orderly, ResidentsAreConstants
  <2>4. /\ g \in DOMAIN memrefs
        /\ \E l \in Tiers : \E z : Holder(g, l, z, x.at) /\ x.at < z.end /\ (z.mem = g \/ IsCopy(x))
    BY <1>6, <2>1, WrittenLive
  <2>5. PICK l \in Tiers : \E z : Holder(g, l, z, x.at) /\ x.at < z.end /\ (z.mem = g \/ IsCopy(x))
    BY <2>4
  <2>6. PICK z : Holder(g, l, z, x.at) /\ x.at < z.end /\ z.mem = g
    BY <1>2, <2>5
  <2>7. PICK i \in DOMAIN code :
          /\ i >= p /\ Needs(code[i], m)
          /\ \E k \in Tiers : \E y : /\ Holder(m, k, y, x.at)
                                     /\ x.at < y.end \/ (y.mem = m /\ Leaves(code[i], m, x.at))
    BY WantedHolder
  <2>8. PICK k \in Tiers : \E y : /\ Holder(m, k, y, x.at)
                                  /\ x.at < y.end \/ (y.mem = m /\ Leaves(code[i], m, x.at))
    BY <2>7
  <2>9. PICK y : /\ Holder(m, k, y, x.at)
                 /\ x.at < y.end \/ (y.mem = m /\ Leaves(code[i], m, x.at))
    BY <2>8
  <2>10. ~ Leaves(code[i], m, x.at)
    <3>1. SUFFICES ASSUME IsCopy(code[i]), code[i].at = x.at PROVE FALSE
      BY DEF Leaves
    <3>2. i \in Nat /\ i # p
      BY <1>2, <3>1, CodeAt
    <3>3. Before(x, code[i])
      BY <1>5, <2>7, <3>2, CodeAt
    <3>4. QED BY <1>2, <1>5, <3>1, <3>3 DEF Before
  <2>11. y.mem = m
    BY <1>1, <2>3, <2>9 DEF Holder
  <2>12. /\ y \in Pieces(k) /\ z \in Pieces(l) /\ y.start <= x.at /\ z.start <= x.at
         /\ y \in IntervalType /\ z \in IntervalType
    BY <2>4, <2>6, <2>9, HolderSize
  <2>13. y.id = z.id
    <3>1. m # NoMem /\ g # NoMem
      BY <2>4, MemrefAt
    <3>2. y.id = IdOf(y.id.buf) /\ memrefs[m].buf = y.id.buf
      BY <2>11, <2>12, <3>1 DEF Ready, Labelled
    <3>3. z.id = IdOf(z.id.buf) /\ memrefs[g].buf = z.id.buf
      BY <2>6, <2>12, <3>1 DEF Ready, Labelled
    <3>4. QED BY <1>1, <2>1, <3>2, <3>3
  <2>14. y.end <= z.start \/ z.end <= y.start
    BY <2>2, <2>6, <2>11, <2>12, <2>13 DEF Ready, Neat, NeatPlaces, PartsApart
  <2>15. y.start \in Int /\ y.end \in Int /\ z.start \in Int /\ z.end \in Int
    BY <2>12 DEF IntervalType
  <2>16. QED BY <1>5, <2>6, <2>9, <2>10, <2>12, <2>14, <2>15
<1>7. CASE x.kind = "global"
  <2>1. b \in x.writes
    BY <1>1, <1>3, <1>7
  <2>2. x.writes = {b} /\ memrefs[b].buf = b /\ x.at = DefTime(prog, b)
    BY <1>7, <2>1, DefiningTime
  <2>3. SUFFICES ASSUME m # b PROVE FALSE
    BY <2>1
  <2>4. PICK j \in DOMAIN code : j < p + 1 /\ Defines(code[j], m)
    BY <1>5, FilledBefore
  <2>5. PICK d : d = code[j]
    OBVIOUS
  <2>6. d \in Range(code) /\ d.at \in Nat /\ j \in Nat
    BY <2>5, CodeAt
  <2>7. j < p
    <3>1. j # p
      BY <2>2, <2>3, <2>4 DEF Defines
    <3>2. QED BY <1>5, <2>4, <2>6, <3>1
  <2>8. d.at <= x.at
    BY <2>5, <2>7, CodeAt
  <2>9. IsCopy(d)
    <3>1. SUFFICES ASSUME ~ IsCopy(d) PROVE FALSE
      OBVIOUS
    <3>2. OperationOk(d, memrefs)
      BY <2>5, <3>1, CodeAt
    <3>3. m \in prog.ops[d.time].writes /\ d.time \in Times(prog)
      BY <2>4, <2>5, <3>2 DEF OperationOk, Defines
    <3>4. m \in Bufs(prog)
      BY <3>3, FunctionTyped DEF ScanInv, Touched
    <3>5. memrefs[m].buf = m
      BY <3>4 DEF Ready, Labelled
    <3>6. QED BY <1>1, <2>3, <3>5
  <2>10. PICK f \in d.reads : TRUE
    BY <2>5, <2>9, CodeAt DEF CopyOk
  <2>11. CopyFits(d, f, m)
    BY <2>4, <2>5, <2>6, <2>9 DEF Ready, Neat, NeatCode, CopiesFit, Defines
  <2>12. DefTime(prog, b) < d.at
    BY <1>1, <2>11 DEF CopyFits
  <2>13. QED BY <1>5, <2>2, <2>6, <2>8, <2>12
<1>8. QED BY <1>6, <1>7

LEMMA OperationRuns ==
  ASSUME ScanInv, GuardInv, CodeInv, Ready, Mapped, NEW p \in DOMAIN code, NEW x, x = code[p], ~ IsCopy(x), Ran(p),
         NEW w, w = Executed(x), NEW m \in DOMAIN memrefs, Filled(m, p + 1), Wanted(m, p + 1)
  PROVE  HoldsIn(w, m, At(p + 1))
<1>1. PICK t : t = x.at
  OBVIOUS
<1>2. PICK b : b = memrefs[m].buf
  OBVIOUS
<1>3. PICK op : op = prog.ops[t]
  OBVIOUS
<1>4. /\ x.time = t /\ t \in Times(prog) /\ x.kind = op.kind /\ op \in Operations(Bufs(prog))
      /\ x.kind # "exec" => x.writes = op.writes
      /\ \A g \in x.writes : memrefs[g].buf \in op.writes
  <2>1. OperationOk(x, memrefs)
    BY CodeAt
  <2>2. QED BY <1>1, <1>3, <2>1, FunctionTyped DEF OperationOk, ScanInv
<1>5. memrefs[m].tier # -1 /\ Cells(m) \subseteq DOMAIN mem /\ Wanted(m, p)
  BY WantedMapped
<1>6. Written(b, At(p + 1)) = Written(b, t) \cup {s \in {t} : op.kind # "alloc" /\ b \in op.writes}
  BY <1>1, <1>3, WrittenNext
<1>7. At(p) = t
  BY <1>1 DEF At
<1>8. CASE x.kind \in {"alloc", "dealloc"}
  <2>1. w = mem
    BY <1>8 DEF Executed
  <2>2. x.kind = "dealloc" => op.writes = {}
    BY <1>3, <1>4, DeallocWritesNothing DEF ScanInv
  <2>3. Written(b, At(p + 1)) = Written(b, t)
    BY <1>4, <1>6, <1>8, <2>2
  <2>4. CASE Defines(x, m)
    <3>1. x.kind = "alloc" /\ m \in x.writes
      BY <1>4, <1>8, <2>2, <2>4 DEF Defines
    <3>2. memrefs[m].buf = m /\ Written(m, x.at) = {}
      BY <3>1, DefiningTime
    <3>3. QED BY <1>1, <1>2, <2>3, <3>2 DEF HoldsIn
  <2>5. CASE ~ Defines(x, m)
    <3>1. Filled(m, p)
      BY <2>5, FilledNow
    <3>2. HoldsIn(mem, m, t)
      BY <1>5, <1>7, <3>1 DEF Ran
    <3>3. QED BY <1>2, <2>1, <2>3, <3>2 DEF HoldsIn
  <2>6. QED BY <2>4, <2>5
<1>9. CASE x.kind \in {"exec", "global"}
  <2>1. \A g \in x.writes : g # m => Disjoint(m, g)
    <3>1. SUFFICES ASSUME NEW g \in x.writes, g # m PROVE Disjoint(m, g)
      OBVIOUS
    <3>2. Disjoint(m, g) \/ SameStage(x, m, g)
      BY <1>5, <1>9, <3>1, WrittenApart
    <3>3. QED BY <3>2 DEF SameStage
  <2>2. \A c \in Cells(m) : \A g \in x.writes : g # m => c \notin Cells(g)
    BY <2>1 DEF Disjoint
  <2>3. CASE m \in x.writes
    <3>1. b \in op.writes
      BY <1>2, <1>4, <2>3
    <3>2. Written(b, At(p + 1)) = Written(b, t) \cup {t}
      BY <1>4, <1>6, <1>9, <3>1
    <3>3. Max(Written(b, At(p + 1))) = t
      BY <1>4, <3>2, WrittenLast
    <3>4. \A c \in Cells(m) : w[c] = <<b, t>>
      <4>1. SUFFICES ASSUME NEW c \in Cells(m) PROVE w[c] = <<b, t>>
        OBVIOUS
      <4>2. c \in DOMAIN mem
        BY <1>5
      <4>3. w[c] = <<memrefs[m].buf, x.time>>
        BY <1>9, <2>2, <2>3, <4>2, ExecutedAt
      <4>4. QED BY <1>2, <1>4, <4>3
    <3>5. QED BY <1>2, <1>5, <3>3, <3>4 DEF HoldsIn
  <2>4. CASE m \notin x.writes
    <3>1. b \notin op.writes
      BY <1>2, <1>3, <1>4, <1>5, <1>9, <2>4, WritesOwn
    <3>2. Written(b, At(p + 1)) = Written(b, t)
      BY <1>6, <3>1
    <3>3. ~ Defines(x, m)
      BY <2>4 DEF Defines
    <3>4. Filled(m, p)
      BY <3>3, FilledNow
    <3>5. HoldsIn(mem, m, t)
      BY <1>5, <1>7, <3>4 DEF Ran
    <3>6. \A c \in Cells(m) : w[c] = mem[c]
      <4>1. SUFFICES ASSUME NEW c \in Cells(m) PROVE w[c] = mem[c]
        OBVIOUS
      <4>2. c \in DOMAIN mem
        BY <1>5
      <4>3. \A g \in x.writes : c \notin Cells(g)
        BY <2>2, <2>4
      <4>4. QED BY <1>9, <4>2, <4>3, ExecutedAt
    <3>7. QED BY <1>2, <3>2, <3>5, <3>6 DEF HoldsIn
  <2>5. QED BY <2>3, <2>4
<1>10. x.kind \in {"alloc", "global", "exec", "dealloc"}
  BY <1>4 DEF Operations
<1>11. QED BY <1>8, <1>9, <1>10

-----------------------------------------------------------------------------
(* The memories of every run. *)
LEMMA MappedInit == Init => Mapped
  BY DEF Init, Mapped, Tiers

LEMMA MappedStep == Mapped /\ [Next]_vars => Mapped'
<1>1. SUFFICES ASSUME Mapped, [Next]_vars PROVE Mapped'
  OBVIOUS
<1>2. prog' = prog
  BY <1>1 DEF Next, StartTier, Take, Place, Spill, SpillOfNothing, GiveUp, Return, Scanned, EmitChain, Finish,
              Execute, vars
<1>3. DOMAIN mem' = DOMAIN mem
  <2>1. CASE Execute
    <3>1. PICK x : mem' = Executed(x)
      BY <2>1 DEF Execute
    <3>2. CASE x.kind = "copy"
      BY <3>1, <3>2 DEF Executed
    <3>3. CASE x.kind \in {"exec", "global"}
      BY <3>1, <3>3 DEF Executed
    <3>4. CASE x.kind \notin {"copy", "exec", "global"}
      BY <3>1, <3>4 DEF Executed
    <3>5. QED BY <3>2, <3>3, <3>4
  <2>2. CASE ~ Execute
    BY <1>1, <2>2 DEF Next, StartTier, Take, Place, Spill, SpillOfNothing, GiveUp, Return, Scanned, EmitChain,
                      Finish, vars
  <2>3. QED BY <2>1, <2>2
<1>4. QED BY <1>1, <1>2, <1>3 DEF Mapped, Tiers

(* As long as the scan was orderly, what was defined and is needed yet      *)
(* holds what was last written to its buffer.                               *)
RunInv == phase = "run" /\ Orderly => Ran(pc)

LEMMA RunStarts ==
  ASSUME [Next]_vars, phase' = "run"
  PROVE  (phase = "run" /\ (Execute \/ UNCHANGED vars)) \/ Finish
  BY DEF Next, StartTier, Take, Place, Spill, SpillOfNothing, GiveUp, Return, Scanned, EmitChain, Finish, Execute,
         Calling, Idle, Placing, vars

LEMMA RunInit == Init => RunInv
  BY DEF Init, RunInv

LEMMA RunStep ==
  ScanInv /\ GuardInv /\ CodeInv /\ Course /\ CoverInv /\ Tidy /\ Mapped /\ RunInv /\ [Next]_vars => RunInv'
<1>1. SUFFICES ASSUME ScanInv, GuardInv, CodeInv, Course, CoverInv, Tidy, Mapped, RunInv, [Next]_vars,
                      phase' = "run", Orderly'
               PROVE  Ran(pc)'
  BY DEF RunInv
<1>2. Orderly
  BY <1>1, OrderlyBack
<1>3. CASE phase = "run" /\ Execute
  <2>1. Ready /\ Ran(pc)
    BY <1>1, <1>2, <1>3, RunReady DEF RunInv
  <2>2. PICK p, w, x : p = pc /\ w = mem' /\ x = code[p]
    OBVIOUS
  <2>3. /\ p \in DOMAIN code /\ w = Executed(x) /\ pc' = p + 1 /\ prog' = prog /\ memrefs' = memrefs
        /\ code' = code
    BY <1>3, <2>2 DEF Execute, outState
  <2>4. \A m \in DOMAIN memrefs : Filled(m, p + 1) /\ Wanted(m, p + 1) => HoldsIn(w, m, At(p + 1))
    <3>1. SUFFICES ASSUME NEW m \in DOMAIN memrefs, Filled(m, p + 1), Wanted(m, p + 1)
                   PROVE  HoldsIn(w, m, At(p + 1))
      OBVIOUS
    <3>2. CASE IsCopy(x)
      BY <1>1, <2>1, <2>2, <2>3, <3>1, <3>2, CopyRuns
    <3>3. CASE ~ IsCopy(x)
      BY <1>1, <2>1, <2>2, <2>3, <3>1, <3>3, OperationRuns
    <3>4. QED BY <3>2, <3>3
  <2>5. PICK t : t = At(p + 1)
    OBVIOUS
  <2>6. At(pc)' = t
    BY <2>3, <2>5 DEF At
  <2>7. \A m : (Filled(m, pc)' <=> Filled(m, p + 1)) /\ (Wanted(m, pc)' <=> Wanted(m, p + 1))
    BY <2>3 DEF Filled, Wanted, Defines, Needs, IsCopy, Touched
  <2>8. \A b : Written(b, At(pc))' = Written(b, t)
    BY <2>3, <2>6 DEF Written, Times
  <2>9. \A m : Cells(m)' = Cells(m)
    BY <2>3 DEF Cells
  <2>10. SUFFICES ASSUME NEW m \in DOMAIN memrefs, Filled(m, pc)', Wanted(m, pc)' PROVE HoldsIn(mem, m, At(pc))'
    BY <2>3 DEF Ran
  <2>11. HoldsIn(w, m, t)
    BY <2>4, <2>5, <2>7, <2>10
  <2>12. QED BY <2>2, <2>3, <2>8, <2>9, <2>11 DEF HoldsIn
<1>4. CASE phase = "run" /\ UNCHANGED vars
  <2>1. Ran(pc)
    BY <1>1, <1>2, <1>4 DEF RunInv
  <2>2. pc' = pc /\ prog' = prog /\ memrefs' = memrefs /\ code' = code /\ mem' = mem
    BY <1>4 DEF vars, outState
  <2>3. PICK t : t = At(pc)
    OBVIOUS
  <2>4. At(pc)' = t
    BY <2>2, <2>3 DEF At
  <2>5. \A m : (Filled(m, pc)' <=> Filled(m, pc)) /\ (Wanted(m, pc)' <=> Wanted(m, pc))
    BY <2>2 DEF Filled, Wanted, Defines, Needs, IsCopy, Touched
  <2>6. \A b : Written(b, At(pc))' = Written(b, t)
    BY <2>2, <2>4 DEF Written, Times
  <2>7. \A m : Cells(m)' = Cells(m)
    BY <2>2 DEF Cells
  <2>8. SUFFICES ASSUME NEW m \in DOMAIN memrefs, Filled(m, pc)', Wanted(m, pc)' PROVE HoldsIn(mem, m, At(pc))'
    BY <2>2 DEF Ran
  <2>9. HoldsIn(mem, m, t)
    BY <2>1, <2>3, <2>5, <2>8 DEF Ran
  <2>10. QED BY <2>2, <2>3, <2>6, <2>7, <2>9 DEF HoldsIn
<1>5. CASE Finish
  <2>1. pc' = 1 /\ memrefs' = memrefs /\ code' = code
    BY <1>1, <1>5 DEF Finish, CodeInv, outState
  <2>2. SUFFICES ASSUME NEW m \in DOMAIN memrefs PROVE ~ Filled(m, 1)
    BY <2>1 DEF Ran, Filled, Defines
  <2>3. m \in 1 .. Len(memrefs)
    BY <1>1, MemrefAt
  <2>4. PICK d \in Range(code) : Defines(d, m)
    BY <1>1, <2>3 DEF CodeInv, CodeOk, Defines
  <2>5. PICK i \in DOMAIN code : code[i] = d
    BY InRange
  <2>6. i >= 1
    <3>1. PICK c \in Seq(CodeType) : c = code
      BY <1>1 DEF CodeInv, CodeOk
    <3>2. DOMAIN c = 1 .. Len(c)
      BY <3>1
    <3>3. QED BY <2>5, <3>1, <3>2
  <2>7. QED BY <2>4, <2>5, <2>6 DEF Filled
<1>6. QED BY <1>1, <1>3, <1>4, <1>5, RunStarts

LEMMA RunInvariant == Spec => [](Mapped /\ RunInv)
<1>1. Init => Mapped /\ RunInv
  BY MappedInit, RunInit
<1>2. ScanInv /\ GuardInv /\ CodeInv /\ Course /\ CoverInv /\ Tidy /\ (Mapped /\ RunInv) /\ [Next]_vars
        => (Mapped /\ RunInv)'
  BY MappedStep, RunStep
<1>3. QED BY <1>1, <1>2, ScanWellFormed, GuardInvariant, CodeInvariant, CourseInvariant, CoverInvariant,
             TidyInvariant, PTL DEF Spec

(* Whatever the functions and the target: as long as no reload had to evict *)
(* another buffer, every spill found a place, what is staged is only read   *)
(* and every tier took its intervals in order, each operation of the code   *)
(* finds in its operands what was last written to their buffers: spills,    *)
(* reloads, stages and reused addresses are invisible to the program        *)
(* (allocate, handleSpill, allocSuccess and emitStagingChains together).    *)
THEOREM DataSurvives == Spec => []ReadsIntact
<1>1. ScanInv /\ GuardInv /\ CodeInv /\ Course /\ ZeroInv /\ CoverInv /\ Tidy /\ Mapped /\ RunInv => ReadsIntact
  <2>1. SUFFICES ASSUME ScanInv, GuardInv, CodeInv, Course, ZeroInv, CoverInv, Tidy, RunInv, Running("exec"),
                        FreshEvictionsOnly, errors = {}, ResidentsAreConstants, \A k \in Tiers : InOrder(k),
                        NEW m \in code[pc].reads
                 PROVE  Holds(m, code[pc].time)
    BY DEF ReadsIntact
  <2>2. PICK x : x = code[pc]
    OBVIOUS
  <2>3. phase = "run" /\ pc \in DOMAIN code /\ x.kind = "exec"
    BY <2>1, <2>2 DEF Running
  <2>4. Orderly
    BY <2>1, <2>3, AtRun DEF Orderly
  <2>5. Ready /\ Ran(pc)
    BY <2>1, <2>3, <2>4, RunReady DEF RunInv
  <2>6. ~ IsCopy(x)
    BY <2>3 DEF IsCopy
  <2>7. x.at = x.time /\ x \in Range(code) /\ pc \in Nat
    BY <2>1, <2>2, <2>3, <2>5, <2>6, CodeAt DEF OperationOk
  <2>8. Needs(x, m)
    BY <2>1, <2>2, <2>3, <2>6 DEF Needs, Touched
  <2>9. m \in DOMAIN memrefs
    <3>1. m \in 1 .. Len(memrefs)
      BY <2>1, <2>2, <2>7, TouchedTyped DEF Touched
    <3>2. PICK s \in Seq(MemrefType) : s = memrefs
      BY <2>1 DEF ScanInv, MemrefsTyped
    <3>3. DOMAIN s = 1 .. Len(s)
      BY <3>2
    <3>4. QED BY <3>1, <3>2, <3>3
  <2>10. Filled(m, pc)
    BY <2>1, <2>2, <2>3, <2>5, <2>8, <2>9, NeededFilled
  <2>11. Wanted(m, pc)
    <3>1. pc >= pc
      BY <2>7
    <3>2. QED BY <2>2, <2>3, <2>8, <3>1 DEF Wanted
  <2>12. HoldsIn(mem, m, At(pc))
    BY <2>5, <2>9, <2>10, <2>11 DEF Ran
  <2>13. At(pc) = code[pc].time
    BY <2>2, <2>3, <2>7 DEF At
  <2>14. QED BY <2>12, <2>13 DEF HoldsIn, Holds
<1>2. QED BY <1>1, ScanWellFormed, GuardInvariant, CodeInvariant, CourseInvariant, ZeroInvariant, CoverInvariant,
             TidyInvariant, RunInvariant, PTL
=============================================================================
