------------------------- MODULE TierStagingProofs -------------------------
(***************************************************************************)
(* Machine-checked proofs about the linear scan of TierStaging, for every  *)
(* set of well-formed functions, every target and every answer of the      *)
(* solver.                                                                 *)
(***************************************************************************)
EXTENDS TierStaging, Extrema, FiniteSetTheorems, SequenceTheorems, TLAPS

-----------------------------------------------------------------------------
(* What the intervals and calls of the scan are.                            *)
Ids == [buf : Nat, stage : Int, use : Nat]

IntervalType ==
  [id : Ids, start : Int, end : Int, size : Nat, uses : SUBSET Nat, home : Nat, mem : Nat,
   offset : Int]

FrameType ==
  [tier : Nat, cur : IntervalType \cup {NoInterval}, excluded : SUBSET Ids,
   reload : IntervalType \cup {NoInterval}, ok : BOOLEAN]

MemrefType == [buf : Bufs(prog), tier : Int, offset : Int]

ExecTimes == {t \in Times(prog) : prog.ops[t].kind = "exec"}

(* An interval stands for a buffer and, unless it is a stage, a memref; its *)
(* uses are operations inside its lifetime.                                 *)
Sound(iv) ==
  /\ iv.id.buf \in Bufs(prog) /\ iv.size = prog.size[iv.id.buf]
  /\ iv.mem \in 0 .. Len(memrefs)
  /\ iv.uses \subseteq {u \in ExecTimes : iv.start <= u /\ u < iv.end}

QueuesTyped ==
  /\ unhandled \in [Tiers -> Seq(IntervalType)]
  /\ placed \in [Tiers -> Seq(IntervalType)]
  /\ handled \in [Tiers -> SUBSET Nat]
  /\ \A k \in Tiers : handled[k] \subseteq DOMAIN placed[k]
  /\ \A k \in Tiers : \A iv \in Range(unhandled[k]) \cup Range(placed[k]) : Sound(iv)

(* The calls in progress are of one tier after the other, and all but the   *)
(* last are placing an interval.                                            *)
StackTyped ==
  /\ stack \in Seq(FrameType)
  /\ \A i \in DOMAIN stack :
       /\ stack[i].tier \in Tiers /\ stack[i].tier = stack[1].tier + (i - 1)
       /\ stack[i].cur # NoInterval => Sound(stack[i].cur)
       /\ stack[i].reload # NoInterval => Sound(stack[i].reload)
       /\ i < Len(stack) => stack[i].cur # NoInterval

MemrefsTyped ==
  /\ memrefs \in Seq(MemrefType) /\ Len(prog.size) <= Len(memrefs)
  /\ \A x \in DOMAIN memMap : memMap[x] \in Int

ScanInv ==
  /\ prog \in Programs /\ plan \subseteq Chains(prog)
  /\ phase \in {"alloc", "emit", "run", "failed", "crashed"}
  /\ level \in -1 .. Bottom
  /\ QueuesTyped
  /\ StackTyped
  /\ MemrefsTyped

-----------------------------------------------------------------------------
(* The code as rewritten so far: what it names exists, every memref has its *)
(* definition, every operation of the function is there once more.          *)
CodeType ==
  [kind : {"alloc", "global", "exec", "dealloc", "copy"}, time : Nat, at : Nat,
   reads : SUBSET Nat, writes : SUBSET Nat]

CodeOk(c, n) ==
  /\ c \in Seq(CodeType)
  /\ \A op \in Range(c) :
       /\ Touched(op) \subseteq 1 .. n
       /\ op.time # 0 => op.time \in Times(prog) /\ op.kind = prog.ops[op.time].kind
  /\ \A m \in 1 .. n : \E op \in Range(c) : op.kind # "exec" /\ m \in op.writes
  /\ \A t \in Times(prog) : \E op \in Range(c) : op.time = t

CodeInv ==
  /\ phase # "run" => pc = 1
  /\ pc \in 1 .. Len(code) + 1
  /\ CodeOk(code, Len(memrefs))

-----------------------------------------------------------------------------
(* The history of a tier: its buffers start when they were taken, and one   *)
(* has expired only when an interval taken started a guard after its end.   *)
Dated(k) ==
  \A i \in DOMAIN placed[k] :
    /\ \E n \in DOMAIN taken[k] : placed[k][i].start = taken[k][n]
    /\ i \in handled[k] =>
         \E n \in DOMAIN taken[k] : placed[k][i].end + prog.guard <= taken[k][n]

(* Of two buffers that share an address the one placed first ends a guard   *)
(* before the other starts.                                                 *)
Clear(k) ==
  \A i, j \in DOMAIN placed[k] :
    LET a == placed[k][i]
        b == placed[k][j]
    IN i < j => Apart(a, b, b.offset) \/ a.end + prog.guard <= b.start

(* What a call is placing is the interval taken last, and what is active a  *)
(* guard after its end was truncated for it, and is not evicted again.      *)
Latest(frame) ==
  LET k == frame.tier
      now == frame.cur.start
  IN /\ taken[k] # << >> /\ now = taken[k][Len(taken[k])] /\ now < frame.cur.end
     /\ InOrder(k) => \A j \in Active(k) :
          placed[k][j].end + prog.guard <= now => placed[k][j].id \in frame.excluded

GuardInv ==
  /\ taken \in [Tiers -> Seq(Int)]
  /\ \A k \in Tiers : Dated(k) /\ (InOrder(k) => Clear(k))
  /\ \A i \in DOMAIN stack : stack[i].cur # NoInterval => Latest(stack[i])

-----------------------------------------------------------------------------
(* Sequences as the scan handles them: by the elements they have.           *)

LEMMA FunctionIsSeq ==
  ASSUME NEW n \in Nat, NEW S, NEW f \in [1 .. n -> S]
  PROVE  f \in Seq(S) /\ Len(f) = n
OBVIOUS

LEMMA InRange == \A f, x : x \in Range(f) <=> \E i \in DOMAIN f : f[i] = x
BY DEF Range

LEMMA ConcatElements ==
  ASSUME NEW S, NEW s \in Seq(S), NEW t \in Seq(S)
  PROVE  /\ s \o t \in Seq(S) /\ Len(s \o t) = Len(s) + Len(t)
         /\ Range(s \o t) = Range(s) \cup Range(t)
<1>1. /\ s \o t \in Seq(S) /\ Len(s \o t) = Len(s) + Len(t)
      /\ \A i \in 1 .. Len(s) + Len(t) :
           (s \o t)[i] = IF i <= Len(s) THEN s[i] ELSE t[i - Len(s)]
  BY ConcatProperties
<1>2. PICK n \in Nat : n = Len(s) /\ DOMAIN s = 1 .. n
  BY LenProperties
<1>3. PICK m \in Nat : m = Len(t) /\ DOMAIN t = 1 .. m
  BY LenProperties
<1>4. PICK r \in Seq(S) : r = s \o t
  BY <1>1
<1>5. /\ DOMAIN r = 1 .. n + m
      /\ \A i \in 1 .. n + m : r[i] = IF i <= n THEN s[i] ELSE t[i - n]
  BY <1>1, <1>2, <1>3, <1>4, LenProperties
<1>6. ASSUME NEW i \in 1 .. n + m
      PROVE  (\E j \in 1 .. n : r[i] = s[j]) \/ (\E j \in 1 .. m : r[i] = t[j])
  <2>1. CASE i <= n
    BY <1>5, <2>1
  <2>2. CASE ~ (i <= n)
    <3>1. i - n \in 1 .. m
      BY <2>2
    <3>2. QED BY <1>5, <2>2, <3>1
  <2>3. QED BY <2>1, <2>2
<1>7. ASSUME NEW j \in 1 .. n PROVE j \in 1 .. n + m /\ r[j] = s[j]
  BY <1>5
<1>8. ASSUME NEW j \in 1 .. m PROVE j + n \in 1 .. n + m /\ r[j + n] = t[j]
  <2>1. j + n \in 1 .. n + m /\ ~ (j + n <= n) /\ (j + n) - n = j
    OBVIOUS
  <2>2. QED BY <1>5, <2>1
<1>9. Range(r) = Range(s) \cup Range(t)
  <2>1. ASSUME NEW x \in Range(r) PROVE x \in Range(s) \cup Range(t)
    <3>1. PICK i \in 1 .. n + m : r[i] = x
      BY <1>5, InRange
    <3>2. QED BY <1>2, <1>3, <1>6, <3>1, InRange
  <2>2. ASSUME NEW x \in Range(s) PROVE x \in Range(r)
    <3>1. PICK j \in 1 .. n : s[j] = x
      BY <1>2, InRange
    <3>2. QED BY <1>5, <1>7, <3>1, InRange
  <2>3. ASSUME NEW x \in Range(t) PROVE x \in Range(r)
    <3>1. PICK j \in 1 .. m : t[j] = x
      BY <1>3, InRange
    <3>2. QED BY <1>5, <1>8, <3>1, InRange
  <2>4. QED BY <2>1, <2>2, <2>3
<1>10. QED BY <1>1, <1>4, <1>9

(* Splicing c into s before position p, as InsertAt does for one element.   *)
Spliced(s, c, p) == SubSeq(s, 1, p - 1) \o c \o SubSeq(s, p, Len(s))

LEMMA Splice ==
  ASSUME NEW S, NEW s \in Seq(S), NEW c \in Seq(S), NEW p \in 1 .. Len(s) + 1
  PROVE  /\ Spliced(s, c, p) \in Seq(S)
         /\ Len(Spliced(s, c, p)) = Len(s) + Len(c)
         /\ Range(Spliced(s, c, p)) = Range(s) \cup Range(c)
<1>1. PICK n \in Nat : n = Len(s)
  BY LenProperties
<1>2. PICK a : a = SubSeq(s, 1, p - 1)
  OBVIOUS
<1>3. PICK b : b = SubSeq(s, p, Len(s))
  OBVIOUS
<1>4. \A i \in 1 .. n : s[i] \in S
  BY <1>1, ElementOfSeq
<1>5. a \in Seq(S)
  <2>1. p - 1 \in Int /\ \A i \in 1 .. p - 1 : s[i] \in S
    BY <1>1, <1>4
  <2>2. QED BY <1>2, <2>1, SubSeqProperties
<1>6. b \in Seq(S)
  <2>1. p \in Int /\ n \in Int /\ \A i \in p .. n : s[i] \in S
    BY <1>1, <1>4
  <2>2. QED BY <1>1, <1>3, <2>1, SubSeqProperties
<1>7. a \o b = s
  <2>1. p - 1 \in 1 - 1 .. Len(s) /\ 1 \in 1 .. Len(s) + 1 /\ Len(s) \in p - 1 .. Len(s)
    BY <1>1
  <2>2. SubSeq(s, 1, p - 1) \o SubSeq(s, (p - 1) + 1, Len(s)) = SubSeq(s, 1, Len(s))
    BY ONLY <2>1, s \in Seq(S), ConcatAdjacentSubSeq
  <2>3. (p - 1) + 1 = p
    BY <1>1
  <2>4. QED BY <1>2, <1>3, <2>2, <2>3, SubSeqFull
<1>8. Range(s) = Range(a) \cup Range(b) /\ Len(s) = Len(a) + Len(b)
  <2>1. /\ Len(a \o b) = Len(a) + Len(b)
        /\ Range(a \o b) = Range(a) \cup Range(b)
    BY ONLY <1>5, <1>6, ConcatElements
  <2>2. QED BY <1>7, <2>1
<1>9. /\ a \o c \in Seq(S) /\ Len(a \o c) = Len(a) + Len(c)
      /\ Range(a \o c) = Range(a) \cup Range(c)
  BY <1>5, ConcatElements
<1>10. /\ (a \o c) \o b \in Seq(S) /\ Len((a \o c) \o b) = Len(a) + Len(c) + Len(b)
       /\ Range((a \o c) \o b) = Range(a) \cup Range(c) \cup Range(b)
  <2>1. PICK ac \in Seq(S) : ac = a \o c
    BY <1>9
  <2>2. /\ ac \o b \in Seq(S) /\ Len(ac \o b) = Len(ac) + Len(b)
        /\ Range(ac \o b) = Range(ac) \cup Range(b)
    BY <1>6, ConcatElements
  <2>3. QED BY <1>9, <2>1, <2>2
<1>11. Len(a) \in Nat /\ Len(b) \in Nat /\ Len(c) \in Nat
  BY <1>5, <1>6, LenProperties
<1>12. Len(a) + Len(c) + Len(b) = Len(s) + Len(c)
  BY <1>8, <1>11
<1>13. Range(a) \cup Range(c) \cup Range(b) = Range(s) \cup Range(c)
  BY <1>8
<1>14. Spliced(s, c, p) = (a \o c) \o b
  BY <1>2, <1>3 DEF Spliced
<1>15. QED BY <1>10, <1>12, <1>13, <1>14

LEMMA Inserted ==
  ASSUME NEW S, NEW s \in Seq(S), NEW e \in S, NEW p \in 1 .. Len(s) + 1
  PROVE  /\ InsertAt(s, p, e) \in Seq(S) /\ Len(InsertAt(s, p, e)) = Len(s) + 1
         /\ Range(InsertAt(s, p, e)) = Range(s) \cup {e}
<1>1. PICK c \in Seq(S) : c = <<e>> /\ Len(c) = 1 /\ DOMAIN c = {1} /\ c[1] = e
  <2>1. <<e>> \in Seq(S) /\ Len(<<e>>) = 1 /\ <<e>>[1] = e /\ DOMAIN <<e>> = 1 .. 1
    OBVIOUS
  <2>2. 1 .. 1 = {1}
    OBVIOUS
  <2>3. QED BY <2>1, <2>2
<1>2. Range(c) = {e}
  BY <1>1 DEF Range
<1>3. /\ Spliced(s, c, p) \in Seq(S) /\ Len(Spliced(s, c, p)) = Len(s) + Len(c)
      /\ Range(Spliced(s, c, p)) = Range(s) \cup Range(c)
  BY Splice
<1>4. InsertAt(s, p, e) = Spliced(s, c, p)
  BY <1>1 DEF InsertAt, Spliced
<1>5. QED BY ONLY <1>1, <1>2, <1>3, <1>4

LEMMA Appended ==
  ASSUME NEW S, NEW s \in Seq(S), NEW e \in S
  PROVE  /\ Append(s, e) \in Seq(S) /\ Len(Append(s, e)) = Len(s) + 1
         /\ \A i \in DOMAIN s : Append(s, e)[i] = s[i]
         /\ Append(s, e)[Len(s) + 1] = e
         /\ Range(Append(s, e)) = Range(s) \cup {e}
<1>1. /\ Append(s, e) \in Seq(S) /\ Len(Append(s, e)) = Len(s) + 1 /\ Len(s) \in Nat
      /\ DOMAIN s = 1 .. Len(s) /\ DOMAIN Append(s, e) = 1 .. Len(s) + 1
      /\ \A i \in DOMAIN s : Append(s, e)[i] = s[i]
      /\ Append(s, e)[Len(s) + 1] = e
  OBVIOUS
<1>2. Range(Append(s, e)) = Range(s) \cup {e}
  <2>1. \A i \in 1 .. Len(s) + 1 : i \in 1 .. Len(s) \/ i = Len(s) + 1
    BY <1>1
  <2>2. \A i \in 1 .. Len(s) : i \in 1 .. Len(s) + 1
    BY <1>1
  <2>3. Len(s) + 1 \in 1 .. Len(s) + 1
    BY <1>1
  <2>4. QED BY <1>1, <2>1, <2>2, <2>3 DEF Range
<1>3. QED BY <1>1, <1>2

LEMMA TailElements ==
  ASSUME NEW S, NEW s \in Seq(S), s # << >>
  PROVE  /\ Head(s) \in S /\ Head(s) \in Range(s) /\ Tail(s) \in Seq(S)
         /\ Range(Tail(s)) \subseteq Range(s)
<1>1. /\ Head(s) \in S /\ Head(s) = s[1] /\ 1 \in DOMAIN s /\ Tail(s) \in Seq(S)
      /\ \A i \in DOMAIN Tail(s) : i + 1 \in DOMAIN s /\ Tail(s)[i] = s[i + 1]
  OBVIOUS
<1>2. PICK r : r = Tail(s)
  OBVIOUS
<1>3. ASSUME NEW x \in Range(r) PROVE x \in Range(s)
  <2>1. PICK i \in DOMAIN r : r[i] = x
    BY InRange
  <2>2. PICK j \in DOMAIN s : s[j] = x
    BY <1>1, <1>2, <2>1
  <2>3. QED BY <2>2, InRange
<1>4. QED BY <1>1, <1>2, <1>3, InRange

LEMMA Shortened ==
  ASSUME NEW S, NEW s \in Seq(S), NEW m \in Nat, m <= Len(s)
  PROVE  /\ SubSeq(s, 1, m) \in Seq(S) /\ Len(SubSeq(s, 1, m)) = m
         /\ \A i \in 1 .. m : SubSeq(s, 1, m)[i] = s[i]
<1>1. 1 \in Int /\ m \in Int /\ \A i \in 1 .. m : s[i] \in S
  OBVIOUS
<1>2. /\ SubSeq(s, 1, m) \in Seq(S)
      /\ Len(SubSeq(s, 1, m)) = IF 1 <= m THEN m - 1 + 1 ELSE 0
      /\ \A i \in 1 .. m - 1 + 1 : SubSeq(s, 1, m)[i] = s[1 + i - 1]
  BY ONLY <1>1, SubSeqProperties
<1>3. m - 1 + 1 = m /\ (~ (1 <= m) => m = 0) /\ \A i \in 1 .. m : 1 + i - 1 = i
  OBVIOUS
<1>4. QED BY <1>2, <1>3

LEMMA Updated ==
  ASSUME NEW S, NEW s \in Seq(S), NEW i, NEW e \in S
  PROVE  /\ [s EXCEPT ![i] = e] \in Seq(S) /\ Len([s EXCEPT ![i] = e]) = Len(s)
         /\ DOMAIN [s EXCEPT ![i] = e] = DOMAIN s
<1>1. PICK r : r = [s EXCEPT ![i] = e]
  OBVIOUS
<1>2. Len(s) \in Nat /\ DOMAIN s = 1 .. Len(s) /\ \A j \in 1 .. Len(s) : s[j] \in S
  OBVIOUS
<1>3. /\ r = [j \in 1 .. Len(s) |-> r[j]]
      /\ \A j \in 1 .. Len(s) : r[j] = IF j = i THEN e ELSE s[j]
  BY <1>1, <1>2
<1>4. r \in [1 .. Len(s) -> S]
  BY <1>2, <1>3
<1>5. r \in Seq(S) /\ Len(r) = Len(s)
  BY ONLY <1>2, <1>4, FunctionIsSeq
<1>6. QED BY <1>1, <1>2, <1>3, <1>5

LEMMA AddUnhandledElements ==
  ASSUME NEW S, NEW queue \in Seq(S), NEW iv \in S
  PROVE  /\ AddUnhandled(queue, iv) \in Seq(S)
         /\ Range(AddUnhandled(queue, iv)) = Range(queue) \cup {iv}
<1> DEFINE earlier == {i \in DOMAIN queue : queue[i].start < iv.start}
<1>1. DOMAIN queue = 1 .. Len(queue) /\ Len(queue) \in Nat
  BY LenProperties
<1>2. IsFiniteSet(1 .. Len(queue)) /\ Cardinality(1 .. Len(queue)) = Len(queue)
  <2>1. 1 \in Int /\ Len(queue) \in Int
    BY <1>1
  <2>2. QED BY ONLY <1>1, <2>1, FS_Interval
<1>3. IsFiniteSet(earlier) /\ Cardinality(earlier) <= Len(queue) /\ Cardinality(earlier) \in Nat
  <2>1. earlier \subseteq 1 .. Len(queue)
    BY <1>1
  <2>2. QED BY <1>2, <2>1, FS_Subset, FS_CardinalityType
<1>4. Cardinality(earlier) + 1 \in 1 .. Len(queue) + 1
  BY <1>1, <1>3
<1>5. AddUnhandled(queue, iv) = InsertAt(queue, Cardinality(earlier) + 1, iv)
  BY DEF AddUnhandled
<1>6. PICK p \in 1 .. Len(queue) + 1 : p = Cardinality(earlier) + 1
  BY <1>4
<1>7. /\ InsertAt(queue, p, iv) \in Seq(S)
      /\ Range(InsertAt(queue, p, iv)) = Range(queue) \cup {iv}
  BY ONLY queue \in Seq(S), iv \in S, p \in 1 .. Len(queue) + 1, Inserted
<1>8. QED BY <1>5, <1>6, <1>7

-----------------------------------------------------------------------------
(* Functions and targets, and the liveness analysis of a function.          *)

LEMMA FunctionTyped ==
  ASSUME NEW p \in Programs
  PROVE  /\ Len(p.size) \in Nat /\ Bufs(p) = 1 .. Len(p.size)
         /\ Len(p.ops) \in Nat /\ Times(p) = 1 .. Len(p.ops)
         /\ \A b \in Bufs(p) : p.size[b] \in Nat /\ p.home[b] \in Nat
         /\ \A t \in Times(p) : /\ p.ops[t] \in Operations(Bufs(p))
                                /\ Touched(p.ops[t]) \subseteq Bufs(p)
         /\ p.guard \in Nat
<1>1. WellFormed(p)
  BY ProgramsAssumption
<1>2. p.size \in Seq(Nat) /\ p.ops \in Seq(Operations(Bufs(p)))
  BY <1>1 DEF WellFormed
<1>3. Len(p.size) \in Nat /\ Bufs(p) = 1 .. Len(p.size) /\ \A b \in Bufs(p) : p.size[b] \in Nat
  BY <1>2 DEF Bufs
<1>4. /\ Len(p.ops) \in Nat /\ Times(p) = 1 .. Len(p.ops)
      /\ \A t \in Times(p) : p.ops[t] \in Operations(Bufs(p))
  BY <1>2 DEF Times
<1>5. \A t \in Times(p) : Touched(p.ops[t]) \subseteq Bufs(p)
  BY <1>4 DEF Operations, Touched
<1>6. QED BY <1>1, <1>3, <1>4, <1>5 DEF WellFormed

LEMMA TargetTyped ==
  ASSUME prog \in Programs
  PROVE  Bottom \in Nat /\ Tiers = 0 .. Bottom
<1>1. IsFiniteSet(Tiers) /\ Tiers # {} /\ Tiers = 0 .. Cardinality(Tiers) - 1
  BY ProgramsAssumption DEF WellFormed, Tiers
<1>2. Cardinality(Tiers) \in Nat /\ Cardinality(Tiers) # 0
  BY <1>1, FS_CardinalityType, FS_EmptySet
<1>3. QED BY <1>1, <1>2 DEF Bottom

LEMMA DefinedFirst ==
  ASSUME NEW p \in Programs, NEW b \in Bufs(p)
  PROVE  /\ DefTime(p, b) \in Times(p)
         /\ p.ops[DefTime(p, b)].kind \in {"alloc", "global"} /\ p.ops[DefTime(p, b)].writes = {b}
         /\ \A t \in Times(p) : b \in Touched(p.ops[t]) => DefTime(p, b) <= t
<1>1. PICK d \in Times(p) :
         /\ p.ops[d].kind \in {"alloc", "global"} /\ p.ops[d].writes = {b}
         /\ \A t \in Times(p) :
              /\ b \in Touched(p.ops[t]) => t >= d
              /\ b \in p.ops[t].writes /\ p.ops[t].kind \in {"alloc", "global"} => t = d
  BY ProgramsAssumption DEF WellFormed
<1>2. DefTime(p, b) = d
  BY <1>1 DEF DefTime
<1>3. \A t \in Times(p) : t \in Int
  BY FunctionTyped
<1>4. QED BY <1>1, <1>2, <1>3

LEMMA EndsLast ==
  ASSUME NEW p \in Programs, NEW b \in Bufs(p)
  PROVE  EndOf(p, b) \in Nat /\ \A t \in Times(p) : b \in Touched(p.ops[t]) => t < EndOf(p, b)
<1>1. PICK S : S = {t \in Times(p) : b \in Touched(p.ops[t])}
  OBVIOUS
<1>2. PICK n \in Nat : n = Len(p.ops) /\ Times(p) = 1 .. n
  BY FunctionTyped
<1>3. S \in SUBSET (1 .. n) /\ S # {}
  BY <1>1, <1>2, DefinedFirst DEF Touched
<1>4. Max(S) \in S /\ \A t \in S : t <= Max(S)
  BY <1>3, MaxIsGreatest
<1>5. PICK m \in 1 .. n : m = Max(S) /\ EndOf(p, b) = 1 + m
  BY <1>1, <1>3, <1>4 DEF EndOf
<1>6. \A t \in S : t \in Int /\ t < 1 + m
  BY <1>3, <1>4, <1>5
<1>7. QED BY <1>1, <1>5, <1>6

LEMMA HomeTyped ==
  ASSUME NEW p \in Programs, NEW b \in Bufs(p)
  PROVE  HomeOf(p, b) \in Nat
<1>1. p.home[b] \in Nat
  BY FunctionTyped
<1>2. IsFiniteSet(DOMAIN p.caps) /\ DOMAIN p.caps # {}
  BY ProgramsAssumption DEF WellFormed
<1>3. Cardinality(DOMAIN p.caps) - 1 \in Nat
  BY <1>2, FS_CardinalityType, FS_EmptySet
<1>4. QED BY <1>1, <1>3 DEF HomeOf

LEMMA StageTyped ==
  ASSUME NEW p \in Programs, NEW b \in Bufs(p), NEW t \in Times(p), NEW k \in Nat
  PROVE  Stage(p, b, t, k) \in IntervalType
<1>1. b \in Nat /\ t \in Nat /\ t + 1 \in Int /\ p.size[b] \in Nat
  BY FunctionTyped
<1>2. [buf |-> b, stage |-> k, use |-> t] \in Ids
  BY <1>1 DEF Ids
<1>3. QED BY <1>1, <1>2 DEF Stage, IntervalType, NoMem, NoOffset

LEMMA BufTyped ==
  ASSUME NEW p \in Programs, NEW b \in Bufs(p)
  PROVE  /\ BufInterval(p, b) \in IntervalType
         /\ BufInterval(p, b).uses \subseteq
              {u \in Times(p) : /\ p.ops[u].kind = "exec"
                                /\ BufInterval(p, b).start <= u /\ u < BufInterval(p, b).end}
<1>1. b \in Nat /\ p.size[b] \in Nat /\ DefTime(p, b) \in Int /\ EndOf(p, b) \in Int
      /\ Times(p) \subseteq Nat /\ HomeOf(p, b) \in Nat
  BY FunctionTyped, DefinedFirst, EndsLast, HomeTyped
<1>2. IdOf(b) \in Ids
  BY <1>1 DEF IdOf, Ids
<1>3. UsesOf(p, b) \subseteq
        {u \in Times(p) : p.ops[u].kind = "exec" /\ DefTime(p, b) <= u /\ u < EndOf(p, b)}
  BY DefinedFirst, EndsLast DEF UsesOf
<1>4. QED BY <1>1, <1>2, <1>3 DEF BufInterval, IntervalType, NoOffset

LEMMA RangeFinite ==
  ASSUME NEW D, NEW T, IsFiniteSet(D), NEW f \in [D -> T]
  PROVE  IsFiniteSet(Range(f))
<1>1. f \in [D -> Range(f)] /\ \A y \in Range(f) : \E x \in D : f[x] = y
  BY InRange
<1>2. f \in Surjection(D, Range(f))
  BY <1>1 DEF Surjection
<1>3. QED BY <1>2, FS_Surjection

(* The stages of all the chains of a buffer.                                *)
StagesOf(p, b) == {Stage(p, b, t, k) : t \in UsesOf(p, b), k \in 0 .. HomeOf(p, b) - 1}

LEMMA StagesFinite ==
  ASSUME NEW p \in Programs, NEW b \in Bufs(p)
  PROVE  IsFiniteSet(StagesOf(p, b)) /\ StagesOf(p, b) \subseteq IntervalType
<1>1. HomeOf(p, b) \in Nat /\ UsesOf(p, b) \subseteq Times(p) /\ Len(p.ops) \in Nat
      /\ Times(p) = 1 .. Len(p.ops)
  BY HomeTyped, FunctionTyped DEF UsesOf
<1>2. IsFiniteSet(0 .. HomeOf(p, b) - 1)
  <2>1. 0 \in Int /\ HomeOf(p, b) - 1 \in Int
    BY <1>1
  <2>2. QED BY ONLY <2>1, FS_Interval
<1>3. IsFiniteSet(Times(p))
  <2>1. 1 \in Int /\ Len(p.ops) \in Int
    BY <1>1
  <2>2. QED BY ONLY <1>1, <2>1, FS_Interval
<1>4. IsFiniteSet(UsesOf(p, b))
  BY <1>1, <1>3, FS_Subset
<1>5. PICK U : U = UsesOf(p, b) \X (0 .. HomeOf(p, b) - 1)
  OBVIOUS
<1>6. IsFiniteSet(U)
  BY <1>2, <1>4, <1>5, FS_Product
<1>7. \A t \in UsesOf(p, b), k \in 0 .. HomeOf(p, b) - 1 : Stage(p, b, t, k) \in IntervalType
  <2>1. \A k \in 0 .. HomeOf(p, b) - 1 : k \in Nat
    BY <1>1
  <2>2. QED BY <1>1, <2>1, StageTyped
<1>8. PICK g \in [U -> IntervalType] : \A t \in UsesOf(p, b), k \in 0 .. HomeOf(p, b) - 1 :
                                         g[<<t, k>>] = Stage(p, b, t, k)
  <2>1. PICK g : g = [x \in U |-> Stage(p, b, x[1], x[2])]
    OBVIOUS
  <2>2. ASSUME NEW t \in UsesOf(p, b), NEW k \in 0 .. HomeOf(p, b) - 1
        PROVE  <<t, k>> \in U /\ g[<<t, k>>] = Stage(p, b, t, k)
    BY <1>5, <2>1
  <2>3. ASSUME NEW x \in U PROVE g[x] \in IntervalType
    <3>1. x[1] \in UsesOf(p, b) /\ x[2] \in 0 .. HomeOf(p, b) - 1
      BY <1>5
    <3>2. QED BY <1>7, <2>1, <3>1
  <2>4. g \in [U -> IntervalType]
    BY <2>1, <2>3
  <2>5. QED BY <2>2, <2>4
<1>9. IsFiniteSet(Range(g))
  BY <1>6, RangeFinite
<1>10. StagesOf(p, b) \subseteq Range(g)
  <2>1. SUFFICES ASSUME NEW t \in UsesOf(p, b), NEW k \in 0 .. HomeOf(p, b) - 1
                 PROVE  Stage(p, b, t, k) \in Range(g)
    BY DEF StagesOf
  <2>2. <<t, k>> \in DOMAIN g
    BY <1>5
  <2>3. QED BY <1>8, <2>2, InRange
<1>11. IsFiniteSet(StagesOf(p, b))
  BY <1>9, <1>10, FS_Subset
<1>12. QED BY <1>7, <1>11 DEF StagesOf

(* The intervals of a function are finitely many.                           *)
LEMMA IntervalsFinite ==
  ASSUME NEW p \in Programs
  PROVE  IsFiniteSet(Intervals(p)) /\ Intervals(p) \subseteq IntervalType
<1>1. IsFiniteSet(Bufs(p))
  <2>1. Bufs(p) = 1 .. Len(p.size) /\ 1 \in Int /\ Len(p.size) \in Int
    BY FunctionTyped
  <2>2. QED BY ONLY <2>1, FS_Interval
<1>2. PICK own \in [Bufs(p) -> IntervalType] : \A b \in Bufs(p) : own[b] = BufInterval(p, b)
  <2>1. [b \in Bufs(p) |-> BufInterval(p, b)] \in [Bufs(p) -> IntervalType]
    BY BufTyped
  <2>2. QED BY <2>1
<1>3. PICK staging \in [Bufs(p) -> SUBSET IntervalType] :
        \A b \in Bufs(p) : staging[b] = StagesOf(p, b)
  <2>1. [b \in Bufs(p) |-> StagesOf(p, b)] \in [Bufs(p) -> SUBSET IntervalType]
    BY StagesFinite
  <2>2. QED BY <2>1
<1>4. IsFiniteSet(Range(own)) /\ IsFiniteSet(Range(staging))
  BY <1>1, RangeFinite
<1>5. \A T \in Range(staging) : IsFiniteSet(T) /\ T \subseteq IntervalType
  BY <1>3, InRange, StagesFinite
<1>6. IsFiniteSet(UNION Range(staging))
  BY <1>4, <1>5, FS_UNION
<1>7. IsFiniteSet(Range(own) \cup UNION Range(staging))
  BY <1>4, <1>6, FS_Union
<1>8. Intervals(p) = {BufInterval(p, b) : b \in Bufs(p)} \cup UNION {StagesOf(p, b) : b \in Bufs(p)}
  BY DEF Intervals, StagesOf
<1>9. {BufInterval(p, b) : b \in Bufs(p)} \subseteq Range(own)
  BY <1>2, InRange
<1>10. \A b \in Bufs(p) : StagesOf(p, b) \in Range(staging)
  BY <1>3, InRange
<1>11. Intervals(p) \subseteq Range(own) \cup UNION Range(staging)
  <2>1. UNION {StagesOf(p, b) : b \in Bufs(p)} \subseteq UNION Range(staging)
    BY <1>10
  <2>2. QED BY <1>8, <1>9, <2>1
<1>12. Range(own) \subseteq IntervalType
  BY <1>2, InRange
<1>13. QED BY <1>5, <1>7, <1>11, <1>12, FS_Subset

LEMMA QueuesTypedAtFirst ==
  ASSUME NEW p \in Programs, NEW f \in FirstQueues(p)
  PROVE  /\ f \in [DOMAIN p.caps -> Seq(IntervalType)]
         /\ \A k \in DOMAIN p.caps : Range(f[k]) \subseteq Intervals(p)
<1>1. f \in [DOMAIN p.caps -> UNION {Queues({iv \in Intervals(p) : EntryTier(p, iv) = k}) : k \in DOMAIN p.caps}]
      /\ \A k \in DOMAIN p.caps : f[k] \in Queues({iv \in Intervals(p) : EntryTier(p, iv) = k})
  BY DEF FirstQueues
<1>2. ASSUME NEW k \in DOMAIN p.caps
      PROVE  f[k] \in Seq(IntervalType) /\ Range(f[k]) \subseteq Intervals(p)
  <2>1. PICK S : S = {iv \in Intervals(p) : EntryTier(p, iv) = k}
    OBVIOUS
  <2>2. S \subseteq Intervals(p) /\ f[k] \in Queues(S)
    BY <1>1, <2>1
  <2>3. Cardinality(S) \in Nat
    BY <2>2, IntervalsFinite, FS_Subset, FS_CardinalityType
  <2>4. f[k] \in [1 .. Cardinality(S) -> S]
    BY <2>2 DEF Queues
  <2>5. f[k] \in [1 .. Cardinality(S) -> IntervalType]
    BY <2>2, <2>4, IntervalsFinite
  <2>6. f[k] \in Seq(IntervalType)
    BY ONLY <2>3, <2>5, FunctionIsSeq
  <2>7. QED BY <2>2, <2>4, <2>6, InRange
<1>3. f = [k \in DOMAIN p.caps |-> f[k]]
  BY <1>1
<1>4. QED BY <1>2, <1>3

-----------------------------------------------------------------------------
(* The scan keeps its intervals, calls and memrefs well formed.             *)

LEMMA ScanInit == Init => ScanInv
<1> SUFFICES ASSUME Init PROVE ScanInv
  OBVIOUS
<1>1. /\ prog \in Programs /\ plan = Chains(prog)
      /\ phase = "alloc" /\ level = Bottom /\ stack = << >>
      /\ unhandled \in FirstQueues(prog)
      /\ placed = [k \in Tiers |-> << >>] /\ handled = [k \in Tiers |-> {}]
      /\ memMap = << >> /\ memrefs = [b \in Bufs(prog) |-> Unplaced(b)]
  BY DEF Init
<1>2. level \in -1 .. Bottom
  BY <1>1, TargetTyped
<1>3. Len(prog.size) \in Nat /\ Bufs(prog) = 1 .. Len(prog.size)
  BY <1>1, FunctionTyped
<1>4. memrefs \in Seq(MemrefType) /\ Len(memrefs) = Len(prog.size)
  <2>1. \A b \in Bufs(prog) : Unplaced(b) \in MemrefType
    BY DEF Unplaced, MemrefType, NoOffset
  <2>2. memrefs \in [1 .. Len(prog.size) -> MemrefType]
    BY <1>1, <1>3, <2>1
  <2>3. QED BY ONLY <1>3, <2>2, FunctionIsSeq
<1>5. MemrefsTyped
  BY <1>1, <1>3, <1>4 DEF MemrefsTyped
<1>6. StackTyped
  BY <1>1 DEF StackTyped
<1>7. ASSUME NEW b \in Bufs(prog) PROVE Sound(BufInterval(prog, b))
  <2>1. b \in 0 .. Len(memrefs)
    BY <1>3, <1>4
  <2>2. QED BY <1>1, <2>1, BufTyped DEF Sound, ExecTimes, BufInterval, IdOf
<1>8. ASSUME NEW b \in Bufs(prog), NEW t, NEW k PROVE Sound(Stage(prog, b, t, k))
  BY <1>3, <1>4 DEF Sound, Stage, NoMem
<1>9. \A iv \in Intervals(prog) : Sound(iv)
  BY <1>7, <1>8 DEF Intervals
<1>10. /\ unhandled \in [Tiers -> Seq(IntervalType)]
       /\ \A k \in Tiers : Range(unhandled[k]) \subseteq Intervals(prog)
  BY <1>1, QueuesTypedAtFirst DEF Tiers
<1>11. /\ placed \in [Tiers -> Seq(IntervalType)] /\ handled \in [Tiers -> SUBSET Nat]
       /\ \A k \in Tiers : handled[k] = {} /\ placed[k] = << >>
  BY <1>1
<1>12. \A k \in Tiers : Range(placed[k]) = {}
  BY <1>11 DEF Range
<1>13. QueuesTyped
  BY <1>9, <1>10, <1>11, <1>12 DEF QueuesTyped
<1>14. QED BY <1>1, <1>2, <1>5, <1>6, <1>13 DEF ScanInv

(* What is well formed stays so when memrefs are added.                     *)
LEMMA SoundStays ==
  ASSUME NEW iv, Sound(iv), prog' = prog, Len(memrefs) \in Nat, Len(memrefs') \in Nat,
         Len(memrefs) <= Len(memrefs')
  PROVE  Sound(iv)'
<1>1. \A m \in 0 .. Len(memrefs) : m \in 0 .. Len(memrefs')
  OBVIOUS
<1>2. ExecTimes' = ExecTimes /\ Bufs(prog') = Bufs(prog)
  BY DEF ExecTimes
<1>3. QED BY <1>1, <1>2 DEF Sound

(* The call on top of the stack.                                            *)
LEMMA TopTyped ==
  ASSUME ScanInv, stack # << >>
  PROVE  /\ Len(stack) \in Nat /\ Len(stack) \in DOMAIN stack /\ DOMAIN stack = 1 .. Len(stack)
         /\ Top \in FrameType /\ Top = stack[Len(stack)] /\ Tier \in Tiers /\ Tier \in Nat
         /\ unhandled[Tier] \in Seq(IntervalType) /\ placed[Tier] \in Seq(IntervalType)
         /\ Cur # NoInterval => Cur \in IntervalType /\ Sound(Cur)
         /\ Top.reload # NoInterval => Top.reload \in IntervalType /\ Sound(Top.reload)
<1>1. stack \in Seq(FrameType)
  BY DEF ScanInv, StackTyped
<1>2. /\ Len(stack) \in Nat /\ Len(stack) \in DOMAIN stack /\ DOMAIN stack = 1 .. Len(stack)
      /\ stack[Len(stack)] \in FrameType
  BY <1>1
<1>3. Top \in FrameType /\ Top = stack[Len(stack)]
  BY <1>2 DEF Top
<1>4. Tier \in Tiers /\ Tier \in Nat
  BY <1>2, <1>3 DEF ScanInv, StackTyped, Tier, FrameType
<1>5. unhandled[Tier] \in Seq(IntervalType) /\ placed[Tier] \in Seq(IntervalType)
  BY <1>4 DEF ScanInv, QueuesTyped
<1>6. Cur # NoInterval => Cur \in IntervalType /\ Sound(Cur)
  BY <1>2, <1>3 DEF ScanInv, StackTyped, Cur, FrameType
<1>7. Top.reload # NoInterval => Top.reload \in IntervalType /\ Sound(Top.reload)
  BY <1>2, <1>3 DEF ScanInv, StackTyped, FrameType
<1>8. QED BY <1>2, <1>3, <1>4, <1>5, <1>6, <1>7

LEMMA NoIntervalIsNone == NoInterval \notin IntervalType
BY DEF NoInterval, IntervalType

(* A step that changes the call on top, and adds one on the next tier or    *)
(* none.                                                                    *)
LEMMA TopChanged ==
  ASSUME ScanInv, stack # << >>, prog' = prog, Len(memrefs') \in Nat,
         Len(memrefs) <= Len(memrefs'),
         NEW f \in FrameType, f.tier = Tier,
         f.cur # NoInterval => Sound(f.cur)', f.reload # NoInterval => Sound(f.reload)',
         \/ stack' = SetTop(f)
         \/ stack' = Append(SetTop(f), Frame(Tier + 1)) /\ Tier < Bottom /\ f.cur # NoInterval
  PROVE  StackTyped'
<1>1. PICK n \in Nat : n = Len(stack) /\ n > 0 /\ DOMAIN stack = 1 .. n
  <2>1. Len(stack) \in Nat /\ Len(stack) \in 1 .. Len(stack) /\ DOMAIN stack = 1 .. Len(stack)
    BY TopTyped
  <2>2. Len(stack) > 0
    BY <2>1
  <2>3. QED BY <2>1, <2>2
<1>2. PICK s \in Seq(FrameType) : s = SetTop(f)
  <2>1. stack \in Seq(FrameType)
    BY DEF ScanInv, StackTyped
  <2>2. SetTop(f) \in Seq(FrameType)
    BY <1>1, <2>1 DEF SetTop
  <2>3. QED BY <2>2
<1>3. Len(s) = n /\ DOMAIN s = 1 .. n /\ s[n] = f /\ \A i \in 1 .. n : i # n => s[i] = stack[i]
  <2>1. stack \in Seq(FrameType)
    BY DEF ScanInv, StackTyped
  <2>2. QED BY <1>1, <1>2, <2>1 DEF SetTop
<1>4. Tiers' = Tiers /\ Tiers = 0 .. Bottom /\ Bottom \in Nat /\ Tier \in Tiers
  BY TargetTyped, TopTyped DEF ScanInv, Tiers
<1>5. \A i \in 1 .. n : stack[i].tier \in Tiers /\ stack[i].tier = stack[1].tier + (i - 1)
                        /\ stack[i].tier \in Int
  BY <1>1, <1>4 DEF ScanInv, StackTyped
<1>6. \A i \in 1 .. n : s[i].tier = stack[i].tier
  BY <1>1, <1>3 DEF Tier, Top
<1>7. 1 \in 1 .. n
  BY <1>1
<1>8. ASSUME NEW i \in 1 .. n
      PROVE  /\ s[i].tier \in Tiers /\ s[i].tier = s[1].tier + (i - 1)
             /\ s[i].cur # NoInterval => Sound(s[i].cur)'
             /\ s[i].reload # NoInterval => Sound(s[i].reload)'
             /\ i < n => s[i].cur # NoInterval
  <2>1. s[i].tier \in Tiers /\ s[i].tier = s[1].tier + (i - 1)
    BY <1>5, <1>6, <1>7
  <2>2. CASE i = n
    BY <1>1, <1>3, <2>1, <2>2
  <2>3. CASE i # n
    <3>1. s[i] = stack[i] /\ i < n
      BY <1>1, <1>3, <2>3
    <3>2. /\ stack[i].cur # NoInterval /\ Sound(stack[i].cur)
          /\ stack[i].reload # NoInterval => Sound(stack[i].reload)
      BY <1>1, <3>1 DEF ScanInv, StackTyped
    <3>3. Len(memrefs) \in Nat
      BY DEF ScanInv, MemrefsTyped
    <3>5. PICK c : c = s[i].cur
      OBVIOUS
    <3>6. PICK r : r = s[i].reload
      OBVIOUS
    <3>7. Sound(c) /\ (r # NoInterval => Sound(r))
      BY <3>1, <3>2, <3>5, <3>6
    <3>8. Sound(c)' /\ (r # NoInterval => Sound(r)')
      BY <3>3, <3>7, SoundStays
    <3>9. QED BY <2>1, <3>1, <3>2, <3>5, <3>6, <3>8
  <2>4. QED BY <2>2, <2>3
<1>9. CASE stack' = SetTop(f)
  <2>1. stack' = s
    BY <1>2, <1>9
  <2>2. QED BY <1>3, <1>4, <1>8, <2>1 DEF StackTyped
<1>10. CASE stack' = Append(SetTop(f), Frame(Tier + 1)) /\ Tier < Bottom /\ f.cur # NoInterval
  <2>1. PICK e \in FrameType : e = Frame(Tier + 1)
    <3>1. Tier \in Nat
      BY TopTyped
    <3>2. Frame(Tier + 1) \in FrameType
      BY <3>1 DEF Frame, FrameType
    <3>3. QED BY <3>2
  <2>2. stack' = Append(s, e)
    BY <1>2, <1>10, <2>1
  <2>3. /\ stack' \in Seq(FrameType) /\ Len(stack') = n + 1 /\ DOMAIN stack' = 1 .. n + 1
        /\ \A i \in 1 .. n : stack'[i] = s[i]
        /\ stack'[n + 1] = e
    BY <1>3, <2>2
  <2>4. e.tier = Tier + 1 /\ e.cur = NoInterval /\ e.reload = NoInterval
    BY <2>1 DEF Frame
  <2>5. e.tier \in Tiers /\ e.tier = s[1].tier + n
    <3>1. Tier = s[n].tier /\ n \in 1 .. n /\ s[1].tier \in Int
      BY <1>1, <1>3, <1>5, <1>6, <1>7
    <3>2. s[n].tier = s[1].tier + (n - 1)
      BY <1>8, <3>1
    <3>3. QED BY <1>4, <1>10, <2>4, <3>1, <3>2, SMTT(40)
  <2>6. s[n].cur # NoInterval
    BY <1>3, <1>10
  <2>7. ASSUME NEW i \in 1 .. n + 1
        PROVE  /\ stack'[i].tier \in Tiers /\ stack'[i].tier = stack'[1].tier + (i - 1)
               /\ stack'[i].cur # NoInterval => Sound(stack[i].cur)'
               /\ stack'[i].reload # NoInterval => Sound(stack[i].reload)'
               /\ i < n + 1 => stack'[i].cur # NoInterval
    <3>1. CASE i = n + 1
      BY <1>1, <1>7, <2>3, <2>4, <2>5, <3>1
    <3>2. CASE i # n + 1
      <4>1. i \in 1 .. n /\ (i = n \/ i < n)
        BY <3>2
      <4>2. QED BY <1>7, <1>8, <2>3, <2>6, <4>1
    <3>3. QED BY <3>1, <3>2
  <2>8. QED BY <1>4, <2>3, <2>7 DEF StackTyped
<1>11. QED BY <1>9, <1>10

LEMMA IntervalsStay ==
  ASSUME ScanInv, prog' = prog, Len(memrefs') \in Nat, Len(memrefs) <= Len(memrefs')
  PROVE  /\ Tiers' = Tiers /\ Chains(prog') = Chains(prog)
         /\ \A k \in Tiers : \A iv \in Range(unhandled[k]) \cup Range(placed[k]) : Sound(iv)'
<1>1. Len(memrefs) \in Nat
  BY DEF ScanInv, MemrefsTyped
<1>2. ASSUME NEW k \in Tiers, NEW iv \in Range(unhandled[k]) \cup Range(placed[k])
      PROVE  Sound(iv)'
  <2>1. Sound(iv)
    BY DEF ScanInv, QueuesTyped
  <2>2. QED BY <1>1, <2>1, SoundStays
<1>3. QED BY <1>2 DEF Tiers

(* A step that leaves the intervals of the tiers alone.                     *)
LEMMA QueuesStay ==
  ASSUME ScanInv, prog' = prog, UNCHANGED tiersState, Len(memrefs') \in Nat,
         Len(memrefs) <= Len(memrefs')
  PROVE  QueuesTyped'
<1>1. /\ Tiers' = Tiers
      /\ \A k \in Tiers : \A iv \in Range(unhandled[k]) \cup Range(placed[k]) : Sound(iv)'
  BY IntervalsStay
<1>2. unhandled' = unhandled /\ placed' = placed /\ handled' = handled
  BY DEF tiersState
<1>3. QED BY <1>1, <1>2 DEF ScanInv, QueuesTyped

(* One that leaves the memrefs and the calls alone.                         *)
LEMMA MemrefsStay ==
  ASSUME ScanInv, prog' = prog, memrefs' = memrefs, memMap' = memMap
  PROVE  /\ MemrefsTyped' /\ Len(memrefs') \in Nat /\ Len(memrefs) <= Len(memrefs')
         /\ Bottom' = Bottom
<1>1. MemrefType' = MemrefType /\ Bottom' = Bottom
  BY DEF MemrefType, Bottom, Tiers
<1>2. memrefs \in Seq(MemrefType)
  BY DEF ScanInv, MemrefsTyped
<1>3. QED BY <1>1, <1>2 DEF ScanInv, MemrefsTyped

LEMMA CallsStay ==
  ASSUME ScanInv, prog' = prog, memrefs' = memrefs, stack' = stack
  PROVE  StackTyped'
<1>1. Tiers' = Tiers /\ \A iv : Sound(iv)' = Sound(iv)
  BY DEF Tiers, Sound, ExecTimes
<1>2. QED BY <1>1 DEF ScanInv, StackTyped

LEMMA ScanStartTier == ScanInv /\ StartTier => ScanInv'
<1> SUFFICES ASSUME ScanInv, StartTier PROVE ScanInv'
  OBVIOUS
<1>1. /\ prog' = prog /\ plan' = plan /\ phase' = phase /\ UNCHANGED tiersState
      /\ memrefs' = memrefs /\ memMap' = memMap
      /\ stack' = <<Frame(level)>> /\ level >= 0 /\ level' = level - 1
  BY DEF StartTier, outState
<1>2. MemrefsTyped' /\ Bottom' = Bottom /\ QueuesTyped' /\ Tiers' = Tiers
  BY <1>1, MemrefsStay, QueuesStay, IntervalsStay
<1>3. level \in Tiers /\ level \in Nat /\ level' \in -1 .. Bottom
  BY <1>1, TargetTyped DEF ScanInv
<1>4. StackTyped'
  <2>1. PICK e \in FrameType : e = Frame(level)
    BY <1>3 DEF Frame, FrameType
  <2>2. e.tier = level /\ e.cur = NoInterval /\ e.reload = NoInterval
    BY <2>1 DEF Frame
  <2>3. stack' \in Seq(FrameType) /\ Len(stack') = 1 /\ DOMAIN stack' = 1 .. 1 /\ stack'[1] = e
    BY <1>1, <2>1
  <2>4. \A i \in 1 .. 1 : i = 1
    OBVIOUS
  <2>5. ASSUME NEW i \in DOMAIN stack' PROVE i = 1
    BY <2>3, <2>4
  <2>6. level = level + (1 - 1) /\ ~ (1 < 1)
    BY <1>3
  <2>7. QED BY <1>2, <1>3, <2>2, <2>3, <2>5, <2>6 DEF StackTyped
<1>5. QED BY <1>1, <1>2, <1>3, <1>4 DEF ScanInv

LEMMA ScanTake == ScanInv /\ Take => ScanInv'
<1> SUFFICES ASSUME ScanInv, Take PROVE ScanInv'
  OBVIOUS
<1>1. /\ prog' = prog /\ plan' = plan /\ phase' = phase /\ level' = level /\ placed' = placed
      /\ memrefs' = memrefs /\ memMap' = memMap /\ stack # << >> /\ unhandled[Tier] # << >>
      /\ unhandled' = [unhandled EXCEPT ![Tier] = Tail(@)]
  BY DEF Take, outState, Idle, Calling
<1>2. PICK iv, dead : /\ iv = Head(unhandled[Tier]) /\ dead \subseteq Active(Tier)
                      /\ handled' = [handled EXCEPT ![Tier] = @ \cup dead]
                      /\ stack' = IF iv.start >= iv.end THEN stack
                                  ELSE SetTop([Top EXCEPT !.cur = iv, !.excluded = {}])
  BY DEF Take
<1>3. MemrefsTyped' /\ Bottom' = Bottom /\ Len(memrefs') \in Nat /\ Len(memrefs) <= Len(memrefs')
  BY <1>1, MemrefsStay
<1>4. /\ Tiers' = Tiers
      /\ \A k \in Tiers : \A x \in Range(unhandled[k]) \cup Range(placed[k]) : Sound(x)'
  BY <1>1, <1>3, IntervalsStay
<1>5. PICK q \in Seq(IntervalType) : q = unhandled[Tier] /\ q # << >> /\ Tier \in Tiers
  BY <1>1, TopTyped
<1>6. /\ iv \in IntervalType /\ iv \in Range(q) /\ Tail(q) \in Seq(IntervalType)
      /\ \A x \in Range(Tail(q)) : x \in Range(q)
  BY <1>2, <1>5, TailElements
<1>7. Sound(iv)'
  BY <1>4, <1>5, <1>6
<1>8. QueuesTyped'
  <2>1. /\ unhandled' \in [Tiers -> Seq(IntervalType)]
        /\ \A k \in Tiers : \A x \in Range(unhandled'[k]) : x \in Range(unhandled[k])
    BY <1>1, <1>5, <1>6 DEF ScanInv, QueuesTyped
  <2>2. Active(Tier) \subseteq DOMAIN placed[Tier] /\ DOMAIN placed[Tier] \subseteq Nat
    BY TopTyped, <1>1 DEF Active
  <2>3. /\ handled' \in [Tiers -> SUBSET Nat]
        /\ \A k \in Tiers : handled'[k] \subseteq DOMAIN placed[k]
    BY <1>2, <1>5, <2>2 DEF ScanInv, QueuesTyped
  <2>4. placed' \in [Tiers -> Seq(IntervalType)]
    BY <1>1 DEF ScanInv, QueuesTyped
  <2>5. QED BY <1>1, <1>4, <2>1, <2>3, <2>4 DEF QueuesTyped
<1>9. StackTyped'
  <2>1. CASE stack' = stack
    BY <1>1, <2>1, CallsStay
  <2>2. CASE stack' = SetTop([Top EXCEPT !.cur = iv, !.excluded = {}])
    <3>1. PICK f \in FrameType : /\ f = [Top EXCEPT !.cur = iv, !.excluded = {}]
                                 /\ f.tier = Tier /\ f.cur = iv /\ f.reload = Top.reload
      <4>1. PICK t \in FrameType : t = Top
        BY <1>1, TopTyped
      <4>2. PICK f : f = [t EXCEPT !.cur = iv, !.excluded = {}]
        OBVIOUS
      <4>3. f \in FrameType /\ f.tier = t.tier /\ f.cur = iv /\ f.reload = t.reload
        BY <1>6, <4>2 DEF FrameType
      <4>4. QED BY <4>1, <4>2, <4>3 DEF Tier
    <3>2. PICK r : r = Top.reload
      OBVIOUS
    <3>3. r # NoInterval => Sound(r)
      BY <1>1, <3>2, TopTyped
    <3>4. r # NoInterval => Sound(r)'
      <4>1. Len(memrefs) \in Nat
        BY DEF ScanInv, MemrefsTyped
      <4>2. QED BY <1>1, <1>3, <3>3, <4>1, SoundStays
    <3>5. f.cur # NoInterval => Sound(f.cur)'
      BY <1>7, <3>1
    <3>6. f.reload # NoInterval => Sound(f.reload)'
      BY <3>1, <3>2, <3>4
    <3>7. stack' = SetTop(f)
      BY <2>2, <3>1
    <3>8. QED BY <1>1, <1>3, <3>1, <3>5, <3>6, <3>7, TopChanged
  <2>3. QED BY <1>2, <2>1, <2>2
<1>10. QED BY <1>1, <1>3, <1>4, <1>8, <1>9 DEF ScanInv

(* The interval being placed, with its place, is an interval.               *)
LEMMA RoomIsTyped ==
  ASSUME ScanInv, stack # << >>, Cur # NoInterval, NEW o \in Room
  PROVE  /\ o \in Nat /\ [Cur EXCEPT !.offset = o] \in IntervalType
         /\ Sound(Cur) => Sound([Cur EXCEPT !.offset = o])
<1>1. o \in Nat
  BY DEF Room, Offsets
<1>2. PICK c \in IntervalType : c = Cur
  BY TopTyped
<1>3. [c EXCEPT !.offset = o] \in IntervalType
  BY <1>1 DEF IntervalType
<1>4. Sound(c) => Sound([c EXCEPT !.offset = o])
  BY <1>1 DEF IntervalType, Sound
<1>5. QED BY <1>1, <1>2, <1>3, <1>4

LEMMA AnnotatedTyped ==
  ASSUME ScanInv, NEW k \in Nat, NEW o \in Int
  PROVE  Annotated(k, o) \in Seq(MemrefType) /\ Len(Annotated(k, o)) = Len(memrefs)
<1>1. PICK s \in Seq(MemrefType) : s = memrefs
  BY DEF ScanInv, MemrefsTyped
<1>2. ASSUME NEW m
      PROVE  /\ [s EXCEPT ![m] = [buf |-> @.buf, tier |-> k, offset |-> o]] \in Seq(MemrefType)
             /\ Len([s EXCEPT ![m] = [buf |-> @.buf, tier |-> k, offset |-> o]]) = Len(s)
  <2>1. PICK u : u = [s EXCEPT ![m] = [buf |-> @.buf, tier |-> k, offset |-> o]]
    OBVIOUS
  <2>2. DOMAIN u = 1 .. Len(s) /\ Len(s) \in Nat
    BY <2>1
  <2>3. \A i \in 1 .. Len(s) : s[i] \in MemrefType
    OBVIOUS
  <2>4. \A i \in 1 .. Len(s) :
          u[i] = IF i = m THEN [buf |-> s[i].buf, tier |-> k, offset |-> o] ELSE s[i]
    BY <2>1
  <2>5. \A e \in MemrefType : [buf |-> e.buf, tier |-> k, offset |-> o] \in MemrefType
    BY DEF MemrefType
  <2>6. \A i \in 1 .. Len(s) : u[i] \in MemrefType
    BY <2>3, <2>4, <2>5
  <2>7. u \in [1 .. Len(s) -> MemrefType]
    BY <2>1, <2>2, <2>6
  <2>8. u \in Seq(MemrefType) /\ Len(u) = Len(s)
    BY ONLY <2>2, <2>7, FunctionIsSeq
  <2>9. QED BY <2>1, <2>8
<1>3. QED BY <1>1, <1>2 DEF Annotated

LEMMA ScanPlace == ScanInv /\ Place => ScanInv'
<1> SUFFICES ASSUME ScanInv, Place PROVE ScanInv'
  OBVIOUS
<1>1. /\ prog' = prog /\ plan' = plan /\ phase' = phase /\ level' = level
      /\ unhandled' = unhandled /\ handled' = handled
      /\ stack # << >> /\ Cur # NoInterval
      /\ stack' = SetTop([Top EXCEPT !.cur = NoInterval])
  BY DEF Place, Placing, Calling
<1>2. PICK o \in Room :
        /\ placed' = [placed EXCEPT ![Tier] = Append(@, [Cur EXCEPT !.offset = o])]
        /\ memrefs' = Annotated(Tier, o)
        /\ memMap' = [x \in DOMAIN memMap \cup {Cur.id} |-> IF x = Cur.id THEN o ELSE memMap[x]]
  BY DEF Place
<1>3. PICK c \in IntervalType : c = [Cur EXCEPT !.offset = o] /\ Sound(c)
  BY <1>1, RoomIsTyped, TopTyped
<1>4. o \in Nat /\ Tier \in Nat /\ Tier \in Tiers /\ placed[Tier] \in Seq(IntervalType)
  BY <1>1, TopTyped, RoomIsTyped
<1>5. /\ memrefs' \in Seq(MemrefType) /\ Len(memrefs') = Len(memrefs)
      /\ Len(memrefs) \in Nat /\ Len(memrefs') \in Nat /\ Len(memrefs) <= Len(memrefs')
  <2>1. o \in Int
    BY <1>4
  <2>2. memrefs' \in Seq(MemrefType) /\ Len(memrefs') = Len(memrefs)
    BY <1>2, <1>4, <2>1, AnnotatedTyped
  <2>3. Len(memrefs) \in Nat
    BY DEF ScanInv, MemrefsTyped
  <2>4. QED BY <2>2, <2>3
<1>6. MemrefType' = MemrefType /\ Bottom' = Bottom
  BY <1>1 DEF MemrefType, Bottom, Tiers
<1>7. \A x \in DOMAIN memMap' : memMap'[x] \in Int
  BY <1>2, <1>4 DEF ScanInv, MemrefsTyped
<1>8. MemrefsTyped'
  <2>1. prog' = prog /\ Len(prog.size) <= Len(memrefs)
    BY <1>1 DEF ScanInv, MemrefsTyped
  <2>2. QED BY <1>5, <1>6, <1>7, <2>1 DEF MemrefsTyped
<1>9. /\ Tiers' = Tiers
      /\ \A k \in Tiers : \A x \in Range(unhandled[k]) \cup Range(placed[k]) : Sound(x)'
  BY <1>1, <1>5, IntervalsStay
<1>10. Sound(c)'
  BY <1>1, <1>3, <1>5, SoundStays
<1>11. PICK q \in Seq(IntervalType) : q = placed[Tier]
  BY <1>4
<1>12. PICK r \in Seq(IntervalType) :
         r = Append(q, c) /\ Range(r) = Range(q) \cup {c} /\ DOMAIN q \subseteq DOMAIN r
  <2>1. Append(q, c) \in Seq(IntervalType) /\ Range(Append(q, c)) = Range(q) \cup {c}
    BY Appended
  <2>2. DOMAIN q \subseteq DOMAIN Append(q, c)
    OBVIOUS
  <2>3. QED BY <2>1, <2>2
<1>13. placed' = [placed EXCEPT ![Tier] = r]
  BY <1>2, <1>3, <1>11, <1>12
<1>14. QueuesTyped'
  <2>1. placed' \in [Tiers -> Seq(IntervalType)]
    BY <1>4, <1>13 DEF ScanInv, QueuesTyped
  <2>2. /\ placed'[Tier] = r
        /\ \A k \in Tiers : k # Tier => placed'[k] = placed[k]
    BY <1>4, <1>13 DEF ScanInv, QueuesTyped
  <2>3. \A k \in Tiers : handled[k] \subseteq DOMAIN placed'[k]
    BY <1>11, <1>12, <2>2 DEF ScanInv, QueuesTyped
  <2>4. \A k \in Tiers : \A x \in Range(placed'[k]) : Sound(x)'
    BY <1>9, <1>10, <1>11, <1>12, <2>2
  <2>5. QED BY <1>1, <1>9, <2>1, <2>3, <2>4 DEF ScanInv, QueuesTyped
<1>15. StackTyped'
  <2>1. PICK t \in FrameType : t = Top
    BY <1>1, TopTyped
  <2>2. PICK f : f = [t EXCEPT !.cur = NoInterval]
    OBVIOUS
  <2>3. f \in FrameType /\ f.tier = Tier /\ f.cur = NoInterval /\ f.reload = t.reload
    BY <2>1, <2>2 DEF FrameType, Tier
  <2>4. t.reload # NoInterval => Sound(t.reload)
    BY <1>1, <2>1, TopTyped
  <2>5. PICK r1 : r1 = t.reload
    OBVIOUS
  <2>6. r1 # NoInterval => Sound(r1)'
    BY <1>1, <1>5, <2>4, <2>5, SoundStays
  <2>7. f.reload # NoInterval => Sound(f.reload)'
    BY <2>3, <2>5, <2>6
  <2>8. stack' = SetTop(f)
    BY <1>1, <2>1, <2>2
  <2>9. f.cur # NoInterval => Sound(f.cur)'
    BY <2>3
  <2>10. QED BY <1>1, <1>5, <2>3, <2>7, <2>8, <2>9, TopChanged
<1>16. QED BY <1>1, <1>6, <1>8, <1>9, <1>14, <1>15 DEF ScanInv

LEMMA ScanGiveUp == ScanInv /\ GiveUp => ScanInv'
<1> SUFFICES ASSUME ScanInv, GiveUp PROVE ScanInv'
  OBVIOUS
<1>1. /\ prog' = prog /\ plan' = plan /\ phase' = phase /\ level' = level
      /\ UNCHANGED tiersState /\ memrefs' = memrefs /\ memMap' = memMap
      /\ stack # << >> /\ Cur # NoInterval
      /\ stack' = SetTop([Top EXCEPT !.cur = NoInterval, !.ok = FALSE])
  BY DEF GiveUp, Placing, Calling
<1>2. /\ MemrefsTyped' /\ Bottom' = Bottom /\ Len(memrefs') \in Nat
      /\ Len(memrefs) <= Len(memrefs')
  BY <1>1, MemrefsStay
<1>3. QueuesTyped' /\ Tiers' = Tiers
  BY <1>1, <1>2, QueuesStay, IntervalsStay
<1>4. PICK t \in FrameType : t = Top
  BY <1>1, TopTyped
<1>5. PICK f : f = [t EXCEPT !.cur = NoInterval, !.ok = FALSE]
  OBVIOUS
<1>6. f \in FrameType /\ f.tier = Tier /\ f.cur = NoInterval /\ f.reload = t.reload
  BY <1>4, <1>5 DEF FrameType, Tier
<1>7. PICK r : r = t.reload
  OBVIOUS
<1>8. r # NoInterval => Sound(r)'
  <2>1. r # NoInterval => Sound(r)
    BY <1>1, <1>4, <1>7, TopTyped
  <2>2. Len(memrefs) \in Nat
    BY DEF ScanInv, MemrefsTyped
  <2>3. QED BY <1>1, <1>2, <2>1, <2>2, SoundStays
<1>9. f.reload # NoInterval => Sound(f.reload)'
  BY <1>6, <1>7, <1>8
<1>10. f.cur # NoInterval => Sound(f.cur)'
  BY <1>6
<1>11. stack' = SetTop(f)
  BY <1>1, <1>4, <1>5
<1>12. StackTyped'
  BY <1>1, <1>2, <1>6, <1>9, <1>10, <1>11, TopChanged
<1>13. QED BY <1>1, <1>2, <1>3, <1>12 DEF ScanInv

(* A step of the pass or of its code outside the scan.                      *)
LEMMA ScanRest ==
  ScanInv /\ (SpillOfNothing \/ Scanned \/ Finish \/ Execute \/ UNCHANGED vars) => ScanInv'
<1> SUFFICES ASSUME ScanInv, SpillOfNothing \/ Scanned \/ Finish \/ Execute \/ UNCHANGED vars
             PROVE  ScanInv'
  OBVIOUS
<1>1. /\ prog' = prog /\ plan' = plan /\ level' = level /\ UNCHANGED tiersState
      /\ stack' = stack /\ memrefs' = memrefs /\ memMap' = memMap
  BY DEF SpillOfNothing, Scanned, Finish, Execute, vars, outState, tiersState
<1>2. phase' \in {"alloc", "emit", "run", "failed", "crashed"}
  BY DEF SpillOfNothing, Scanned, Finish, Execute, vars, ScanInv
<1>3. /\ MemrefsTyped' /\ Bottom' = Bottom /\ Len(memrefs') \in Nat
      /\ Len(memrefs) <= Len(memrefs')
  BY <1>1, MemrefsStay
<1>4. QueuesTyped' /\ Tiers' = Tiers /\ StackTyped'
  BY <1>1, <1>3, QueuesStay, IntervalsStay, CallsStay
<1>5. QED BY <1>1, <1>2, <1>3, <1>4 DEF ScanInv

(* Queueing an interval for a tier.                                         *)
LEMMA QueueGrows ==
  ASSUME ScanInv, prog' = prog, Len(memrefs') \in Nat, Len(memrefs) <= Len(memrefs'),
         NEW k \in Tiers, NEW iv \in IntervalType, Sound(iv)',
         unhandled' = [unhandled EXCEPT ![k] = AddUnhandled(@, iv)]
  PROVE  /\ unhandled' \in [Tiers -> Seq(IntervalType)]
         /\ \A j \in Tiers : \A x \in Range(unhandled'[j]) : Sound(x)'
<1>1. \A j \in Tiers : \A x \in Range(unhandled[j]) : Sound(x)'
  BY IntervalsStay
<1>2. unhandled \in [Tiers -> Seq(IntervalType)]
  BY DEF ScanInv, QueuesTyped
<1>3. PICK q \in Seq(IntervalType) : q = unhandled[k]
  BY <1>2
<1>4. PICK r \in Seq(IntervalType) : r = AddUnhandled(q, iv) /\ Range(r) = Range(q) \cup {iv}
  BY AddUnhandledElements
<1>5. unhandled' = [unhandled EXCEPT ![k] = r]
  BY <1>3, <1>4
<1>6. /\ unhandled' \in [Tiers -> Seq(IntervalType)] /\ unhandled'[k] = r
      /\ \A j \in Tiers : j # k => unhandled'[j] = unhandled[j]
  BY <1>2, <1>5
<1>7. QED BY <1>1, <1>3, <1>4, <1>6

LEMMA ScanReturn == ScanInv /\ Return => ScanInv'
<1> SUFFICES ASSUME ScanInv, Return PROVE ScanInv'
  OBVIOUS
<1>1. /\ prog' = prog /\ plan' = plan /\ phase' = phase /\ level' = level /\ placed' = placed
      /\ handled' = handled /\ memrefs' = memrefs /\ memMap' = memMap
      /\ stack # << >>
  BY DEF Return, Idle, Calling
<1>2. /\ MemrefsTyped' /\ Bottom' = Bottom /\ Len(memrefs') \in Nat
      /\ Len(memrefs) <= Len(memrefs')
  BY <1>1, MemrefsStay
<1>3. /\ Tiers' = Tiers
      /\ \A k \in Tiers : \A x \in Range(unhandled[k]) \cup Range(placed[k]) : Sound(x)'
  BY <1>1, <1>2, IntervalsStay
<1>4. PICK s \in Seq(FrameType) : s = stack
  BY DEF ScanInv, StackTyped
<1>5. PICK n \in Nat : n = Len(s) /\ n > 0 /\ DOMAIN s = 1 .. n
  <2>1. s # << >>
    BY <1>1, <1>4
  <2>2. QED BY <2>1
<1>6. \A iv : Sound(iv)' = Sound(iv)
  BY <1>1 DEF Sound, ExecTimes
<1>7. \A i \in 1 .. n :
        /\ s[i] \in FrameType /\ s[i].tier \in Tiers /\ s[i].tier = s[1].tier + (i - 1)
        /\ s[i].cur # NoInterval => Sound(s[i].cur)
        /\ s[i].reload # NoInterval => Sound(s[i].reload)
        /\ i < n => s[i].cur # NoInterval
  BY <1>4, <1>5 DEF ScanInv, StackTyped
<1>8. /\ handled' \in [Tiers -> SUBSET Nat] /\ placed' \in [Tiers -> Seq(IntervalType)]
      /\ \A k \in Tiers : handled'[k] \subseteq DOMAIN placed'[k]
  BY <1>1 DEF ScanInv, QueuesTyped
<1>9. CASE n = 1
  <2>1. stack' = << >> /\ unhandled' = unhandled
    BY <1>4, <1>5, <1>9 DEF Return
  <2>2. StackTyped'
    BY <2>1 DEF StackTyped
  <2>3. unhandled' \in [Tiers -> Seq(IntervalType)]
    BY <2>1 DEF ScanInv, QueuesTyped
  <2>4. QueuesTyped'
    BY <1>1, <1>3, <1>8, <2>1, <2>3 DEF QueuesTyped
  <2>5. QED BY <1>1, <1>2, <1>3, <2>2, <2>4 DEF ScanInv
<1>10. CASE n # 1
  <2>1. n - 1 \in 1 .. n /\ n - 2 \in Nat /\ n - 1 < n
    BY <1>5, <1>10
  <2>2. PICK caller \in FrameType : caller = s[n - 1]
    BY <1>7, <2>1
  <2>3. /\ stack' = Append(SubSeq(s, 1, n - 2), [caller EXCEPT !.reload = NoInterval])
        /\ unhandled' = IF caller.reload = NoInterval THEN unhandled
                        ELSE [unhandled EXCEPT ![caller.tier] = AddUnhandled(@, caller.reload)]
    BY <1>4, <1>5, <1>10, <2>2 DEF Return
  <2>4. PICK f : f = [caller EXCEPT !.reload = NoInterval]
    OBVIOUS
  <2>5. /\ f \in FrameType /\ f.tier = caller.tier /\ f.cur = caller.cur
        /\ f.reload = NoInterval
    BY <2>4 DEF FrameType
  <2>6. /\ stack' \in Seq(FrameType) /\ Len(stack') = n - 1 /\ DOMAIN stack' = 1 .. n - 1
        /\ \A i \in 1 .. n - 2 : stack'[i] = s[i]
        /\ stack'[n - 1] = f
    <3>1. PICK r \in Seq(FrameType) : /\ r = SubSeq(s, 1, n - 2) /\ Len(r) = n - 2
                                      /\ \A i \in 1 .. n - 2 : r[i] = s[i]
      <4>1. n - 2 <= Len(s)
        BY <1>5
      <4>2. QED BY <2>1, <4>1, Shortened, ZenonT(60)
    <3>2. stack' = Append(r, f)
      BY <2>3, <2>4, <3>1
    <3>3. QED BY <2>1, <2>5, <3>1, <3>2
  <2>7. ASSUME NEW i \in 1 .. n - 1
        PROVE  stack'[i].tier = s[i].tier /\ stack'[i].cur = s[i].cur
               /\ (stack'[i].reload = NoInterval \/ stack'[i].reload = s[i].reload)
    <3>1. CASE i = n - 1
      BY <2>2, <2>5, <2>6, <3>1
    <3>2. CASE i # n - 1
      <4>1. i \in 1 .. n - 2
        BY <2>1, <3>2
      <4>2. QED BY <2>6, <4>1
    <3>3. QED BY <3>1, <3>2
  <2>8. StackTyped'
    <3>1. ASSUME NEW i \in 1 .. n - 1
          PROVE  /\ stack'[i].tier \in Tiers /\ stack'[i].tier = stack'[1].tier + (i - 1)
                 /\ stack'[i].cur # NoInterval => Sound(stack[i].cur)'
                 /\ stack'[i].reload # NoInterval => Sound(stack[i].reload)'
                 /\ stack'[i].cur # NoInterval
      <4>1. i \in 1 .. n /\ i < n /\ 1 \in 1 .. n - 1
        BY <2>1
      <4>2. stack'[i].tier \in Tiers /\ stack'[i].tier = stack'[1].tier + (i - 1)
            /\ stack'[i].cur # NoInterval
        BY <1>7, <2>7, <4>1
      <4>3. PICK c : c = stack'[i].cur
        OBVIOUS
      <4>4. PICK r : r = stack'[i].reload
        OBVIOUS
      <4>5. Sound(c) /\ (r # NoInterval => Sound(r))
        BY <1>7, <2>7, <4>1, <4>3, <4>4
      <4>6. Sound(c)' /\ (r # NoInterval => Sound(r)')
        BY <1>6, <4>5
      <4>7. QED BY <4>2, <4>3, <4>4, <4>6
    <3>2. QED BY <1>3, <2>6, <3>1 DEF StackTyped
  <2>9. /\ unhandled' \in [Tiers -> Seq(IntervalType)]
        /\ \A k \in Tiers : \A x \in Range(unhandled'[k]) : Sound(x)'
    <3>1. CASE caller.reload = NoInterval
      <4>1. unhandled' = unhandled
        BY <2>3, <3>1
      <4>2. QED BY <1>3, <4>1 DEF ScanInv, QueuesTyped
    <3>2. CASE caller.reload # NoInterval
      <4>1. PICK iv \in IntervalType : iv = caller.reload
        BY <3>2 DEF FrameType
      <4>2. PICK k \in Tiers : k = caller.tier
        BY <1>7, <2>1, <2>2
      <4>3. Sound(iv)'
        <5>1. Sound(iv)
          BY <1>7, <2>1, <2>2, <3>2, <4>1
        <5>2. QED BY <1>6, <5>1
      <4>4. unhandled' = [unhandled EXCEPT ![k] = AddUnhandled(@, iv)]
        BY <2>3, <3>2, <4>1, <4>2
      <4>5. QED BY <1>1, <1>2, <4>3, <4>4, QueueGrows
    <3>3. QED BY <3>1, <3>2
  <2>10. QueuesTyped'
    BY <1>1, <1>3, <1>8, <2>9 DEF QueuesTyped
  <2>11. QED BY <1>1, <1>2, <1>3, <2>8, <2>10 DEF ScanInv
<1>11. QED BY <1>9, <1>10

(* Memrefs added by a step of the pass.                                     *)
LEMMA MemrefsAdded ==
  ASSUME ScanInv, prog' = prog, memMap' = memMap, NEW t \in Seq(MemrefType),
         memrefs' = memrefs \o t
  PROVE  /\ MemrefsTyped' /\ Bottom' = Bottom /\ Len(memrefs') = Len(memrefs) + Len(t)
         /\ Len(memrefs) \in Nat /\ Len(memrefs') \in Nat /\ Len(memrefs) <= Len(memrefs')
<1>1. MemrefType' = MemrefType /\ Bottom' = Bottom
  BY DEF MemrefType, Bottom, Tiers
<1>2. PICK s \in Seq(MemrefType) : s = memrefs
  BY DEF ScanInv, MemrefsTyped
<1>3. s \o t \in Seq(MemrefType) /\ Len(s \o t) = Len(s) + Len(t)
  BY ConcatElements
<1>4. Len(s) \in Nat /\ Len(t) \in Nat
  BY LenProperties
<1>5. PICK z \in Nat : z = Len(prog.size) /\ z <= Len(s)
  BY <1>2, FunctionTyped DEF ScanInv, MemrefsTyped
<1>6. z <= Len(s \o t)
  BY <1>3, <1>4, <1>5
<1>7. QED BY <1>1, <1>2, <1>3, <1>4, <1>5, <1>6 DEF ScanInv, MemrefsTyped

LEMMA CallsStayAdded ==
  ASSUME ScanInv, prog' = prog, stack' = stack, Len(memrefs') \in Nat,
         Len(memrefs) <= Len(memrefs')
  PROVE  StackTyped'
<1>1. Len(memrefs) \in Nat /\ Tiers' = Tiers
  BY DEF ScanInv, MemrefsTyped, Tiers
<1>2. \A iv : Sound(iv) => Sound(iv)'
  BY <1>1, SoundStays
<1>3. QED BY <1>1, <1>2 DEF ScanInv, StackTyped

LEMMA StageMemrefsTyped ==
  ASSUME ScanInv, NEW b \in Bufs(prog), NEW t
  PROVE  StageMemrefs(b, t) \in Seq(MemrefType) /\ Len(StageMemrefs(b, t)) = HomeOf(prog, b)
<1>1. PICK home \in Nat : home = HomeOf(prog, b)
  BY HomeTyped DEF ScanInv
<1>2. PICK f : f = StageMemrefs(b, t)
  OBVIOUS
<1>3. /\ f = [i \in 1 .. home |-> f[i]]
      /\ \A i \in 1 .. home :
           f[i] = [buf |-> b, tier |-> home - i,
                   offset |-> IF Stage(prog, b, t, home - i).id \in DOMAIN memMap
                                THEN memMap[Stage(prog, b, t, home - i).id] ELSE 0]
  BY <1>1, <1>2 DEF StageMemrefs
<1>4. \A x \in DOMAIN memMap : memMap[x] \in Int
  BY DEF ScanInv, MemrefsTyped
<1>5. \A i \in 1 .. home : f[i] \in MemrefType
  BY <1>3, <1>4 DEF MemrefType
<1>6. f \in [1 .. home -> MemrefType]
  BY <1>3, <1>5
<1>7. f \in Seq(MemrefType) /\ Len(f) = home
  BY ONLY home \in Nat, <1>6, FunctionIsSeq
<1>8. QED BY <1>1, <1>2, <1>7

LEMMA ScanEmitChain == ScanInv /\ EmitChain => ScanInv'
<1> SUFFICES ASSUME ScanInv, EmitChain PROVE ScanInv'
  OBVIOUS
<1>1. /\ prog' = prog /\ phase' = phase /\ level' = level /\ UNCHANGED tiersState
      /\ stack' = stack /\ memMap' = memMap
  BY DEF EmitChain
<1>2. PICK c \in plan : /\ memrefs' = memrefs \o StageMemrefs(c[1], c[2])
                        /\ plan' = plan \ {c}
  BY DEF EmitChain
<1>3. c[1] \in Bufs(prog)
  BY DEF ScanInv, Chains
<1>4. PICK t \in Seq(MemrefType) : t = StageMemrefs(c[1], c[2])
  BY <1>3, StageMemrefsTyped
<1>5. /\ MemrefsTyped' /\ Bottom' = Bottom /\ Len(memrefs) \in Nat
      /\ Len(memrefs') \in Nat /\ Len(memrefs) <= Len(memrefs')
  BY <1>1, <1>2, <1>4, MemrefsAdded
<1>6. Tiers' = Tiers /\ Chains(prog') = Chains(prog) /\ QueuesTyped' /\ StackTyped'
  BY <1>1, <1>5, IntervalsStay, QueuesStay, CallsStayAdded
<1>7. plan' \subseteq Chains(prog')
  BY <1>2, <1>6 DEF ScanInv
<1>8. QED BY <1>1, <1>5, <1>6, <1>7 DEF ScanInv

(* The victim is an active interval that was not evicted for this one yet.  *)
LEMMA VictimIsActive ==
  ASSUME ScanInv, stack # << >>, NEW v \in Victims
  PROVE  /\ First(Tier, v) \in Active(Tier) /\ First(Tier, v) \in DOMAIN placed[Tier]
         /\ placed[Tier][First(Tier, v)] \in IntervalType
         /\ Sound(placed[Tier][First(Tier, v)])
         /\ placed[Tier][First(Tier, v)].id = v /\ v \in Ids /\ v \notin Top.excluded
<1>1. PICK q \in Seq(IntervalType) : q = placed[Tier]
  BY TopTyped
<1>2. Active(Tier) \subseteq DOMAIN q /\ DOMAIN q \subseteq Nat
  BY <1>1 DEF Active
<1>3. PICK a \in Residents(Tier) : a.id = v /\ a.id \notin Top.excluded
  BY DEF Victims
<1>4. PICK j \in Active(Tier) : q[j] = a
  BY <1>1, <1>3 DEF Residents
<1>5. PICK S \in SUBSET Nat : S = {i \in Active(Tier) : q[i].id = v} /\ S # {}
  BY <1>2, <1>3, <1>4
<1>6. Min(S) \in S
  BY <1>5, MinIsLeast
<1>7. First(Tier, v) = Min(S)
  BY <1>1, <1>5 DEF First
<1>8. First(Tier, v) \in Active(Tier) /\ q[First(Tier, v)].id = v
  BY <1>5, <1>6, <1>7
<1>9. PICK i \in DOMAIN q : i = First(Tier, v)
  BY <1>2, <1>8
<1>10. q[i] \in IntervalType
  OBVIOUS
<1>11. q[i] \in Range(q)
  BY InRange
<1>12. Sound(q[i])
  BY <1>1, <1>11, TopTyped DEF ScanInv, QueuesTyped
<1>13. v \in Ids
  BY <1>8, <1>9, <1>10 DEF IntervalType
<1>14. QED BY <1>1, <1>3, <1>8, <1>9, <1>10, <1>12, <1>13

LEMMA NextUseTyped ==
  ASSUME NEW a \in IntervalType
  PROVE  NextUse(a) \in Int
<1>1. PICK S \in SUBSET Nat : S = {u \in a.uses : u > Cur.start}
  BY DEF IntervalType
<1>2. S # {} => Min(S) \in Nat
  BY MinIsLeast
<1>3. a.end - 1 \in Int
  BY DEF IntervalType
<1>4. QED BY <1>1, <1>2, <1>3 DEF NextUse

(* What a step that evicts an interval does to it.                          *)
LEMMA Truncated ==
  ASSUME ScanInv, stack # << >>, Cur # NoInterval, NEW i \in DOMAIN placed[Tier],
         placed' = [placed EXCEPT ![Tier][i].end = Cur.start,
                                  ![Tier][i].uses = UsesBefore(@, Cur.start)]
  PROVE  /\ placed' \in [Tiers -> Seq(IntervalType)]
         /\ \A k \in Tiers : DOMAIN placed'[k] = DOMAIN placed[k]
         /\ \A k \in Tiers : k # Tier => placed'[k] = placed[k]
         /\ \A j \in DOMAIN placed[Tier] : j # i => placed'[Tier][j] = placed[Tier][j]
         /\ placed'[Tier][i] = [placed[Tier][i] EXCEPT !.end = Cur.start,
                                             !.uses = UsesBefore(@, Cur.start)]
         /\ Sound(placed[Tier][i]) => Sound(placed'[Tier][i])
<1>1. PICK k \in Tiers : k = Tier
  BY TopTyped
<1>2. PICK q \in Seq(IntervalType) : q = placed[k]
  BY <1>1, TopTyped
<1>3. PICK a \in IntervalType : a = q[i]
  BY <1>1, <1>2
<1>4. PICK now \in Int : now = Cur.start
  BY TopTyped DEF IntervalType
<1>5. PICK x : x = [a EXCEPT !.end = now, !.uses = UsesBefore(@, now)]
  OBVIOUS
<1>6. /\ x \in IntervalType /\ x.id = a.id /\ x.start = a.start /\ x.size = a.size
      /\ x.mem = a.mem /\ x.end = now /\ x.uses = {u \in a.uses : u < now}
  BY <1>5 DEF IntervalType, UsesBefore
<1>7. PICK r : r = [q EXCEPT ![i] = x]
  OBVIOUS
<1>8. r \in Seq(IntervalType) /\ DOMAIN r = DOMAIN q
  BY <1>6, <1>7, Updated
<1>9. r[i] = x /\ \A j \in DOMAIN q : j # i => r[j] = q[j]
  BY <1>1, <1>2, <1>7
<1>10. placed \in [Tiers -> Seq(IntervalType)]
  BY DEF ScanInv, QueuesTyped
<1>11. placed' = [placed EXCEPT ![k] = r]
  BY <1>1, <1>2, <1>3, <1>4, <1>5, <1>7, <1>10
<1>12. /\ placed' \in [Tiers -> Seq(IntervalType)] /\ placed'[k] = r
       /\ \A j \in Tiers : j # k => placed'[j] = placed[j]
  BY <1>8, <1>10, <1>11
<1>13. Sound(a) => Sound(x)
  BY <1>3, <1>4, <1>6 DEF Sound, ExecTimes
<1>14. \A j \in Tiers : DOMAIN placed'[j] = DOMAIN placed[j]
  BY <1>2, <1>8, <1>12
<1>15. x = [placed[Tier][i] EXCEPT !.end = Cur.start, !.uses = UsesBefore(@, Cur.start)]
  BY <1>1, <1>2, <1>3, <1>4, <1>5
<1>16. QED BY <1>1, <1>2, <1>3, <1>9, <1>12, <1>13, <1>14, <1>15

(* An eviction: the interval i is truncated, its spill and its reload are   *)
(* queued, or wait for the next tier.                                       *)
Evicts(v, i, a, next, uses, reloads) ==
  /\ i = First(Tier, v) /\ a = placed[Tier][i] /\ Cur.mem # NoMem /\ a.mem # NoMem
  /\ next = NextUse(a) /\ uses = {u \in a.uses : u >= next}
  /\ reloads = (next < a.end /\ uses # {})
  /\ placed' = [placed EXCEPT ![Tier][i].end = Cur.start,
                              ![Tier][i].uses = UsesBefore(@, Cur.start)]
  /\ unhandled' = [unhandled EXCEPT ![Tier + 1] =
       AddUnhandled(@, [a EXCEPT !.start = Cur.start, !.end = next, !.uses = {},
                                 !.home = 0, !.mem = Len(memrefs) + 1, !.offset = NoOffset])]
  /\ stack' = Append(
       SetTop([Top EXCEPT !.excluded = @ \cup {v},
                 !.reload = IF ~ reloads THEN NoInterval
                            ELSE [a EXCEPT !.start = next, !.uses = uses, !.home = 0,
                                           !.mem = Len(memrefs) + 2, !.offset = NoOffset]]),
       Frame(Tier + 1))
  /\ memrefs' = memrefs \o [j \in 1 .. (IF reloads THEN 2 ELSE 1) |-> Unplaced(v.buf)]

(* Its rewrite of the code.                                                 *)
Rewrites(v, a, uses, reloads) ==
  LET spillMem == Len(memrefs) + 1
      reloadMem == Len(memrefs) + 2
      spilled == CopyBefore(code, DefPos(code, Cur.mem), a.mem, spillMem)
      reloaded == CopyBefore(spilled, TimePos(spilled, Min(uses)), spillMem, reloadMem)
  IN code' = IF reloads THEN Replaced(reloaded, uses, a.mem, reloadMem) ELSE spilled

LEMMA SpillStep ==
  ASSUME ScanInv, Spill
  PROVE  /\ prog' = prog /\ plan' = plan /\ phase' = phase /\ level' = level
         /\ handled' = handled /\ memMap' = memMap /\ taken' = taken /\ pc' = pc
         /\ stack # << >> /\ Cur # NoInterval /\ Tier < Bottom
         /\ \E v \in Victims, i \in DOMAIN placed[Tier], a \in IntervalType, next \in Int,
              uses \in SUBSET Nat, reloads \in BOOLEAN :
              Evicts(v, i, a, next, uses, reloads) /\ Rewrites(v, a, uses, reloads)
<1>1. /\ prog' = prog /\ plan' = plan /\ phase' = phase /\ level' = level
      /\ handled' = handled /\ memMap' = memMap /\ taken' = taken /\ pc' = pc
      /\ stack # << >> /\ Cur # NoInterval /\ Tier < Bottom
  BY DEF Spill, Placing, Calling, CanSpill
<1>2. PICK v \in Victims :
        LET i == First(Tier, v)
            a == placed[Tier][i]
            next == NextUse(a)
            uses == {u \in a.uses : u >= next}
            reloads == next < a.end /\ uses # {}
        IN Evicts(v, i, a, next, uses, reloads) /\ Rewrites(v, a, uses, reloads)
  BY DEF Spill, Evicts, Rewrites
<1>3. PICK i \in DOMAIN placed[Tier] : i = First(Tier, v)
  BY <1>1, VictimIsActive
<1>4. PICK a \in IntervalType : a = placed[Tier][i]
  BY <1>1, <1>3, VictimIsActive
<1>5. PICK next \in Int : next = NextUse(a)
  BY NextUseTyped
<1>6. PICK uses \in SUBSET Nat : uses = {u \in a.uses : u >= next}
  BY DEF IntervalType
<1>7. PICK reloads \in BOOLEAN : reloads = (next < a.end /\ uses # {})
  OBVIOUS
<1>8. Evicts(v, i, a, next, uses, reloads) /\ Rewrites(v, a, uses, reloads)
  BY <1>2, <1>3, <1>4, <1>5, <1>6, <1>7
<1>9. QED BY <1>1, <1>3, <1>4, <1>5, <1>6, <1>7, <1>8

(* A spill or a reload of an interval.                                      *)
Part(a, s, e, us, m) ==
  [a EXCEPT !.start = s, !.end = e, !.uses = us, !.home = 0, !.mem = m, !.offset = NoOffset]

LEMMA PartTyped ==
  ASSUME NEW a \in IntervalType, NEW m \in Nat, NEW s \in Int, NEW e \in Int, NEW us \in SUBSET Nat
  PROVE  /\ Part(a, s, e, us, m) \in IntervalType
         /\ Part(a, s, e, us, m).id = a.id /\ Part(a, s, e, us, m).size = a.size
         /\ Part(a, s, e, us, m).mem = m /\ Part(a, s, e, us, m).start = s
         /\ Part(a, s, e, us, m).end = e /\ Part(a, s, e, us, m).uses = us
<1>1. NoOffset \in Int
  BY DEF NoOffset
<1>2. PICK x : x = [a EXCEPT !.start = s, !.end = e, !.uses = us, !.home = 0, !.mem = m,
                             !.offset = NoOffset]
  OBVIOUS
<1>3. /\ x.id = a.id /\ x.size = a.size /\ x.mem = m /\ x.start = s
      /\ x.end = e /\ x.uses = us
  BY <1>2 DEF IntervalType
<1>4. x \in IntervalType
  BY <1>1, <1>2 DEF IntervalType
<1>5. QED BY <1>2, <1>3, <1>4 DEF Part

LEMMA ScanSpill == ScanInv /\ Spill => ScanInv'
<1> SUFFICES ASSUME ScanInv, Spill PROVE ScanInv'
  OBVIOUS
<1>1. /\ prog' = prog /\ plan' = plan /\ phase' = phase /\ level' = level
      /\ handled' = handled /\ memMap' = memMap
      /\ stack # << >> /\ Cur # NoInterval /\ Tier < Bottom
  BY SpillStep
<1>2. PICK v \in Victims, i \in DOMAIN placed[Tier], a \in IntervalType, next \in Int,
           uses \in SUBSET Nat, reloads \in BOOLEAN : Evicts(v, i, a, next, uses, reloads)
  BY SpillStep
<1>3. /\ Sound(a) /\ a.id = v /\ v \in Ids /\ v.buf \in Bufs(prog)
      /\ a.uses \subseteq ExecTimes /\ ExecTimes \subseteq Nat
  <2>1. Sound(a) /\ a.id = v /\ v \in Ids
    BY <1>1, <1>2, VictimIsActive DEF Evicts
  <2>2. ExecTimes \subseteq Nat
    BY FunctionTyped DEF ExecTimes, ScanInv
  <2>3. QED BY <2>1, <2>2 DEF Sound
<1>4. PICK n \in {1, 2} : n = IF reloads THEN 2 ELSE 1
  OBVIOUS
<1>5. PICK added \in Seq(MemrefType) : added = [j \in 1 .. n |-> Unplaced(v.buf)] /\ Len(added) = n
  <2>1. Unplaced(v.buf) \in MemrefType
    BY <1>3 DEF Unplaced, MemrefType, NoOffset
  <2>2. n \in Nat /\ [j \in 1 .. n |-> Unplaced(v.buf)] \in [1 .. n -> MemrefType]
    BY <2>1
  <2>3. QED BY ONLY <2>2, FunctionIsSeq
<1>6. /\ MemrefsTyped' /\ Bottom' = Bottom /\ Len(memrefs') = Len(memrefs) + n
      /\ Len(memrefs) \in Nat /\ Len(memrefs') \in Nat /\ Len(memrefs) <= Len(memrefs')
  <2>1. memrefs' = memrefs \o added
    BY <1>2, <1>4, <1>5 DEF Evicts
  <2>2. QED BY <1>1, <1>5, <2>1, MemrefsAdded
<1>7. /\ Tiers' = Tiers
      /\ \A k \in Tiers : \A x \in Range(unhandled[k]) \cup Range(placed[k]) : Sound(x)'
  BY <1>1, <1>6, IntervalsStay
<1>8. Tier \in Tiers /\ Tier \in Nat /\ Tier + 1 \in Tiers
  <2>1. Tier \in Tiers /\ Tier \in Nat /\ Tiers = 0 .. Bottom /\ Bottom \in Nat
    BY <1>1, TopTyped, TargetTyped DEF ScanInv
  <2>2. QED BY <1>1, <2>1
<1>9. PICK c \in IntervalType : c = Cur
  BY <1>1, TopTyped
<1>10. a.uses \subseteq Nat /\ a.id.buf \in Bufs(prog) /\ a.size = prog.size[a.id.buf]
       /\ a.uses \subseteq {u \in ExecTimes : a.start <= u /\ u < a.end}
  BY <1>3 DEF Sound
<1>11. ASSUME NEW m \in Nat, m <= Len(memrefs'), NEW s \in Int, NEW e \in Int, NEW us \in SUBSET a.uses,
              \A u \in us : s <= u /\ u < e,
              NEW x, x = Part(a, s, e, us, m)
       PROVE  x \in IntervalType /\ Sound(x)'
  <2>1. us \in SUBSET Nat
    BY <1>10
  <2>2. /\ x \in IntervalType /\ x.id = a.id /\ x.size = a.size /\ x.mem = m /\ x.start = s
        /\ x.end = e /\ x.uses = us
    BY <1>11, <2>1, PartTyped
  <2>3. x.mem \in 0 .. Len(memrefs')
    BY <1>6, <1>11, <2>2
  <2>4. x.uses \subseteq {u \in ExecTimes : x.start <= u /\ u < x.end}
    BY <1>10, <1>11, <2>2
  <2>5. ExecTimes' = ExecTimes /\ prog' = prog
    BY <1>1 DEF ExecTimes
  <2>6. QED BY <1>10, <2>2, <2>3, <2>4, <2>5 DEF Sound
<1>12. PICK spill \in IntervalType :
         /\ spill = [a EXCEPT !.start = Cur.start, !.end = next, !.uses = {}, !.home = 0,
                              !.mem = Len(memrefs) + 1, !.offset = NoOffset]
         /\ Sound(spill)'
  <2>1. Len(memrefs) + 1 \in Nat /\ Len(memrefs) + 1 <= Len(memrefs') /\ c.start \in Int
    BY <1>4, <1>6 DEF IntervalType
  <2>2. {} \in SUBSET a.uses
    OBVIOUS
  <2>3. PICK x : x = Part(a, c.start, next, {}, Len(memrefs) + 1)
    OBVIOUS
  <2>4. x \in IntervalType /\ Sound(x)'
    BY <1>11, <2>1, <2>2, <2>3
  <2>5. QED BY <1>9, <2>3, <2>4 DEF Part
<1>13. PICK reload \in IntervalType \cup {NoInterval} :
         /\ reload = IF ~ reloads THEN NoInterval
                     ELSE [a EXCEPT !.start = next, !.uses = uses, !.home = 0,
                                    !.mem = Len(memrefs) + 2, !.offset = NoOffset]
         /\ reload # NoInterval => Sound(reload)'
  <2>1. CASE ~ reloads
    BY <2>1
  <2>2. CASE reloads
    <3>1. Len(memrefs) + 2 \in Nat /\ Len(memrefs) + 2 <= Len(memrefs') /\ a.end \in Int
      BY <1>4, <1>6, <2>2 DEF IntervalType
    <3>2. PICK x : x = Part(a, next, a.end, uses, Len(memrefs) + 2)
      OBVIOUS
    <3>3. \A u \in uses : next <= u /\ u < a.end
      BY <1>2, <1>10 DEF Evicts
    <3>4. x \in IntervalType /\ Sound(x)'
      <4>1. uses \in SUBSET a.uses
        BY <1>2 DEF Evicts
      <4>2. QED BY <1>11, <3>1, <3>2, <3>3, <4>1
    <3>5. x = [a EXCEPT !.start = next, !.uses = uses, !.home = 0,
                        !.mem = Len(memrefs) + 2, !.offset = NoOffset]
      BY <3>2 DEF IntervalType, Part
    <3>6. QED BY <2>2, <3>4, <3>5
  <2>3. QED BY <2>1, <2>2
<1>14. /\ unhandled' \in [Tiers -> Seq(IntervalType)]
       /\ \A j \in Tiers : \A x \in Range(unhandled'[j]) : Sound(x)'
  <2>1. PICK k \in Tiers : k = Tier + 1
    BY <1>8
  <2>2. unhandled' = [unhandled EXCEPT ![k] = AddUnhandled(@, spill)]
    BY <1>2, <1>12, <2>1 DEF Evicts
  <2>3. QED BY <1>1, <1>6, <1>12, <2>2, QueueGrows
<1>15. /\ placed' \in [Tiers -> Seq(IntervalType)]
       /\ \A k \in Tiers : DOMAIN placed'[k] = DOMAIN placed[k]
       /\ \A k \in Tiers : k # Tier => placed'[k] = placed[k]
       /\ \A j \in DOMAIN placed[Tier] : j # i => placed'[Tier][j] = placed[Tier][j]
       /\ Sound(placed[Tier][i]) => Sound(placed'[Tier][i])
  BY <1>1, <1>2, Truncated DEF Evicts
<1>16. \A k \in Tiers : \A x \in Range(placed'[k]) : Sound(x)'
  <2>1. PICK old : old = placed[Tier]
    OBVIOUS
  <2>2. PICK new : new = placed'[Tier]
    OBVIOUS
  <2>3. PICK x : x = new[i]
    OBVIOUS
  <2>4. Sound(x)
    BY <1>2, <1>3, <1>15, <2>2, <2>3 DEF Evicts
  <2>5. Sound(x)'
    BY <1>1, <1>6, <2>4, SoundStays
  <2>6. ASSUME NEW y \in Range(new) PROVE Sound(y)'
    <3>1. PICK j \in DOMAIN old : new[j] = y
      BY <1>8, <1>15, <2>1, <2>2, InRange
    <3>2. j # i => y \in Range(old)
      BY <1>15, <2>1, <2>2, <3>1, InRange
    <3>3. QED BY <1>7, <1>8, <2>1, <2>3, <2>5, <3>1, <3>2
  <2>7. QED BY <1>7, <1>8, <1>15, <2>2, <2>6
<1>17. QueuesTyped'
  BY <1>1, <1>7, <1>14, <1>15, <1>16 DEF ScanInv, QueuesTyped
<1>18. StackTyped'
  <2>1. PICK t \in FrameType : t = Top
    BY <1>1, TopTyped
  <2>2. PICK f : f = [t EXCEPT !.excluded = @ \cup {v}, !.reload = reload]
    OBVIOUS
  <2>3. /\ f \in FrameType /\ f.tier = t.tier /\ f.cur = t.cur /\ f.reload = reload
    BY <1>3, <2>2 DEF FrameType
  <2>4. f.tier = Tier /\ f.cur = c
    BY <1>9, <2>1, <2>3 DEF Tier, Cur
  <2>5. stack' = Append(SetTop(f), Frame(Tier + 1))
    BY <1>2, <1>13, <2>1, <2>2 DEF Evicts
  <2>6. Sound(c)'
    <3>1. Sound(c)
      BY <1>1, <1>9, TopTyped
    <3>2. QED BY <1>1, <1>6, <3>1, SoundStays
  <2>7. f.cur # NoInterval /\ Sound(f.cur)' /\ (f.reload # NoInterval => Sound(f.reload)')
    BY <1>9, <1>13, <2>3, <2>4, <2>6, NoIntervalIsNone
  <2>8. QED BY <1>1, <1>6, <2>3, <2>4, <2>5, <2>7, TopChanged
<1>19. QED BY <1>1, <1>6, <1>7, <1>17, <1>18 DEF ScanInv

(* The intervals, calls and memrefs of the scan are always well formed.     *)
THEOREM ScanWellFormed == Spec => []ScanInv
<1>1. Init => ScanInv
  BY ScanInit
<1>2. ScanInv /\ [Next]_vars => ScanInv'
  BY ScanStartTier, ScanTake, ScanPlace, ScanSpill, ScanGiveUp, ScanReturn, ScanEmitChain,
     ScanRest DEF Next
<1>3. QED BY <1>1, <1>2, PTL DEF Spec

-----------------------------------------------------------------------------
(* Expiry, placement and eviction keep the guard between tenants.           *)

LEMMA GuardInit == Init => GuardInv
<1> SUFFICES ASSUME Init PROVE GuardInv
  OBVIOUS
<1>1. taken = [k \in Tiers |-> << >>] /\ placed = [k \in Tiers |-> << >>] /\ stack = << >>
  BY DEF Init
<1>2. taken \in [Tiers -> Seq(Int)]
  BY <1>1
<1>3. \A k \in Tiers : DOMAIN placed[k] = {}
  BY <1>1
<1>4. \A k \in Tiers : Dated(k) /\ Clear(k)
  BY <1>3 DEF Dated, Clear
<1>5. DOMAIN stack = {}
  BY <1>1
<1>6. QED BY <1>2, <1>4, <1>5 DEF GuardInv

(* A tier is that of one call at most.                                      *)
LEMMA CallersBelow ==
  ASSUME ScanInv, stack # << >>, NEW i \in DOMAIN stack, i # Len(stack)
  PROVE  i < Len(stack) /\ stack[i].tier \in Tiers /\ stack[i].tier # Tier
<1>1. PICK n \in Nat : n = Len(stack) /\ DOMAIN stack = 1 .. n /\ n \in 1 .. n
  BY TopTyped
<1>2. /\ stack[i].tier = stack[1].tier + (i - 1) /\ stack[n].tier = stack[1].tier + (n - 1)
      /\ stack[i].tier \in Tiers
  BY <1>1 DEF ScanInv, StackTyped
<1>3. stack[1].tier \in Int
  <2>1. 1 \in 1 .. n
    BY <1>1
  <2>2. QED BY <1>1, <2>1, TargetTyped DEF ScanInv, StackTyped
<1>4. Tier = stack[n].tier
  BY <1>1 DEF Tier, Top
<1>5. QED BY <1>1, <1>2, <1>3, <1>4

(* What a step in one tier leaves of the histories of the others.           *)
LEMMA OthersKept ==
  ASSUME ScanInv, GuardInv, prog' = prog,
         NEW k \in Tiers, taken'[k] = taken[k], placed'[k] = placed[k], handled'[k] = handled[k]
  PROVE  Dated(k)' /\ (InOrder(k)' => Clear(k)')
<1>1. Dated(k) /\ (InOrder(k) => Clear(k))
  BY DEF GuardInv
<1>2. Dated(k)'
  BY <1>1 DEF Dated
<1>3. InOrder(k)' => InOrder(k)
  BY DEF InOrder
<1>4. Clear(k) => Clear(k)'
  BY DEF Clear, Apart
<1>5. QED BY <1>1, <1>2, <1>3, <1>4

LEMMA LatestKept ==
  ASSUME prog' = prog, NEW f, NEW g, Latest(f), g.tier = f.tier, g.cur = f.cur,
         f.excluded \subseteq g.excluded,
         taken'[f.tier] = taken[f.tier], placed'[f.tier] = placed[f.tier],
         handled'[f.tier] = handled[f.tier]
  PROVE  Latest(g)'
<1>1. PICK k : k = f.tier
  OBVIOUS
<1>2. Active(k)' = Active(k)
  BY <1>1 DEF Active
<1>3. InOrder(k)' => InOrder(k)
  BY <1>1 DEF InOrder
<1>4. QED BY <1>1, <1>2, <1>3 DEF Latest

(* A step in the tier of the top call: what is left to show is about it.    *)
LEMMA GuardStep ==
  ASSUME ScanInv, GuardInv, prog' = prog, stack # << >>, taken' \in [Tiers -> Seq(Int)],
         NEW k \in Tiers, k = Tier, NEW n \in Nat, n = Len(stack), NEW f,
         \A j \in Tiers : j # k => /\ taken'[j] = taken[j] /\ placed'[j] = placed[j]
                                   /\ handled'[j] = handled[j],
         Dated(k)', InOrder(k)' => Clear(k)',
         DOMAIN stack' \subseteq 1 .. n + 1,
         \A i \in 1 .. n - 1 : stack'[i] = stack[i],
         stack'[n] = f, f.cur # NoInterval => Latest(f)',
         n + 1 \in DOMAIN stack' => stack'[n + 1].cur = NoInterval
  PROVE  GuardInv'
<1>1. Tiers' = Tiers
  BY DEF Tiers
<1>2. ASSUME NEW j \in Tiers PROVE Dated(j)' /\ (InOrder(j)' => Clear(j)')
  <2>1. CASE j = k
    BY <2>1
  <2>2. CASE j # k
    BY <2>2, OthersKept
  <2>3. QED BY <2>1, <2>2
<1>3. DOMAIN stack = 1 .. n
  BY TopTyped
<1>4. ASSUME NEW i \in DOMAIN stack', NEW g, g = stack'[i], g.cur # NoInterval
      PROVE  Latest(g)'
  <2>1. i \in 1 .. n + 1 /\ i # n + 1
    BY <1>4
  <2>2. CASE i = n
    BY <1>4, <2>2
  <2>3. CASE i # n
    <3>1. i \in 1 .. n - 1 /\ i \in DOMAIN stack /\ i # Len(stack)
      <4>1. i \in 1 .. n - 1 /\ i \in 1 .. n
        BY ONLY n \in Nat, <2>1, <2>3
      <4>2. QED BY <1>3, <2>3, <4>1
    <3>2. g = stack[i]
      BY <1>4, <3>1
    <3>3. g.tier \in Tiers /\ g.tier # k
      BY <3>1, <3>2, CallersBelow
    <3>4. Latest(g)
      BY <1>4, <3>1, <3>2 DEF GuardInv
    <3>5. /\ taken'[g.tier] = taken[g.tier] /\ placed'[g.tier] = placed[g.tier]
          /\ handled'[g.tier] = handled[g.tier]
      BY <3>3
    <3>6. QED BY ONLY prog' = prog, <3>4, <3>5, LatestKept
  <2>4. QED BY <2>2, <2>3
<1>5. QED BY <1>1, <1>2, <1>4 DEF GuardInv

(* What has been dated stays so while the tier takes more intervals.        *)
LEMMA DatedStays ==
  ASSUME ScanInv, GuardInv, prog' = prog, NEW k \in Tiers, NEW t \in Seq(Int), NEW now \in Int,
         t = taken[k], taken'[k] = Append(t, now), placed'[k] = placed[k],
         \A i \in handled'[k] : i \in handled[k] \/ placed[k][i].end + prog.guard <= now
  PROVE  Dated(k)' /\ (InOrder(k)' => Clear(k)')
<1>1. /\ \A n \in DOMAIN t : n \in DOMAIN taken'[k] /\ taken'[k][n] = t[n]
      /\ Len(t) + 1 \in DOMAIN taken'[k] /\ taken'[k][Len(t) + 1] = now
  OBVIOUS
<1>2. Dated(k) /\ (InOrder(k) => Clear(k))
  BY DEF GuardInv
<1>3. \A i \in DOMAIN placed[k] : \E n \in DOMAIN t : placed[k][i].start = t[n]
  BY <1>2 DEF Dated
<1>4. \A i \in DOMAIN placed[k] : i \in handled[k] =>
        \E n \in DOMAIN t : placed[k][i].end + prog.guard <= t[n]
  BY <1>2 DEF Dated
<1>5. ASSUME NEW i \in DOMAIN placed[k], i \in handled'[k]
      PROVE  \E n \in DOMAIN taken'[k] : placed[k][i].end + prog.guard <= taken'[k][n]
  BY <1>1, <1>4, <1>5
<1>6. Dated(k)'
  BY <1>1, <1>3, <1>5 DEF Dated
<1>7. InOrder(k)' => InOrder(k)
  BY <1>1 DEF InOrder
<1>8. Clear(k) => Clear(k)'
  BY DEF Clear, Apart
<1>9. QED BY <1>2, <1>6, <1>7, <1>8

LEMMA GuardTake == ScanInv /\ GuardInv /\ Take => GuardInv'
<1> SUFFICES ASSUME ScanInv, GuardInv, Take PROVE GuardInv'
  OBVIOUS
<1>1. /\ prog' = prog /\ placed' = placed /\ stack # << >> /\ unhandled[Tier] # << >>
      /\ Cur = NoInterval
  BY DEF Take, Idle, Calling
<1>2. PICK iv, dead :
        /\ iv = Head(unhandled[Tier])
        /\ dead = {j \in Active(Tier) : Expired(placed[Tier][j], iv.start)}
        /\ handled' = [handled EXCEPT ![Tier] = @ \cup dead]
        /\ stack' = IF iv.start >= iv.end THEN stack
                    ELSE SetTop([Top EXCEPT !.cur = iv, !.excluded = {}])
        /\ taken' = [taken EXCEPT ![Tier] = Append(@, iv.start)]
  BY DEF Take
<1>3. PICK k \in Tiers : k = Tier /\ placed[k] \in Seq(IntervalType)
  BY <1>1, TopTyped
<1>4. iv \in IntervalType /\ iv.start \in Int /\ iv.end \in Int
  <2>1. iv \in IntervalType
    BY <1>1, <1>2, TopTyped, TailElements
  <2>2. QED BY <2>1 DEF IntervalType
<1>5. PICK now \in Int : now = iv.start
  BY <1>4
<1>6. PICK t \in Seq(Int) : t = taken[k]
  BY DEF GuardInv
<1>7. /\ taken' \in [Tiers -> Seq(Int)] /\ taken'[k] = Append(t, now)
      /\ \A j \in Tiers : j # k => taken'[j] = taken[j]
  <2>1. Append(t, now) \in Seq(Int)
    OBVIOUS
  <2>2. taken' = [taken EXCEPT ![k] = Append(t, now)]
    BY <1>2, <1>3, <1>5, <1>6
  <2>3. taken \in [Tiers -> Seq(Int)]
    BY DEF GuardInv
  <2>4. QED BY <2>1, <2>2, <2>3
<1>8. /\ handled'[k] = handled[k] \cup dead
      /\ \A j \in Tiers : j # k => handled'[j] = handled[j]
  BY <1>2, <1>3 DEF ScanInv, QueuesTyped
<1>9. \A i \in dead : placed[k][i].end + prog.guard <= now
  BY <1>2, <1>3, <1>5 DEF Expired
<1>10. Dated(k)' /\ (InOrder(k)' => Clear(k)')
  BY <1>1, <1>6, <1>7, <1>8, <1>9, DatedStays
<1>11. PICK n \in Nat : n = Len(stack) /\ DOMAIN stack = 1 .. n /\ n \in 1 .. n
  BY <1>1, TopTyped
<1>12. \E f : /\ DOMAIN stack' \subseteq 1 .. n
              /\ \A i \in 1 .. n - 1 : stack'[i] = stack[i]
              /\ stack'[n] = f /\ (f.cur # NoInterval => Latest(f)')
  <2>1. PICK s \in Seq(FrameType) : s = stack
    BY DEF ScanInv, StackTyped
  <2>2. CASE iv.start >= iv.end
    <3>1. stack' = stack
      BY <1>2, <2>2
    <3>2. stack'[n].cur = NoInterval
      BY <1>1, <1>11, <3>1 DEF Cur, Top
    <3>3. QED BY <1>11, <3>1, <3>2
  <2>3. CASE ~ (iv.start >= iv.end)
    <3>1. PICK top \in FrameType : top = Top
      BY <1>1, TopTyped
    <3>2. PICK f : f = [top EXCEPT !.cur = iv, !.excluded = {}]
      OBVIOUS
    <3>3. f \in FrameType /\ f.tier = k /\ f.cur = iv /\ f.excluded = {}
      BY <1>3, <1>4, <3>1, <3>2 DEF FrameType, Tier
    <3>4. stack' = [s EXCEPT ![n] = f]
      BY <1>2, <1>11, <2>1, <2>3, <3>1, <3>2 DEF SetTop
    <3>5. DOMAIN stack' = 1 .. n
      BY <1>11, <2>1, <3>4
    <3>6. stack'[n] = f /\ \A i \in 1 .. n - 1 : stack'[i] = stack[i]
      BY <1>11, <2>1, <3>4
    <3>7. taken'[k] # << >> /\ taken'[k][Len(taken'[k])] = now
      BY <1>7
    <3>8. ASSUME NEW j \in Active(k)' PROVE ~ (placed'[k][j].end + prog.guard <= now)
      <4>1. j \in Active(k) /\ j \notin dead
        BY <1>1, <1>8 DEF Active
      <4>2. QED BY <1>1, <1>2, <1>3, <1>5, <4>1 DEF Expired
    <3>9. now < iv.end
      BY <1>4, <1>5, <2>3
    <3>10. Latest(f)'
      BY <1>1, <1>5, <3>3, <3>7, <3>8, <3>9 DEF Latest
    <3>11. QED BY <3>5, <3>6, <3>10
  <2>4. QED BY <2>2, <2>3
<1>13. QED
  <2>1. PICK f : /\ DOMAIN stack' \subseteq 1 .. n
                 /\ \A i \in 1 .. n - 1 : stack'[i] = stack[i]
                 /\ stack'[n] = f /\ (f.cur # NoInterval => Latest(f)')
    BY <1>12
  <2>2. \A j \in Tiers : j # k => /\ taken'[j] = taken[j] /\ placed'[j] = placed[j]
                                  /\ handled'[j] = handled[j]
    BY <1>1, <1>7, <1>8
  <2>3. DOMAIN stack' \subseteq 1 .. n + 1 /\ n + 1 \notin DOMAIN stack'
    BY <1>11, <2>1
  <2>4. QED BY <1>1, <1>3, <1>7, <1>10, <1>11, <2>1, <2>2, <2>3, GuardStep

(* What is known of the interval a call is placing.                         *)
LEMMA PlacingLast ==
  ASSUME ScanInv, GuardInv, stack # << >>, Cur # NoInterval, NEW k, k = Tier
  PROVE  /\ Latest(Top) /\ Top.tier = k /\ Top.cur = Cur
         /\ Cur.start \in Int /\ Cur.end \in Int /\ Cur.start < Cur.end
         /\ prog.guard \in Nat
         /\ \E n \in DOMAIN taken[k] : taken[k][n] = Cur.start
         /\ InOrder(k) => \A n \in DOMAIN taken[k] : taken[k][n] \in Int /\ taken[k][n] <= Cur.start
<1>1. Top.tier = k /\ Top.cur = Cur /\ k \in Tiers
  BY TopTyped DEF Tier, Cur
<1>2. Latest(Top)
  BY TopTyped DEF GuardInv, Cur
<1>3. Cur.start \in Int /\ Cur.end \in Int
  BY TopTyped DEF IntervalType
<1>4. PICK t \in Seq(Int) : t = taken[k]
  BY <1>1 DEF GuardInv
<1>5. t # << >> /\ Cur.start = t[Len(t)] /\ Cur.start < Cur.end
  BY <1>1, <1>2, <1>4 DEF Latest
<1>6. Len(t) \in DOMAIN t /\ DOMAIN t = 1 .. Len(t) /\ Len(t) \in Nat /\ \A n \in DOMAIN t : t[n] \in Int
  BY <1>5
<1>7. InOrder(k) => \A n \in DOMAIN t : t[n] <= t[Len(t)]
  <2>1. SUFFICES ASSUME InOrder(k), NEW n \in DOMAIN t PROVE t[n] <= t[Len(t)]
    OBVIOUS
  <2>2. CASE n = Len(t)
    BY <1>6, <2>2
  <2>3. CASE n # Len(t)
    <3>1. n < Len(t)
      BY <1>6, <2>3
    <3>2. QED BY <1>4, <1>6, <2>1, <3>1 DEF InOrder
  <2>4. QED BY <2>2, <2>3
<1>8. prog.guard \in Nat
  BY FunctionTyped DEF ScanInv
<1>9. QED BY <1>1, <1>2, <1>3, <1>4, <1>5, <1>6, <1>7, <1>8

LEMMA GuardPlace == ScanInv /\ GuardInv /\ Place => GuardInv'
<1> SUFFICES ASSUME ScanInv, GuardInv, Place PROVE GuardInv'
  OBVIOUS
<1>1. /\ prog' = prog /\ taken' = taken /\ handled' = handled /\ stack # << >>
      /\ Cur # NoInterval /\ stack' = SetTop([Top EXCEPT !.cur = NoInterval])
  BY DEF Place, Placing, Calling
<1>2. PICK o \in Room :
        placed' = [placed EXCEPT ![Tier] = Append(@, [Cur EXCEPT !.offset = o])]
  BY DEF Place
<1>3. PICK k \in Tiers : k = Tier /\ placed[k] \in Seq(IntervalType)
  BY <1>1, TopTyped
<1>4. PICK q \in Seq(IntervalType) : q = placed[k]
  BY <1>3
<1>5. PICK c \in IntervalType : c = Cur
  BY <1>1, TopTyped
<1>6. PICK x : x = [c EXCEPT !.offset = o]
  OBVIOUS
<1>7. /\ x.start = c.start /\ x.end = c.end /\ x.size = c.size /\ x.offset = o
      /\ c.start \in Int /\ c.end \in Int /\ c.start < c.end
  BY <1>1, <1>3, <1>5, <1>6, PlacingLast DEF IntervalType
<1>8. PICK m \in Nat : m = Len(q) /\ DOMAIN q = 1 .. m /\ \A i \in 1 .. m : q[i] \in IntervalType
  OBVIOUS
<1>9. /\ DOMAIN placed'[k] = 1 .. m + 1 /\ placed'[k][m + 1] = x
      /\ \A i \in 1 .. m : placed'[k][i] = q[i]
      /\ \A j \in Tiers : j # k => placed'[j] = placed[j]
  <2>1. placed' = [placed EXCEPT ![k] = Append(q, x)]
    BY <1>2, <1>3, <1>4, <1>5, <1>6
  <2>2. placed'[k] = Append(q, x) /\ \A j \in Tiers : j # k => placed'[j] = placed[j]
    BY <2>1 DEF ScanInv, QueuesTyped
  <2>3. DOMAIN Append(q, x) = 1 .. m + 1 /\ Append(q, x)[m + 1] = x
        /\ \A i \in 1 .. m : Append(q, x)[i] = q[i]
    BY <1>8
  <2>4. QED BY <2>2, <2>3
<1>10. handled[k] \subseteq 1 .. m
  BY <1>4, <1>8 DEF ScanInv, QueuesTyped
<1>11. /\ \A i \in 1 .. m : \E n \in DOMAIN taken[k] : q[i].start = taken[k][n]
       /\ \A i \in 1 .. m : i \in handled[k] =>
            \E n \in DOMAIN taken[k] : q[i].end + prog.guard <= taken[k][n]
  <2>1. Dated(k)
    BY DEF GuardInv
  <2>2. QED BY <1>4, <1>8, <2>1 DEF Dated
<1>12. \A i \in 1 .. m + 1 : i \in 1 .. m \/ i = m + 1
  OBVIOUS
<1>13. m + 1 \notin handled[k]
  BY <1>10
<1>14. \E n \in DOMAIN taken[k] : taken[k][n] = x.start
  BY <1>1, <1>3, <1>5, <1>7, PlacingLast
<1>15. Dated(k)'
  <2>1. SUFFICES ASSUME NEW i \in 1 .. m + 1
                 PROVE  /\ \E n \in DOMAIN taken[k] : placed'[k][i].start = taken[k][n]
                        /\ i \in handled[k] => \E n \in DOMAIN taken[k] :
                             placed'[k][i].end + prog.guard <= taken[k][n]
    BY <1>1, <1>9 DEF Dated
  <2>2. CASE i \in 1 .. m
    BY <1>9, <1>11, <2>2
  <2>3. CASE i = m + 1
    BY <1>9, <1>13, <1>14, <2>3
  <2>4. QED BY <1>12, <2>2, <2>3
<1>16. ASSUME InOrder(k), NEW i \in 1 .. m
       PROVE  Apart(q[i], x, o) \/ q[i].end + prog.guard <= x.start
  <2>1. PICK a \in IntervalType : a = q[i]
    BY <1>8
  <2>2. a.start \in Int /\ a.end \in Int /\ prog.guard \in Nat
    BY <1>1, <1>3, PlacingLast DEF IntervalType
  <2>3. \A n \in DOMAIN taken[k] : taken[k][n] \in Int /\ taken[k][n] <= c.start
    BY <1>1, <1>3, <1>5, <1>16, PlacingLast
  <2>4. a.start <= c.start
    BY <1>11, <2>1, <2>3
  <2>5. CASE i \in handled[k]
    <3>1. PICK n \in DOMAIN taken[k] : a.end + prog.guard <= taken[k][n]
      BY <1>11, <2>1, <2>5
    <3>2. a.end + prog.guard <= c.start
      BY <2>2, <2>3, <3>1, <1>7
    <3>3. QED BY <1>7, <2>1, <3>2
  <2>6. CASE i \notin handled[k]
    <3>1. a \in Residents(k)
      BY <1>4, <1>8, <2>1, <2>6 DEF Residents, Active
    <3>2. ~ Empty(a) /\ Meets(a, c) => Apart(a, c, o)
      BY <1>3, <1>5, <3>1 DEF Room
    <3>3. Apart(a, c, o) => Apart(a, x, o)
      BY <1>7 DEF Apart
    <3>4. Empty(a) \/ ~ Meets(a, c) => a.end + prog.guard <= c.start
      BY <1>7, <2>2, <2>4 DEF Empty, Meets
    <3>5. QED BY <1>7, <2>1, <3>2, <3>3, <3>4
  <2>7. QED BY <2>5, <2>6
<1>17. InOrder(k)' => Clear(k)'
  <2>1. SUFFICES ASSUME InOrder(k)', NEW i \in 1 .. m + 1, NEW j \in 1 .. m + 1, i < j
                 PROVE  \/ Apart(placed'[k][i], placed'[k][j], placed'[k][j].offset)
                        \/ placed'[k][i].end + prog.guard <= placed'[k][j].start
    <3>1. prog'.guard = prog.guard
      BY <1>1
    <3>2. QED BY <1>9, <3>1 DEF Clear
  <2>2. InOrder(k) /\ i \in 1 .. m
    BY <1>1, <2>1 DEF InOrder
  <2>3. CASE j \in 1 .. m
    <3>1. Clear(k)
      BY <2>2 DEF GuardInv
    <3>2. \/ Apart(q[i], q[j], q[j].offset)
          \/ q[i].end + prog.guard <= q[j].start
      BY <1>4, <1>8, <2>1, <2>2, <2>3, <3>1 DEF Clear
    <3>3. QED BY <1>9, <2>2, <2>3, <3>2 DEF Apart
  <2>4. CASE j = m + 1
    BY <1>7, <1>9, <1>16, <2>2, <2>4 DEF Apart
  <2>5. QED BY <1>12, <2>3, <2>4
<1>18. PICK n \in Nat : n = Len(stack) /\ DOMAIN stack = 1 .. n /\ n \in 1 .. n
  BY <1>1, TopTyped
<1>19. PICK f : /\ DOMAIN stack' = 1 .. n /\ stack'[n] = f /\ f.cur = NoInterval
                /\ \A i \in 1 .. n - 1 : stack'[i] = stack[i]
  <2>1. PICK top \in FrameType : top = Top
    BY <1>1, TopTyped
  <2>2. PICK f : f = [top EXCEPT !.cur = NoInterval]
    OBVIOUS
  <2>3. f.cur = NoInterval
    BY <2>2 DEF FrameType
  <2>4. PICK s \in Seq(FrameType) : s = stack
    BY DEF ScanInv, StackTyped
  <2>5. stack' = [s EXCEPT ![n] = f]
    BY <1>1, <1>18, <2>1, <2>2, <2>4 DEF SetTop
  <2>6. DOMAIN stack' = 1 .. n /\ stack'[n] = f /\ \A i \in 1 .. n - 1 : stack'[i] = stack[i]
    BY <1>18, <2>4, <2>5
  <2>7. QED BY <2>3, <2>6
<1>20. QED
  <2>1. taken' \in [Tiers -> Seq(Int)]
    BY <1>1 DEF GuardInv
  <2>2. \A j \in Tiers : j # k => /\ taken'[j] = taken[j] /\ placed'[j] = placed[j]
                                  /\ handled'[j] = handled[j]
    BY <1>1, <1>9
  <2>3. DOMAIN stack' \subseteq 1 .. n + 1 /\ n + 1 \notin DOMAIN stack'
    BY <1>19
  <2>4. QED BY <1>1, <1>3, <1>15, <1>17, <1>18, <1>19, <2>1, <2>2, <2>3, GuardStep

LEMMA GuardSpill == ScanInv /\ GuardInv /\ Spill => GuardInv'
<1> SUFFICES ASSUME ScanInv, GuardInv, Spill PROVE GuardInv'
  OBVIOUS
<1>1. /\ prog' = prog /\ taken' = taken /\ handled' = handled /\ stack # << >>
      /\ Cur # NoInterval
  BY SpillStep
<1>2. PICK v \in Victims, i \in DOMAIN placed[Tier], a \in IntervalType, next \in Int,
           uses \in SUBSET Nat, reloads \in BOOLEAN : Evicts(v, i, a, next, uses, reloads)
  BY SpillStep
<1>3. PICK k \in Tiers : k = Tier /\ placed[k] \in Seq(IntervalType)
  BY <1>1, TopTyped
<1>4. PICK q \in Seq(IntervalType) : q = placed[k]
  BY <1>3
<1>5. /\ i \in Active(k) /\ i \in DOMAIN q /\ q[i] = a /\ a.id = v /\ v \notin Top.excluded
  <2>1. i = First(Tier, v) /\ a = placed[Tier][i]
    BY <1>2 DEF Evicts
  <2>2. First(Tier, v) \in Active(Tier) /\ placed[Tier][First(Tier, v)].id = v /\ v \notin Top.excluded
    BY <1>1, VictimIsActive
  <2>3. QED BY <1>3, <1>4, <2>1, <2>2
<1>6. PICK now \in Int : now = Cur.start
  BY <1>1, <1>3, PlacingLast
<1>7. PICK x : x = [a EXCEPT !.end = now, !.uses = UsesBefore(@, now)]
  OBVIOUS
<1>8. x.start = a.start /\ x.size = a.size /\ x.offset = a.offset /\ x.id = a.id /\ x.end = now
  BY <1>7 DEF IntervalType
<1>9. /\ DOMAIN placed'[k] = DOMAIN q /\ placed'[k][i] = x
      /\ \A j \in DOMAIN q : j # i => placed'[k][j] = q[j]
      /\ \A j \in Tiers : j # k => placed'[j] = placed[j]
  <2>1. placed' = [placed EXCEPT ![Tier][i].end = Cur.start,
                                 ![Tier][i].uses = UsesBefore(@, Cur.start)]
    BY <1>2 DEF Evicts
  <2>2. /\ \A j \in Tiers : DOMAIN placed'[j] = DOMAIN placed[j]
        /\ \A j \in Tiers : j # Tier => placed'[j] = placed[j]
        /\ \A j \in DOMAIN placed[Tier] : j # i => placed'[Tier][j] = placed[Tier][j]
        /\ placed'[Tier][i] = [placed[Tier][i] EXCEPT !.end = Cur.start,
                                            !.uses = UsesBefore(@, Cur.start)]
    BY <1>1, <2>1, Truncated
  <2>3. QED BY <1>3, <1>4, <1>5, <1>6, <1>7, <2>2
<1>10. /\ Latest(Top) /\ Top.tier = k /\ Top.cur = Cur /\ prog.guard \in Nat
       /\ InOrder(k) => \A n \in DOMAIN taken[k] : taken[k][n] \in Int /\ taken[k][n] <= now
  BY <1>1, <1>3, <1>6, PlacingLast
<1>11. \A j \in DOMAIN q : \E n \in DOMAIN taken[k] : q[j].start = taken[k][n]
  <2>1. Dated(k)
    BY DEF GuardInv
  <2>2. QED BY <1>4, <2>1 DEF Dated
<1>12. \A j \in DOMAIN q : j \in handled[k] =>
         \E n \in DOMAIN taken[k] : q[j].end + prog.guard <= taken[k][n]
  <2>1. Dated(k)
    BY DEF GuardInv
  <2>2. QED BY <1>4, <2>1 DEF Dated
<1>13. i \notin handled[k]
  BY <1>5 DEF Active
<1>14. Dated(k)'
  <2>1. SUFFICES ASSUME NEW j \in DOMAIN q
                 PROVE  /\ \E n \in DOMAIN taken[k] : placed'[k][j].start = taken[k][n]
                        /\ j \in handled[k] => \E n \in DOMAIN taken[k] :
                             placed'[k][j].end + prog.guard <= taken[k][n]
    BY <1>1, <1>9 DEF Dated
  <2>2. CASE j = i
    BY <1>5, <1>8, <1>9, <1>11, <1>13, <2>2
  <2>3. CASE j # i
    BY <1>9, <1>11, <1>12, <2>3
  <2>4. QED BY <2>2, <2>3
<1>15. InOrder(k)' => Clear(k)'
  <2>1. SUFFICES ASSUME InOrder(k)', NEW y \in DOMAIN q, NEW z \in DOMAIN q, y < z
                 PROVE  \/ Apart(placed'[k][y], placed'[k][z], placed'[k][z].offset)
                        \/ placed'[k][y].end + prog.guard <= placed'[k][z].start
    <3>1. prog'.guard = prog.guard
      BY <1>1
    <3>2. QED BY <1>9, <3>1 DEF Clear
  <2>2. InOrder(k)
    BY <1>1, <2>1 DEF InOrder
  <2>3. Apart(q[y], q[z], q[z].offset) \/ q[y].end + prog.guard <= q[z].start
    <3>1. Clear(k)
      BY <2>2 DEF GuardInv
    <3>2. QED BY <1>4, <2>1, <3>1 DEF Clear
  <2>4. /\ placed'[k][y].offset = q[y].offset /\ placed'[k][y].size = q[y].size
        /\ placed'[k][z].offset = q[z].offset /\ placed'[k][z].size = q[z].size
        /\ placed'[k][z].start = q[z].start
    BY <1>5, <1>8, <1>9
  <2>5. Apart(q[y], q[z], q[z].offset) =>
          Apart(placed'[k][y], placed'[k][z], placed'[k][z].offset)
    BY <2>4 DEF Apart
  <2>6. CASE y # i
    BY <1>9, <2>3, <2>4, <2>5, <2>6
  <2>7. CASE y = i
    <3>1. ~ (a.end + prog.guard <= now)
      <4>1. \A j \in Active(k) : q[j].end + prog.guard <= now => q[j].id \in Top.excluded
        BY <1>4, <1>6, <1>10, <2>2 DEF Latest
      <4>2. QED BY <1>5, <4>1
    <3>2. PICK n \in DOMAIN taken[k] : q[z].start = taken[k][n]
      BY <1>11
    <3>3. q[z].start <= now /\ q[z].start \in Int
      BY <1>10, <2>2, <3>2
    <3>4. a.end \in Int
      BY DEF IntervalType
    <3>5. ~ (q[y].end + prog.guard <= q[z].start)
      BY <1>5, <1>10, <2>7, <3>1, <3>3, <3>4
    <3>6. QED BY <2>3, <2>5, <3>5
  <2>8. QED BY <2>6, <2>7
<1>16. PICK n \in Nat : n = Len(stack) /\ DOMAIN stack = 1 .. n /\ n \in 1 .. n
  BY <1>1, TopTyped
<1>17. PICK f : /\ DOMAIN stack' = 1 .. n + 1 /\ stack'[n] = f
                /\ f.tier = k /\ f.cur = Cur /\ f.excluded = Top.excluded \cup {v}
                /\ \A j \in 1 .. n - 1 : stack'[j] = stack[j]
                /\ stack'[n + 1].cur = NoInterval
  <2>1. PICK top \in FrameType : top = Top
    BY <1>1, TopTyped
  <2>2. PICK reload : stack' = Append(SetTop([top EXCEPT !.excluded = @ \cup {v}, !.reload = reload]),
                                      Frame(Tier + 1))
    BY <1>2, <2>1 DEF Evicts
  <2>3. PICK f : f = [top EXCEPT !.excluded = @ \cup {v}, !.reload = reload]
    OBVIOUS
  <2>4. f.tier = top.tier /\ f.cur = top.cur /\ f.excluded = top.excluded \cup {v}
    BY <2>3 DEF FrameType
  <2>5. PICK s \in Seq(FrameType) : s = stack
    BY DEF ScanInv, StackTyped
  <2>6. PICK e : e = Frame(Tier + 1)
    OBVIOUS
  <2>7. PICK r : r = [s EXCEPT ![n] = f]
    OBVIOUS
  <2>8. r \in Seq({r[j] : j \in 1 .. n}) /\ Len(r) = n /\ DOMAIN r = 1 .. n
    <3>1. r \in [1 .. n -> {r[j] : j \in 1 .. n}]
      BY <1>16, <2>5, <2>7
    <3>2. QED BY <1>16, <3>1, FunctionIsSeq
  <2>9. r[n] = f /\ \A j \in 1 .. n - 1 : r[j] = s[j]
    BY <1>16, <2>5, <2>7
  <2>10. stack' = Append(r, e)
    BY <1>16, <2>2, <2>3, <2>5, <2>6, <2>7 DEF SetTop
  <2>11. DOMAIN stack' = 1 .. n + 1 /\ stack'[n + 1] = e /\ \A j \in 1 .. n : stack'[j] = r[j]
    BY <2>8, <2>10
  <2>12. e.cur = NoInterval
    BY <2>6 DEF Frame
  <2>13. stack'[n] = f /\ \A j \in 1 .. n - 1 : stack'[j] = stack[j]
    BY <1>16, <2>5, <2>9, <2>11
  <2>14. QED BY <1>10, <2>1, <2>4, <2>11, <2>12, <2>13
<1>18. Latest(f)'
  <2>1. Active(k)' = Active(k) /\ Active(k) \subseteq DOMAIN q
    BY <1>1, <1>4, <1>9 DEF Active
  <2>2. InOrder(k)' = InOrder(k)
    BY <1>1 DEF InOrder
  <2>3. ASSUME InOrder(k), NEW j \in Active(k), placed'[k][j].end + prog.guard <= now
        PROVE  placed'[k][j].id \in f.excluded
    <3>1. CASE j = i
      BY <1>5, <1>8, <1>9, <1>17, <3>1
    <3>2. CASE j # i
      <4>1. placed'[k][j] = q[j]
        BY <1>9, <2>1, <3>2
      <4>2. q[j].id \in Top.excluded
        BY <1>4, <1>6, <1>10, <2>3, <4>1 DEF Latest
      <4>3. QED BY <1>17, <4>1, <4>2
    <3>3. QED BY <3>1, <3>2
  <2>4. taken[k] # << >> /\ now = taken[k][Len(taken[k])] /\ now < f.cur.end
    BY <1>6, <1>10, <1>17 DEF Latest
  <2>5. f.tier = k /\ f.cur.start = now
    BY <1>6, <1>17
  <2>6. QED BY <1>1, <2>1, <2>2, <2>3, <2>4, <2>5 DEF Latest
<1>19. QED
  <2>1. taken' \in [Tiers -> Seq(Int)]
    BY <1>1 DEF GuardInv
  <2>2. \A j \in Tiers : j # k => /\ taken'[j] = taken[j] /\ placed'[j] = placed[j]
                                  /\ handled'[j] = handled[j]
    BY <1>1, <1>9
  <2>3. DOMAIN stack' \subseteq 1 .. n + 1
    BY <1>17
  <2>4. QED BY <1>1, <1>3, <1>14, <1>15, <1>16, <1>17, <1>18, <2>1, <2>2, <2>3, GuardStep

(* A step that takes, places and evicts nothing, and leaves every call with *)
(* what it is placing, or with nothing.                                     *)
LEMMA GuardQuiet ==
  ASSUME GuardInv, prog' = prog, taken' = taken, placed' = placed, handled' = handled,
         \A j \in DOMAIN stack' :
           \/ stack'[j].cur = NoInterval
           \/ \E i \in DOMAIN stack : /\ stack'[j].tier = stack[i].tier
                                      /\ stack'[j].cur = stack[i].cur
                                      /\ stack'[j].excluded = stack[i].excluded
  PROVE  GuardInv'
<1>1. Tiers' = Tiers /\ taken' \in [Tiers -> Seq(Int)]
  BY DEF Tiers, GuardInv
<1>2. ASSUME NEW k \in Tiers PROVE Dated(k)' /\ (InOrder(k)' => Clear(k)')
  <2>1. Dated(k) /\ (InOrder(k) => Clear(k))
    BY DEF GuardInv
  <2>2. InOrder(k)' = InOrder(k) /\ Clear(k)' = Clear(k) /\ Dated(k)' = Dated(k)
    BY DEF InOrder, Clear, Dated, Apart
  <2>3. QED BY <2>1, <2>2
<1>3. ASSUME NEW j \in DOMAIN stack', NEW g, g = stack'[j], g.cur # NoInterval
      PROVE  Latest(g)'
  <2>1. PICK i \in DOMAIN stack : /\ g.tier = stack[i].tier /\ g.cur = stack[i].cur
                                  /\ g.excluded = stack[i].excluded
    BY <1>3
  <2>2. PICK f : f = stack[i]
    OBVIOUS
  <2>3. Latest(f)
    BY <1>3, <2>1, <2>2 DEF GuardInv
  <2>4. g.tier = f.tier /\ g.cur = f.cur /\ f.excluded \subseteq g.excluded
    BY <2>1, <2>2
  <2>5. /\ taken'[f.tier] = taken[f.tier] /\ placed'[f.tier] = placed[f.tier]
        /\ handled'[f.tier] = handled[f.tier]
    OBVIOUS
  <2>6. QED BY ONLY prog' = prog, <2>3, <2>4, <2>5, LatestKept
<1>4. QED BY <1>1, <1>2, <1>3 DEF GuardInv

LEMMA GuardGiveUp == ScanInv /\ GuardInv /\ GiveUp => GuardInv'
<1> SUFFICES ASSUME ScanInv, GuardInv, GiveUp PROVE GuardInv'
  OBVIOUS
<1>1. /\ prog' = prog /\ taken' = taken /\ placed' = placed /\ handled' = handled
      /\ stack # << >> /\ stack' = SetTop([Top EXCEPT !.cur = NoInterval, !.ok = FALSE])
  BY DEF GiveUp, Placing, Calling, tiersState
<1>2. PICK n \in Nat : n = Len(stack) /\ DOMAIN stack = 1 .. n /\ n \in 1 .. n
  BY <1>1, TopTyped
<1>3. PICK top \in FrameType : top = Top
  BY <1>1, TopTyped
<1>4. PICK f : f = [top EXCEPT !.cur = NoInterval, !.ok = FALSE]
  OBVIOUS
<1>5. f.cur = NoInterval
  BY <1>4 DEF FrameType
<1>6. PICK s \in Seq(FrameType) : s = stack
  BY DEF ScanInv, StackTyped
<1>7. stack' = [s EXCEPT ![n] = f]
  BY <1>1, <1>2, <1>3, <1>4, <1>6 DEF SetTop
<1>8. DOMAIN stack' = 1 .. n /\ stack'[n] = f /\ \A i \in 1 .. n : i # n => stack'[i] = stack[i]
  BY <1>2, <1>6, <1>7
<1>9. ASSUME NEW j \in DOMAIN stack'
      PROVE  \/ stack'[j].cur = NoInterval
             \/ \E i \in DOMAIN stack : /\ stack'[j].tier = stack[i].tier
                                        /\ stack'[j].cur = stack[i].cur
                                        /\ stack'[j].excluded = stack[i].excluded
  BY <1>2, <1>5, <1>8
<1>10. QED BY <1>1, <1>9, GuardQuiet

LEMMA GuardReturn == ScanInv /\ GuardInv /\ Return => GuardInv'
<1> SUFFICES ASSUME ScanInv, GuardInv, Return PROVE GuardInv'
  OBVIOUS
<1>1. /\ prog' = prog /\ taken' = taken /\ placed' = placed /\ handled' = handled
      /\ stack # << >>
  BY DEF Return, Idle, Calling
<1>2. PICK n \in Nat : n = Len(stack) /\ DOMAIN stack = 1 .. n /\ n \in 1 .. n
  BY <1>1, TopTyped
<1>3. PICK s \in Seq(FrameType) : s = stack
  BY DEF ScanInv, StackTyped
<1>4. CASE n = 1
  <2>1. stack' = << >>
    BY <1>2, <1>4 DEF Return
  <2>2. DOMAIN stack' = {}
    BY <2>1
  <2>3. QED BY <1>1, <2>2, GuardQuiet
<1>5. CASE n # 1
  <2>1. n - 1 \in 1 .. n /\ n - 2 \in Nat /\ n - 2 <= n
    BY <1>2, <1>5
  <2>2. PICK caller \in FrameType : caller = s[n - 1]
    BY <1>2, <1>3, <2>1
  <2>3. PICK f : f = [caller EXCEPT !.reload = NoInterval]
    OBVIOUS
  <2>4. f \in FrameType /\ f.tier = caller.tier /\ f.cur = caller.cur /\ f.excluded = caller.excluded
    BY <2>3 DEF FrameType
  <2>5. stack' = Append(SubSeq(s, 1, n - 2), f)
    BY <1>2, <1>3, <1>5, <2>2, <2>3 DEF Return
  <2>6. PICK r \in Seq(FrameType) : /\ r = SubSeq(s, 1, n - 2) /\ Len(r) = n - 2
                                    /\ \A i \in 1 .. n - 2 : r[i] = s[i]
    <3>1. n - 2 <= Len(s)
      BY <1>2, <1>3, <2>1
    <3>2. QED BY <2>1, <3>1, Shortened, ZenonT(60)
  <2>7. /\ DOMAIN stack' = 1 .. n - 1 /\ stack'[n - 1] = f
        /\ \A i \in 1 .. n - 2 : stack'[i] = s[i]
    BY <2>1, <2>4, <2>5, <2>6
  <2>8. ASSUME NEW j \in DOMAIN stack'
        PROVE  \/ stack'[j].cur = NoInterval
               \/ \E i \in DOMAIN stack : /\ stack'[j].tier = stack[i].tier
                                          /\ stack'[j].cur = stack[i].cur
                                          /\ stack'[j].excluded = stack[i].excluded
    <3>1. CASE j = n - 1
      BY <1>2, <1>3, <2>1, <2>2, <2>4, <2>7, <3>1
    <3>2. CASE j # n - 1
      <4>1. j \in 1 .. n - 2 /\ j \in 1 .. n
        BY <2>1, <2>7, <3>2
      <4>2. QED BY <1>2, <1>3, <2>7, <4>1
    <3>3. QED BY <3>1, <3>2
  <2>9. QED BY <1>1, <2>8, GuardQuiet
<1>6. QED BY <1>4, <1>5

LEMMA GuardStartTier == ScanInv /\ GuardInv /\ StartTier => GuardInv'
<1> SUFFICES ASSUME ScanInv, GuardInv, StartTier PROVE GuardInv'
  OBVIOUS
<1>1. /\ prog' = prog /\ taken' = taken /\ placed' = placed /\ handled' = handled
      /\ stack' = <<Frame(level)>>
  BY DEF StartTier, tiersState
<1>2. \A j \in DOMAIN stack' : stack'[j] = Frame(level)
  BY <1>1
<1>3. Frame(level).cur = NoInterval
  BY DEF Frame
<1>4. \A j \in DOMAIN stack' : stack'[j].cur = NoInterval
  BY <1>2, <1>3
<1>5. QED BY <1>1, <1>4, GuardQuiet

LEMMA GuardRest ==
  GuardInv /\ (SpillOfNothing \/ Scanned \/ EmitChain \/ Finish \/ Execute \/ UNCHANGED vars)
    => GuardInv'
<1> SUFFICES ASSUME GuardInv,
                    SpillOfNothing \/ Scanned \/ EmitChain \/ Finish \/ Execute \/ UNCHANGED vars
             PROVE  GuardInv'
  OBVIOUS
<1>1. /\ prog' = prog /\ taken' = taken /\ placed' = placed /\ handled' = handled
      /\ stack' = stack
  BY DEF SpillOfNothing, Scanned, EmitChain, Finish, Execute, vars, tiersState
<1>2. \A j \in DOMAIN stack' : stack'[j] = stack[j] /\ j \in DOMAIN stack
  BY <1>1
<1>3. QED BY <1>1, <1>2, GuardQuiet

(* The guard of every address, as an invariant of the scan.                 *)
LEMMA GuardInvariant == Spec => []GuardInv
<1>1. Init => GuardInv
  BY GuardInit
<1>2. ScanInv /\ GuardInv /\ [Next]_vars => GuardInv'
  BY GuardStartTier, GuardTake, GuardPlace, GuardSpill, GuardGiveUp, GuardReturn, GuardRest
     DEF Next
<1>3. QED BY <1>1, <1>2, ScanWellFormed, PTL DEF Spec

(* Expiry never forgets a buffer that a later placement could collide with: *)
(* in a tier that took its intervals in order, whatever was evicted and     *)
(* reloaded meanwhile and whichever offsets the solver gave, two buffers    *)
(* that share an address live a guard apart.                                *)
THEOREM ReuseKeepsTheGuard == Spec => []ReuseRespectsGuard
<1>1. GuardInv => ReuseRespectsGuard
  <2>1. ASSUME NEW k \in Tiers, Clear(k) PROVE Separate(k)
    BY <2>1 DEF Clear, Separate
  <2>2. QED BY <2>1 DEF GuardInv, ReuseRespectsGuard
<1>2. QED BY <1>1, GuardInvariant, PTL

-----------------------------------------------------------------------------
(* The rewrites of the function.                                            *)

LEMMA CodeInit == Init => CodeInv
<1> SUFFICES ASSUME Init PROVE CodeInv
  OBVIOUS
<1>1. /\ prog \in Programs /\ phase = "alloc" /\ pc = 1
      /\ memrefs = [b \in Bufs(prog) |-> Unplaced(b)]
      /\ code = [t \in Times(prog) |-> [kind |-> prog.ops[t].kind, time |-> t, at |-> t,
                                        reads |-> prog.ops[t].reads,
                                        writes |-> prog.ops[t].writes]]
  BY DEF Init
<1>2. PICK n \in Nat : n = Len(prog.size) /\ Bufs(prog) = 1 .. n
  BY <1>1, FunctionTyped
<1>3. PICK l \in Nat : l = Len(prog.ops) /\ Times(prog) = 1 .. l
  BY <1>1, FunctionTyped
<1>4. Len(memrefs) = n
  BY <1>1, <1>2
<1>5. \A t \in 1 .. l : /\ prog.ops[t] \in Operations(Bufs(prog))
                        /\ Touched(prog.ops[t]) \subseteq 1 .. n
  BY <1>1, <1>2, <1>3, FunctionTyped
<1>6. \A t \in 1 .. l : /\ code[t].kind = prog.ops[t].kind /\ code[t].time = t
                        /\ code[t].reads = prog.ops[t].reads
                        /\ code[t].writes = prog.ops[t].writes
  BY <1>1, <1>3
<1>7. \A t \in 1 .. l : code[t] \in CodeType
  <2>1. SUFFICES ASSUME NEW t \in 1 .. l PROVE code[t] \in CodeType
    OBVIOUS
  <2>2. /\ prog.ops[t].kind \in {"alloc", "global", "exec", "dealloc"}
        /\ prog.ops[t].reads \subseteq Nat /\ prog.ops[t].writes \subseteq Nat /\ t \in Nat
    BY <1>2, <1>5 DEF Operations
  <2>3. QED BY <1>1, <1>3, <2>2 DEF CodeType
<1>8. code \in Seq(CodeType) /\ Len(code) = l
  <2>1. code \in [1 .. l -> CodeType]
    BY <1>1, <1>3, <1>7
  <2>2. QED BY ONLY l \in Nat, <2>1, FunctionIsSeq
<1>9. (\A op \in Range(code) : \E t \in 1 .. l : op = code[t]) /\ DOMAIN code = 1 .. l
  <2>1. DOMAIN code = 1 .. l
    BY <1>8
  <2>2. QED BY <2>1, InRange
<1>10. \A t \in 1 .. l : code[t] \in Range(code)
  BY <1>9, InRange
<1>11. \A op \in Range(code) :
         /\ Touched(op) \subseteq 1 .. n
         /\ op.time # 0 => op.time \in Times(prog) /\ op.kind = prog.ops[op.time].kind
  BY <1>3, <1>5, <1>6, <1>9 DEF Touched
<1>12. ASSUME NEW m \in 1 .. n
       PROVE  \E op \in Range(code) : op.kind # "exec" /\ m \in op.writes
  <2>1. PICK d \in 1 .. l : prog.ops[d].kind \in {"alloc", "global"} /\ prog.ops[d].writes = {m}
    BY <1>1, <1>2, <1>3, DefinedFirst
  <2>2. code[d].kind # "exec" /\ m \in code[d].writes
    BY <1>6, <2>1
  <2>3. QED BY <1>10, <2>2
<1>13. \A t \in Times(prog) : \E op \in Range(code) : op.time = t
  BY <1>3, <1>6, <1>10
<1>14. CodeOk(code, Len(memrefs))
  BY <1>4, <1>8, <1>11, <1>12, <1>13 DEF CodeOk
<1>15. pc \in 1 .. Len(code) + 1
  BY <1>1, <1>8
<1>16. QED BY <1>1, <1>14, <1>15 DEF CodeInv

(* Copies added to the code, each of a memref of its own.                   *)
LEMMA CodeExtends ==
  ASSUME NEW n \in Nat, NEW l \in Nat, n <= l, NEW c, CodeOk(c, n),
         NEW d \in Seq(CodeType), NEW N, Range(d) = Range(c) \cup N,
         \A op \in N : op.kind = "copy" /\ op.time = 0 /\ Touched(op) \subseteq 1 .. l,
         \A m \in n + 1 .. l : \E op \in N : m \in op.writes
  PROVE  CodeOk(d, l)
<1>1. \A m \in 1 .. l : m \in 1 .. n \/ m \in n + 1 .. l
  OBVIOUS
<1>2. 1 .. n \subseteq 1 .. l
  OBVIOUS
<1>3. \A op \in Range(d) :
        /\ Touched(op) \subseteq 1 .. l
        /\ op.time # 0 => op.time \in Times(prog) /\ op.kind = prog.ops[op.time].kind
  BY <1>2 DEF CodeOk
<1>4. \A m \in 1 .. l : \E op \in Range(d) : op.kind # "exec" /\ m \in op.writes
  BY <1>1 DEF CodeOk
<1>5. \A t \in Times(prog) : \E op \in Range(d) : op.time = t
  BY DEF CodeOk
<1>6. QED BY <1>3, <1>4, <1>5 DEF CodeOk

LEMMA CopyTyped ==
  ASSUME NEW t \in Nat, NEW from \in Nat, NEW to \in Nat
  PROVE  /\ Copy(t, from, to) \in CodeType /\ Copy(t, from, to).kind = "copy"
         /\ Copy(t, from, to).time = 0
         /\ Touched(Copy(t, from, to)) = {from, to} /\ to \in Copy(t, from, to).writes
BY DEF Copy, CodeType, Touched

LEMMA CodeCopies ==
  ASSUME NEW n \in Nat, NEW c, CodeOk(c, n), NEW p \in 1 .. Len(c), NEW from \in 1 .. n
  PROVE  CodeOk(CopyBefore(c, p, from, n + 1), n + 1)
<1>1. PICK s \in Seq(CodeType) : s = c
  BY DEF CodeOk
<1>2. PICK e \in CodeType : /\ e = Copy(c[p].at, from, n + 1) /\ e.kind = "copy" /\ e.time = 0
                            /\ Touched(e) = {from, n + 1} /\ n + 1 \in e.writes
  <2>1. PICK t \in Nat : t = c[p].at
    <3>1. s[p] \in CodeType
      BY <1>1, ElementOfSeq
    <3>2. QED BY <1>1, <3>1 DEF CodeType
  <2>2. PICK to \in Nat : to = n + 1
    OBVIOUS
  <2>3. PICK f \in Nat : f = from
    OBVIOUS
  <2>4. PICK e : e = Copy(t, f, to)
    OBVIOUS
  <2>5. /\ e \in CodeType /\ e.kind = "copy" /\ e.time = 0
        /\ Touched(e) = {f, to} /\ to \in e.writes
    BY ONLY t \in Nat, f \in Nat, to \in Nat, <2>4 DEF Copy, CodeType, Touched
  <2>6. QED BY <2>1, <2>2, <2>3, <2>4, <2>5
<1>3. PICK d \in Seq(CodeType) : d = InsertAt(s, p, e) /\ Range(d) = Range(s) \cup {e}
  <2>1. p \in 1 .. Len(s) + 1 /\ Len(s) \in Nat
    BY <1>1
  <2>2. InsertAt(s, p, e) \in Seq(CodeType) /\ Range(InsertAt(s, p, e)) = Range(s) \cup {e}
    BY ONLY s \in Seq(CodeType), e \in CodeType, <2>1, Inserted
  <2>3. QED BY <2>2
<1>4. \A m \in n + 1 .. n + 1 : m = n + 1
  OBVIOUS
<1>5. Touched(e) \subseteq 1 .. n + 1 /\ n + 1 \in Nat /\ n <= n + 1
  BY <1>2
<1>6. CodeOk(d, n + 1)
  <2>1. PICK N : N = {e}
    OBVIOUS
  <2>2. PICK l \in Nat : l = n + 1 /\ n <= l
    BY <1>5
  <2>3. \A op \in N : op.kind = "copy" /\ op.time = 0 /\ Touched(op) \subseteq 1 .. l
    BY <1>2, <1>5, <2>1, <2>2
  <2>4. \A m \in n + 1 .. l : \E op \in N : m \in op.writes
    BY <1>2, <1>4, <2>1, <2>2
  <2>5. Range(d) = Range(c) \cup N
    BY <1>1, <1>3, <2>1
  <2>6. CodeOk(d, l)
    BY ONLY n \in Nat, l \in Nat, d \in Seq(CodeType), CodeOk(c, n), <2>2, <2>3, <2>4, <2>5,
            CodeExtends
  <2>7. QED BY <2>2, <2>6
<1>7. QED BY <1>1, <1>2, <1>3, <1>6 DEF CopyBefore

(* The operations of the function that use a memref are pointed at another. *)
LEMMA CodeReplaces ==
  ASSUME NEW n \in Nat, NEW c, CodeOk(c, n), NEW times \in SUBSET ExecTimes,
         prog \in Programs, NEW old, NEW new \in 1 .. n
  PROVE  CodeOk(Replaced(c, times, old, new), n)
<1>1. PICK s \in Seq(CodeType) : s = c
  BY DEF CodeOk
<1>2. PICK d : d = Replaced(s, times, old, new)
  OBVIOUS
<1>3. /\ DOMAIN s = 1 .. Len(s) /\ Len(s) \in Nat /\ \A i \in DOMAIN s : s[i] \in CodeType
  OBVIOUS
<1>4. d = [i \in 1 .. Len(s) |-> d[i]]
  BY <1>2, <1>3 DEF Replaced
<1>5. \A i \in DOMAIN s : s[i].time \notin times => d[i] = s[i]
  BY <1>2 DEF Replaced
<1>6. ASSUME NEW i \in DOMAIN s
      PROVE  /\ d[i] \in CodeType /\ d[i].kind = s[i].kind /\ d[i].time = s[i].time
             /\ Touched(d[i]) \subseteq Touched(s[i]) \cup {new}
  <2>1. PICK op \in CodeType : op = s[i]
    BY <1>3
  <2>2. CASE op.time \in times
    <3>1. d[i] = [op EXCEPT !.reads = Renamed(@, old, new), !.writes = Renamed(@, old, new)]
      BY <1>2, <2>1, <2>2 DEF Replaced
    <3>2. PICK r : r = Renamed(op.reads, old, new)
      OBVIOUS
    <3>3. PICK w : w = Renamed(op.writes, old, new)
      OBVIOUS
    <3>4. r \subseteq op.reads \cup {new} /\ w \subseteq op.writes \cup {new}
      BY <3>2, <3>3 DEF Renamed
    <3>5. op.reads \subseteq Nat /\ op.writes \subseteq Nat /\ new \in Nat
      BY DEF CodeType
    <3>6. r \subseteq Nat /\ w \subseteq Nat
      BY <3>4, <3>5
    <3>7. PICK e : e = [op EXCEPT !.reads = r, !.writes = w]
      OBVIOUS
    <3>8. /\ e \in CodeType /\ e.kind = op.kind /\ e.time = op.time /\ e.reads = r
          /\ e.writes = w
      BY <3>6, <3>7 DEF CodeType
    <3>9. e = d[i]
      BY <3>1, <3>2, <3>3, <3>7
    <3>10. Touched(e) \subseteq Touched(op) \cup {new}
      BY <3>4, <3>8 DEF Touched
    <3>11. QED BY <2>1, <3>8, <3>9, <3>10
  <2>3. CASE op.time \notin times
    BY <1>3, <1>5, <2>1, <2>3
  <2>4. QED BY <2>2, <2>3
<1>7. d \in Seq(CodeType)
  <2>1. d \in [1 .. Len(s) -> CodeType]
    BY <1>3, <1>4, <1>6
  <2>2. QED BY ONLY <1>3, <2>1, FunctionIsSeq
<1>8. \A op \in Range(d) : \E i \in DOMAIN s : op = d[i] /\ s[i] \in Range(s)
  BY <1>3, <1>4, InRange
<1>9. \A i \in DOMAIN s : d[i] \in Range(d)
  BY <1>3, <1>4, InRange
<1>10. \A op \in Range(s) : \E i \in DOMAIN s : op = s[i]
  BY InRange
<1>11. \A op \in Range(s) :
         /\ Touched(op) \subseteq 1 .. n
         /\ op.time # 0 => op.time \in Times(prog) /\ op.kind = prog.ops[op.time].kind
  BY <1>1 DEF CodeOk
<1>12. \A op \in Range(d) :
         /\ Touched(op) \subseteq 1 .. n
         /\ op.time # 0 => op.time \in Times(prog) /\ op.kind = prog.ops[op.time].kind
  <2>1. SUFFICES ASSUME NEW i \in DOMAIN s
                 PROVE  /\ Touched(d[i]) \subseteq 1 .. n
                        /\ d[i].time # 0 => /\ d[i].time \in Times(prog)
                                            /\ d[i].kind = prog.ops[d[i].time].kind
    BY <1>8
  <2>2. s[i] \in Range(s)
    BY InRange
  <2>3. QED BY <1>6, <1>11, <2>2
<1>13. \A op \in Range(s) : op.kind # "exec" => op.time \notin times
  <2>1. SUFFICES ASSUME NEW op \in Range(s), op.time \in times PROVE op.kind = "exec"
    OBVIOUS
  <2>2. op.time \in ExecTimes /\ op.time # 0
    BY <2>1, FunctionTyped DEF ExecTimes
  <2>3. QED BY <1>11, <2>2 DEF ExecTimes
<1>14. ASSUME NEW m \in 1 .. n
       PROVE  \E op \in Range(d) : op.kind # "exec" /\ m \in op.writes
  <2>1. PICK op \in Range(s) : op.kind # "exec" /\ m \in op.writes
    BY <1>1 DEF CodeOk
  <2>2. PICK i \in DOMAIN s : op = s[i]
    BY <1>10
  <2>3. d[i] = op
    BY <1>5, <1>13, <2>1, <2>2
  <2>4. QED BY <1>9, <2>1, <2>3
<1>15. ASSUME NEW t \in Times(prog) PROVE \E op \in Range(d) : op.time = t
  <2>1. PICK op \in Range(s) : op.time = t
    BY <1>1 DEF CodeOk
  <2>2. PICK i \in DOMAIN s : op = s[i]
    BY <1>10
  <2>3. QED BY <1>6, <1>9, <2>1, <2>2
<1>16. QED BY <1>1, <1>2, <1>7, <1>12, <1>14, <1>15 DEF CodeOk

LEMMA PositionOfTime ==
  ASSUME NEW n, NEW c, CodeOk(c, n), NEW t \in Times(prog)
  PROVE  TimePos(c, t) \in 1 .. Len(c)
<1>1. PICK s \in Seq(CodeType) : s = c
  BY DEF CodeOk
<1>2. PICK op \in Range(s) : op.time = t
  BY <1>1 DEF CodeOk
<1>3. \E i \in DOMAIN s : s[i].time = t
  BY <1>2, InRange
<1>4. TimePos(s, t) \in DOMAIN s
  BY <1>3 DEF TimePos
<1>5. DOMAIN s = 1 .. Len(s)
  OBVIOUS
<1>6. QED BY <1>1, <1>4, <1>5

LEMMA PositionOfDef ==
  ASSUME NEW n, NEW c, CodeOk(c, n), NEW m \in 1 .. n
  PROVE  DefPos(c, m) \in 1 .. Len(c)
<1>1. PICK s \in Seq(CodeType) : s = c
  BY DEF CodeOk
<1>2. PICK op \in Range(s) : op.kind # "exec" /\ m \in op.writes
  BY <1>1 DEF CodeOk
<1>3. \E i \in DOMAIN s : s[i].kind # "exec" /\ m \in s[i].writes
  BY <1>2, InRange
<1>4. DefPos(s, m) \in DOMAIN s
  BY <1>3 DEF DefPos
<1>5. DOMAIN s = 1 .. Len(s)
  OBVIOUS
<1>6. QED BY <1>1, <1>4, <1>5

LEMMA CodeOkStays ==
  ASSUME prog' = prog, NEW c, NEW n
  PROVE  CodeOk(c, n)' = CodeOk(c, n)
BY DEF CodeOk

LEMMA CodeSpill == ScanInv /\ CodeInv /\ Spill => CodeInv'
<1> SUFFICES ASSUME ScanInv, CodeInv, Spill PROVE CodeInv'
  OBVIOUS
<1>1. /\ prog' = prog /\ phase' = phase /\ pc' = pc /\ phase = "alloc"
      /\ stack # << >> /\ Cur # NoInterval
  BY SpillStep DEF Spill, Placing, Calling
<1>2. PICK v \in Victims, i \in DOMAIN placed[Tier], a \in IntervalType, next \in Int,
           uses \in SUBSET Nat, reloads \in BOOLEAN :
        Evicts(v, i, a, next, uses, reloads) /\ Rewrites(v, a, uses, reloads)
  BY SpillStep
<1>3. Sound(a) /\ v \in Ids /\ a.id = v
  BY <1>1, <1>2, VictimIsActive DEF Evicts
<1>4. PICK n \in Nat : n = Len(memrefs)
  BY DEF ScanInv, MemrefsTyped
<1>5. PICK l \in {1, 2} : l = IF reloads THEN 2 ELSE 1
  OBVIOUS
<1>6. Len(memrefs') = n + l
  <2>1. v.buf \in Bufs(prog)
    BY <1>3 DEF Sound
  <2>2. Unplaced(v.buf) \in MemrefType
    BY <2>1 DEF Unplaced, MemrefType, NoOffset
  <2>3. l \in Nat /\ [j \in 1 .. l |-> Unplaced(v.buf)] \in [1 .. l -> MemrefType]
    BY <2>2
  <2>4. PICK added \in Seq(MemrefType) : added = [j \in 1 .. l |-> Unplaced(v.buf)] /\ Len(added) = l
    BY ONLY <2>3, FunctionIsSeq
  <2>5. memrefs' = memrefs \o added /\ memMap' = memMap
    BY <1>2, <1>5, <2>4, SpillStep DEF Evicts
  <2>6. QED BY <1>1, <1>4, <2>4, <2>5, MemrefsAdded
<1>7. Cur.mem \in 1 .. n /\ a.mem \in 1 .. n
  <2>1. Sound(Cur) /\ Sound(a) /\ Cur.mem # 0 /\ a.mem # 0
    BY <1>1, <1>2, <1>3, TopTyped DEF Evicts, NoMem
  <2>2. Cur.mem \in 0 .. n /\ a.mem \in 0 .. n
    BY <1>4, <2>1 DEF Sound
  <2>3. QED BY <2>1, <2>2
<1>8. CodeOk(code, n)
  BY <1>4 DEF CodeInv
<1>9. DefPos(code, Cur.mem) \in 1 .. Len(code)
  BY <1>7, <1>8, PositionOfDef
<1>10. PICK spilled : spilled = CopyBefore(code, DefPos(code, Cur.mem), a.mem, n + 1)
  OBVIOUS
<1>11. CodeOk(spilled, n + 1)
  BY <1>7, <1>8, <1>9, <1>10, CodeCopies
<1>12. CASE ~ reloads
  <2>1. code' = spilled /\ Len(memrefs') = n + 1
    BY <1>2, <1>4, <1>5, <1>6, <1>10, <1>12 DEF Rewrites
  <2>2. CodeOk(code, Len(memrefs))'
    BY <1>1, <1>11, <2>1, CodeOkStays
  <2>3. Len(code') \in Nat
    BY <1>11, <2>1 DEF CodeOk
  <2>4. pc' = 1 /\ 1 \in 1 .. Len(code') + 1
    BY <1>1, <2>3 DEF CodeInv
  <2>5. QED BY <2>2, <2>4 DEF CodeInv
<1>13. CASE reloads
  <2>1. uses \subseteq a.uses /\ uses # {}
    BY <1>2, <1>13 DEF Evicts
  <2>2. uses \in SUBSET ExecTimes
    BY <1>3, <2>1 DEF Sound
  <2>3. Min(uses) \in Times(prog)
    <3>1. Min(uses) \in uses
      BY <2>1, MinIsLeast
    <3>2. QED BY <2>2, <3>1 DEF ExecTimes
  <2>4. TimePos(spilled, Min(uses)) \in 1 .. Len(spilled)
    BY <1>11, <2>3, PositionOfTime
  <2>5. PICK reloaded :
          reloaded = CopyBefore(spilled, TimePos(spilled, Min(uses)), n + 1, (n + 1) + 1)
    OBVIOUS
  <2>6. CodeOk(reloaded, (n + 1) + 1)
    <3>1. PICK k \in Nat : k = n + 1 /\ k \in 1 .. k
      OBVIOUS
    <3>2. CodeOk(CopyBefore(spilled, TimePos(spilled, Min(uses)), k, k + 1), k + 1)
      BY <1>11, <2>4, <3>1, CodeCopies
    <3>3. QED BY <2>5, <3>1, <3>2
  <2>7. (n + 1) + 1 = n + 2 /\ n + 2 \in 1 .. n + 2 /\ n + 2 \in Nat
    OBVIOUS
  <2>8. CodeOk(reloaded, n + 2)
    BY <2>6, <2>7
  <2>9. CodeOk(Replaced(reloaded, uses, a.mem, n + 2), n + 2)
    BY <2>2, <2>7, <2>8, CodeReplaces DEF ScanInv
  <2>10. code' = Replaced(reloaded, uses, a.mem, n + 2) /\ Len(memrefs') = n + 2
    BY <1>2, <1>4, <1>5, <1>6, <1>10, <1>13, <2>5, <2>7 DEF Rewrites
  <2>11. CodeOk(code, Len(memrefs))'
    BY <1>1, <2>9, <2>10, CodeOkStays
  <2>12. Len(code') \in Nat
    BY <2>9, <2>10 DEF CodeOk
  <2>13. pc' = 1 /\ 1 \in 1 .. Len(code') + 1
    BY <1>1, <2>12 DEF CodeInv
  <2>14. QED BY <2>11, <2>13 DEF CodeInv
<1>14. QED BY <1>12, <1>13

LEMMA StageCopiesTyped ==
  ASSUME prog \in Programs, NEW b \in Bufs(prog), NEW t \in Nat, NEW n \in Nat, b <= n, NEW h \in Nat,
         h = HomeOf(prog, b)
  PROVE  /\ StageCopies(b, t, n) \in Seq(CodeType)
         /\ \A op \in Range(StageCopies(b, t, n)) :
              op.kind = "copy" /\ op.time = 0 /\ Touched(op) \subseteq 1 .. n + h
         /\ \A m \in n + 1 .. n + h : \E op \in Range(StageCopies(b, t, n)) : m \in op.writes
<1>1. PICK f : f = StageCopies(b, t, n)
  OBVIOUS
<1>2. /\ f = [i \in 1 .. h |-> f[i]]
      /\ \A i \in 1 .. h : f[i] = Copy(t, IF i = 1 THEN b ELSE n + i - 1, n + i)
  BY <1>1 DEF StageCopies
<1>3. b \in Nat /\ b >= 1
  BY FunctionTyped
<1>4. ASSUME NEW i \in 1 .. h
      PROVE  /\ f[i] \in CodeType /\ f[i].kind = "copy" /\ f[i].time = 0
             /\ Touched(f[i]) \subseteq 1 .. n + h /\ n + i \in f[i].writes
  <2>1. PICK from \in Nat : from = (IF i = 1 THEN b ELSE n + i - 1) /\ from \in 1 .. n + h
    BY <1>3
  <2>2. PICK to \in Nat : to = n + i /\ to \in 1 .. n + h
    BY SMT
  <2>3. f[i] = Copy(t, from, to)
    BY <1>2, <2>1, <2>2
  <2>4. PICK e : e = Copy(t, from, to)
    OBVIOUS
  <2>5. /\ e \in CodeType /\ e.kind = "copy" /\ e.time = 0
        /\ Touched(e) = {from, to} /\ to \in e.writes
    BY ONLY t \in Nat, from \in Nat, to \in Nat, <2>4, CopyTyped
  <2>6. QED BY <2>1, <2>2, <2>3, <2>4, <2>5
<1>5. f \in [1 .. h -> CodeType]
  BY <1>2, <1>4
<1>6. f \in Seq(CodeType)
  BY ONLY h \in Nat, <1>5, FunctionIsSeq
<1>7. \A op \in Range(f) : op.kind = "copy" /\ op.time = 0 /\ Touched(op) \subseteq 1 .. n + h
  BY <1>4, <1>5, InRange
<1>8. ASSUME NEW m \in n + 1 .. n + h PROVE \E op \in Range(f) : m \in op.writes
  <2>1. PICK i \in 1 .. h : m = n + i
    <3>1. m - n \in 1 .. h /\ m = n + (m - n)
      OBVIOUS
    <3>2. QED BY <3>1
  <2>2. f[i] \in Range(f)
    BY <1>5, InRange
  <2>3. QED BY <1>4, <2>1, <2>2
<1>9. QED BY <1>1, <1>6, <1>7, <1>8

LEMMA CodeEmitChain == ScanInv /\ CodeInv /\ EmitChain => CodeInv'
<1> SUFFICES ASSUME ScanInv, CodeInv, EmitChain PROVE CodeInv'
  OBVIOUS
<1>1. prog' = prog /\ phase' = phase /\ pc' = pc /\ phase = "emit" /\ memMap' = memMap
  BY DEF EmitChain
<1>2. PICK c \in plan : /\ memrefs' = memrefs \o StageMemrefs(c[1], c[2])
                        /\ code' = Staged(c[1], c[2])
  BY DEF EmitChain
<1>3. PICK b \in Bufs(prog), t \in ExecTimes : b = c[1] /\ t = c[2] /\ HomeOf(prog, b) > 0
  <2>1. c[1] \in Bufs(prog) /\ HomeOf(prog, c[1]) > 0 /\ c[2] \in UsesOf(prog, c[1])
    BY DEF ScanInv, Chains
  <2>2. c[2] \in ExecTimes
    BY <2>1 DEF UsesOf, ExecTimes
  <2>3. QED BY <2>1, <2>2
<1>4. PICK h \in Nat : h = HomeOf(prog, b) /\ h > 0
  BY <1>3, HomeTyped DEF ScanInv
<1>5. PICK n \in Nat : n = Len(memrefs)
  BY DEF ScanInv, MemrefsTyped
<1>6. Len(memrefs') = n + h
  <2>1. PICK added \in Seq(MemrefType) : added = StageMemrefs(b, t) /\ Len(added) = h
    BY <1>4, StageMemrefsTyped
  <2>2. memrefs' = memrefs \o added
    BY <1>2, <1>3, <2>1
  <2>3. QED BY <1>1, <1>5, <2>1, <2>2, MemrefsAdded
<1>7. CodeOk(code, n)
  BY <1>5 DEF CodeInv
<1>8. PICK s \in Seq(CodeType) : s = code
  BY <1>7 DEF CodeOk
<1>9. PICK cs \in Seq(CodeType) :
        /\ cs = StageCopies(b, t, n)
        /\ \A op \in Range(cs) : op.kind = "copy" /\ op.time = 0 /\ Touched(op) \subseteq 1 .. n + h
        /\ \A m \in n + 1 .. n + h : \E op \in Range(cs) : m \in op.writes
  <2>1. b <= n
    <3>1. b \in 1 .. Len(prog.size) /\ Len(prog.size) \in Nat
      BY <1>3, FunctionTyped DEF ScanInv
    <3>2. Len(prog.size) <= n
      BY <1>5 DEF ScanInv, MemrefsTyped
    <3>3. QED BY <3>1, <3>2
  <2>2. t \in Nat
    BY <1>3, FunctionTyped DEF ScanInv, ExecTimes
  <2>3. QED BY <1>4, <2>1, <2>2, StageCopiesTyped DEF ScanInv
<1>10. PICK p \in 1 .. Len(s) + 1 : p = TimePos(code, t)
  <2>1. TimePos(code, t) \in 1 .. Len(s)
    BY <1>7, <1>8, PositionOfTime DEF ExecTimes
  <2>2. Len(s) \in Nat
    OBVIOUS
  <2>3. QED BY <2>1, <2>2
<1>11. PICK d \in Seq(CodeType) : d = WithStages(b, t) /\ Range(d) = Range(s) \cup Range(cs)
  <2>1. Spliced(s, cs, p) \in Seq(CodeType) /\ Range(Spliced(s, cs, p)) = Range(s) \cup Range(cs)
    BY Splice
  <2>2. WithStages(b, t) = Spliced(s, cs, p)
    BY <1>5, <1>8, <1>9, <1>10 DEF WithStages, Spliced
  <2>3. QED BY <2>1, <2>2
<1>12. CodeOk(d, n + h)
  <2>1. PICK N : N = Range(cs)
    OBVIOUS
  <2>2. PICK l \in Nat : l = n + h /\ n <= l
    BY <1>4
  <2>3. /\ \A op \in N : op.kind = "copy" /\ op.time = 0 /\ Touched(op) \subseteq 1 .. l
        /\ \A m \in n + 1 .. l : \E op \in N : m \in op.writes
        /\ Range(d) = Range(code) \cup N
    BY <1>8, <1>9, <1>11, <2>1, <2>2
  <2>4. PICK x : x = code
    OBVIOUS
  <2>5. CodeOk(d, l)
    <3>1. CodeOk(x, n) /\ Range(d) = Range(x) \cup N
      BY <1>7, <2>3, <2>4
    <3>2. QED BY ONLY n \in Nat, l \in Nat, d \in Seq(CodeType), <2>2, <2>3, <3>1, CodeExtends
  <2>6. QED BY <2>2, <2>5
<1>13. CodeOk(Replaced(d, {t}, b, n + h), n + h)
  <2>1. n + h \in Nat /\ n + h \in 1 .. n + h /\ {t} \in SUBSET ExecTimes
    BY <1>4
  <2>2. QED BY <1>12, <2>1, CodeReplaces DEF ScanInv
<1>14. code' = Replaced(d, {t}, b, n + h)
  BY <1>2, <1>3, <1>4, <1>5, <1>11 DEF Staged
<1>15. CodeOk(code, Len(memrefs))'
  BY <1>1, <1>6, <1>13, <1>14, CodeOkStays
<1>16. pc' = 1 /\ 1 \in 1 .. Len(code') + 1
  <2>1. Len(code') \in Nat
    BY <1>13, <1>14 DEF CodeOk
  <2>2. QED BY <1>1, <2>1 DEF CodeInv
<1>17. QED BY <1>15, <1>16 DEF CodeInv

(* A step that rewrites nothing.                                            *)
LEMMA CodeRest ==
  ScanInv /\ CodeInv
  /\ (StartTier \/ Take \/ Place \/ SpillOfNothing \/ GiveUp \/ Return \/ Scanned \/ Finish
        \/ Execute \/ UNCHANGED vars)
    => CodeInv'
<1> SUFFICES ASSUME ScanInv, CodeInv,
                    StartTier \/ Take \/ Place \/ SpillOfNothing \/ GiveUp \/ Return \/ Scanned
                      \/ Finish \/ Execute \/ UNCHANGED vars
             PROVE  CodeInv'
  OBVIOUS
<1>1. prog' = prog /\ code' = code
  BY DEF StartTier, Take, Place, SpillOfNothing, GiveUp, Return, Scanned, Finish, Execute, vars,
         outState
<1>2. Len(memrefs') = Len(memrefs)
  <2>1. CASE Place
    <3>1. PICK o \in Room : memrefs' = Annotated(Tier, o)
      BY <2>1 DEF Place
    <3>2. stack # << >> /\ Tier \in Nat /\ o \in Int
      BY <2>1, TopTyped DEF Place, Placing, Calling, Room, Offsets
    <3>3. QED BY <3>1, <3>2, AnnotatedTyped
  <2>2. CASE ~ Place
    BY <2>2 DEF StartTier, Take, SpillOfNothing, GiveUp, Return, Scanned, Finish, Execute, vars,
                outState
  <2>3. QED BY <2>1, <2>2
<1>3. CodeOk(code, Len(memrefs))'
  <2>1. CodeOk(code, Len(memrefs))
    BY DEF CodeInv
  <2>2. QED BY <1>1, <1>2, <2>1, CodeOkStays
<1>4. Len(code) \in Nat
  BY DEF CodeInv, CodeOk
<1>5. pc' \in 1 .. Len(code) + 1 /\ (phase' # "run" => pc' = 1)
  <2>1. CASE Execute
    <3>1. phase = "run" /\ phase' = phase /\ pc \in DOMAIN code /\ pc' = pc + 1
      BY <2>1 DEF Execute
    <3>2. DOMAIN code = 1 .. Len(code)
      BY DEF CodeInv, CodeOk
    <3>3. QED BY <1>4, <3>1, <3>2
  <2>2. CASE ~ Execute
    <3>1. pc' = pc /\ (phase' # "run" => phase # "run")
      BY <2>2 DEF StartTier, Take, Place, SpillOfNothing, GiveUp, Return, Scanned, Finish, vars,
                  Placing, Idle, Calling
    <3>2. QED BY <3>1 DEF CodeInv
  <2>3. QED BY <2>1, <2>2
<1>6. QED BY <1>1, <1>3, <1>5 DEF CodeInv

(* The pass keeps its intervals, calls, memrefs and code well formed: what  *)
(* an operation names exists, and an interval's uses lie inside its         *)
(* lifetime, however often it was cut and brought back.                     *)
THEOREM StagingTypeCorrect == Spec => []TypeOK
<1>1. Init => CodeInv
  BY CodeInit
<1>2. ScanInv /\ CodeInv /\ [Next]_vars => CodeInv'
  BY CodeSpill, CodeEmitChain, CodeRest DEF Next
<1>3. ScanInv /\ CodeInv => TypeOK
  <2> SUFFICES ASSUME ScanInv, CodeInv PROVE TypeOK
    OBVIOUS
  <2>1. WellFormed(prog)
    BY ProgramsAssumption DEF ScanInv
  <2>2. /\ phase \in {"alloc", "emit", "run", "failed", "crashed"} /\ level \in -1 .. Bottom
        /\ \A k \in Tiers : handled[k] \subseteq DOMAIN placed[k]
    BY DEF ScanInv, QueuesTyped
  <2>3. \A iv : Sound(iv) =>
          /\ iv.id.buf \in Bufs(prog) /\ iv.size = prog.size[iv.id.buf]
          /\ iv.mem \in 0 .. Len(memrefs)
          /\ iv.uses \subseteq {u \in Times(prog) : iv.start <= u /\ u < iv.end}
    BY DEF Sound, ExecTimes
  <2>4. \A k \in Tiers : \A iv \in Range(unhandled[k]) \cup Range(placed[k]) :
          /\ iv.id.buf \in Bufs(prog) /\ iv.size = prog.size[iv.id.buf]
          /\ iv.mem \in 0 .. Len(memrefs)
          /\ iv.uses \subseteq {u \in Times(prog) : iv.start <= u /\ u < iv.end}
    BY <2>3 DEF ScanInv, QueuesTyped
  <2>5. ASSUME NEW i \in DOMAIN stack
        PROVE  /\ stack[i].tier \in Tiers
               /\ i > 1 => stack[i].tier = stack[i - 1].tier + 1
               /\ i < Len(stack) => stack[i].cur # NoInterval
    <3>1. PICK n \in Nat : n = Len(stack) /\ DOMAIN stack = 1 .. n
      BY DEF ScanInv, StackTyped
    <3>2. i \in 1 .. n /\ 1 \in 1 .. n /\ stack[1].tier \in Int
      <4>1. i \in 1 .. n /\ 1 \in 1 .. n
        BY <3>1
      <4>2. QED BY <3>1, <4>1, TargetTyped DEF ScanInv, StackTyped
    <3>3. stack[i].tier \in Tiers /\ (i < n => stack[i].cur # NoInterval)
          /\ stack[i].tier = stack[1].tier + (i - 1)
      BY <3>1, <3>2 DEF ScanInv, StackTyped
    <3>4. CASE i > 1
      <4>1. i - 1 \in 1 .. n
        BY <3>2, <3>4
      <4>2. stack[i - 1].tier = stack[1].tier + ((i - 1) - 1)
        BY <3>1, <4>1 DEF ScanInv, StackTyped
      <4>3. QED BY <3>1, <3>2, <3>3, <4>2
    <3>5. QED BY <3>1, <3>3, <3>4
  <2>6. \A m \in DOMAIN memrefs : memrefs[m].buf \in Bufs(prog)
    <3>1. \A m \in DOMAIN memrefs : memrefs[m] \in MemrefType
      BY DEF ScanInv, MemrefsTyped
    <3>2. QED BY <3>1 DEF MemrefType
  <2>7. \A i \in DOMAIN code : Touched(code[i]) \subseteq DOMAIN memrefs
    <3>1. \A i \in DOMAIN code : code[i] \in Range(code)
      BY InRange
    <3>2. DOMAIN memrefs = 1 .. Len(memrefs)
      BY DEF ScanInv, MemrefsTyped
    <3>3. QED BY <3>1, <3>2 DEF CodeInv, CodeOk
  <2>8. pc \in 1 .. Len(code) + 1
    BY DEF CodeInv
  <2>9. QED BY <2>1, <2>2, <2>4, <2>5, <2>6, <2>7, <2>8 DEF TypeOK
<1>4. QED BY <1>1, <1>2, <1>3, ScanWellFormed, PTL DEF Spec

-----------------------------------------------------------------------------
(* While everything fits in tier 0 the scan is a walk over the buffers.     *)

(* The interval of a whole buffer. *)
Whole(iv) ==
  /\ iv.mem \in Bufs(prog) /\ iv.size = 1
  /\ iv.start = DefTime(prog, iv.mem) /\ iv.end = EndOf(prog, iv.mem)

(* Tier 0 takes and places its intervals in order of start, no two at once. *)
InLine ==
  LET q == unhandled[0]
      d == placed[0]
  IN /\ \A i, j \in DOMAIN q : i < j => q[i].start < q[j].start
     /\ \A i, j \in DOMAIN d : i < j => d[i].start < d[j].start
     /\ \A i \in DOMAIN d, j \in DOMAIN q : d[i].start < q[j].start
     /\ stack # << >> /\ Cur # NoInterval =>
          /\ \A i \in DOMAIN d : d[i].start < Cur.start
          /\ \A j \in DOMAIN q : Cur.start < q[j].start

FitInv ==
  /\ plan = {} /\ errors = {} /\ Len(memrefs) = Len(prog.size)
  /\ \A k \in Tiers : \A iv \in Range(unhandled[k]) \cup Range(placed[k]) : k = 0 /\ Whole(iv)
  /\ stack # << >> => Len(stack) = 1 /\ (Cur # NoInterval => Tier = 0 /\ Whole(Cur))
  /\ InLine

(* The last operation that touches a buffer ends it. *)
LEMMA EndsAtUse ==
  ASSUME NEW p \in Programs, NEW b \in Bufs(p)
  PROVE  \E u \in Times(p) : b \in Touched(p.ops[u]) /\ EndOf(p, b) = u + 1
<1>1. PICK S : S = {t \in Times(p) : b \in Touched(p.ops[t])}
  OBVIOUS
<1>2. PICK n \in Nat : n = Len(p.ops) /\ Times(p) = 1 .. n
  BY FunctionTyped
<1>3. S \in SUBSET (1 .. n) /\ S # {}
  BY <1>1, <1>2, DefinedFirst DEF Touched
<1>4. Max(S) \in S
  BY <1>3, MaxIsGreatest
<1>5. PICK m \in 1 .. n : m = Max(S) /\ EndOf(p, b) = 1 + m
  BY <1>1, <1>3, <1>4 DEF EndOf
<1>6. m \in Times(p) /\ b \in Touched(p.ops[m]) /\ 1 + m = m + 1
  BY <1>1, <1>2, <1>4, <1>5
<1>7. QED BY <1>5, <1>6

(* No two buffers are defined at once. *)
LEMMA DefinedApart ==
  ASSUME NEW p \in Programs, NEW b \in Bufs(p), NEW c \in Bufs(p), b # c
  PROVE  DefTime(p, b) # DefTime(p, c)
<1>1. p.ops[DefTime(p, b)].writes = {b} /\ p.ops[DefTime(p, c)].writes = {c}
  BY DefinedFirst
<1>2. QED BY <1>1

(* A function has no more values than arguments. *)
LEMMA RangeNoLarger ==
  ASSUME NEW D, IsFiniteSet(D), NEW f, DOMAIN f = D, f \in [D -> Range(f)]
  PROVE  IsFiniteSet(Range(f)) /\ Cardinality(Range(f)) <= Cardinality(D)
<1>1. PICK T : T = Range(f)
  OBVIOUS
<1>2. f \in Surjection(D, T)
  BY <1>1, InRange DEF Surjection
<1>3. QED BY <1>1, <1>2, FS_Surjection

(* A buffer that has a life at t, with the guard, is one that is held. *)
LEMMA WholeIsHeld ==
  ASSUME prog \in Programs, NEW iv, Whole(iv), NEW t \in Times(prog), iv.start <= t,
         t < iv.end + prog.guard
  PROVE  iv.mem \in Held(t)
<1>1. PICK u \in Times(prog) : iv.mem \in Touched(prog.ops[u]) /\ iv.end = u + 1
  BY EndsAtUse DEF Whole
<1>2. u \in Nat /\ t \in Nat /\ prog.guard \in Nat
  BY FunctionTyped
<1>3. t <= u + prog.guard
  BY <1>1, <1>2
<1>4. QED BY <1>1, <1>3 DEF Held, Whole

(* What is placed when another buffer comes is too little to fill the tier. *)
LEMMA FitsHere ==
  ASSUME ScanInv, AllFit, FitInv, Placing
  PROVE  SureRoom # {}
<1>1. stack # << >> /\ Cur # NoInterval
  BY DEF Placing, Calling
<1>2. PICK c \in IntervalType : c = Cur /\ Whole(c)
  BY <1>1, TopTyped DEF FitInv
<1>3. Tier = 0 /\ 0 \in Tiers
  BY <1>1, TopTyped DEF FitInv
<1>4. prog \in Programs /\ prog.guard \in Nat /\ prog.caps[0] \in Nat
  <2>1. prog \in Programs /\ Bottom \in Nat /\ Tiers = 0 .. Bottom
    BY TargetTyped DEF ScanInv
  <2>2. prog.caps \in [Tiers -> Nat]
    BY <2>1, ProgramsAssumption DEF WellFormed, Tiers, Bottom
  <2>3. QED BY <1>3, <2>1, <2>2, FunctionTyped
<1>5. PICK d \in Seq(IntervalType) : d = placed[0]
  BY <1>1, <1>3, TopTyped
<1>6. PICK t \in Times(prog) : t = c.start /\ t \in Nat
  BY <1>2, <1>4, DefinedFirst, FunctionTyped DEF Whole
<1>7. PICK H : H = Held(t) \ {c.mem}
  OBVIOUS
<1>8. IsFiniteSet(H) /\ Cardinality(H) + 1 <= prog.caps[0] /\ Cardinality(H) \in Nat
  <2>1. Held(t) \subseteq 1 .. Len(prog.size) /\ Len(prog.size) \in Nat
    BY <1>4, FunctionTyped DEF Held
  <2>2. IsFiniteSet(1 .. Len(prog.size))
    BY <2>1, FS_Interval
  <2>3. IsFiniteSet(Held(t))
    BY <2>1, <2>2, FS_Subset
  <2>4. t < c.end + prog.guard
    <3>1. DefTime(prog, c.mem) < EndOf(prog, c.mem) /\ EndOf(prog, c.mem) \in Nat
      BY <1>2, <1>4, DefinedFirst, EndsLast DEF Whole, Touched
    <3>2. QED BY <1>2, <1>4, <1>6, <3>1 DEF Whole
  <2>5. c.mem \in Held(t)
    BY <1>2, <1>4, <1>6, <2>4, WholeIsHeld
  <2>6. IsFiniteSet(H) /\ Cardinality(H) = Cardinality(Held(t)) - 1
    BY <1>7, <2>3, <2>5, FS_RemoveElement
  <2>7. Cardinality(Held(t)) <= prog.caps[0]
    BY DEF AllFit
  <2>8. Cardinality(H) \in Nat /\ Cardinality(Held(t)) \in Nat
    BY <2>3, <2>6, FS_CardinalityType
  <2>9. QED BY <1>4, <2>6, <2>7, <2>8
<1>9. ASSUME NEW j \in DOMAIN d
      PROVE  /\ Whole(d[j]) /\ d[j] \in IntervalType /\ d[j].start < t /\ ~ Empty(d[j])
             /\ Meets(d[j], c) => d[j].mem \in H
  <2>1. d[j] \in Range(d) /\ d[j] \in IntervalType
    BY InRange
  <2>2. Whole(d[j])
    BY <1>3, <1>5, <2>1 DEF FitInv
  <2>3. d[j].start < t
    BY <1>1, <1>2, <1>5, <1>6 DEF FitInv, InLine
  <2>4. d[j].start < d[j].end /\ d[j].start \in Nat /\ d[j].end \in Nat
    BY <1>4, <2>2, DefinedFirst, EndsLast, FunctionTyped DEF Whole, Touched
  <2>5. ~ Empty(d[j])
    BY <1>4, <2>4 DEF Empty
  <2>6. ASSUME Meets(d[j], c) PROVE d[j].mem \in H
    <3>1. t < d[j].end + prog.guard
      BY <1>6, <2>6 DEF Meets
    <3>2. d[j].start <= t
      BY <1>6, <2>3, <2>4
    <3>3. d[j].mem \in Held(t)
      BY <1>4, <2>2, <3>1, <3>2, WholeIsHeld
    <3>4. d[j].mem # c.mem
      <4>1. d[j].start # t
        BY <1>6, <2>3, <2>4
      <4>2. QED BY <1>2, <1>6, <2>2, <4>1 DEF Whole
    <3>5. QED BY <1>7, <3>3, <3>4
  <2>7. QED BY <2>1, <2>2, <2>3, <2>5, <2>6
<1>10. ASSUME NEW i \in DOMAIN d, NEW j \in DOMAIN d, d[i].mem = d[j].mem
       PROVE  i = j
  <2>1. d[i].start = d[j].start /\ d[i].start \in Int
    BY <1>9, <1>10 DEF Whole, IntervalType
  <2>2. i \in Nat /\ j \in Nat
    BY <1>5
  <2>3. ~ (i < j) /\ ~ (j < i)
    BY <1>5, <2>1 DEF FitInv, InLine
  <2>4. QED BY <2>2, <2>3
<1>11. PICK f : f = [b \in H |-> d[CHOOSE j \in DOMAIN d : d[j].mem = b].offset]
  OBVIOUS
<1>12. IsFiniteSet(Range(f)) /\ Cardinality(Range(f)) <= Cardinality(H)
  <2>1. DOMAIN f = H /\ f \in [H -> Range(f)]
    BY <1>11, InRange
  <2>2. QED BY <1>8, <2>1, RangeNoLarger
<1>13. PICK o \in 0 .. prog.caps[0] - 1 : o \notin Range(f)
  <2>1. Cardinality(0 .. prog.caps[0] - 1) = prog.caps[0]
    <3>1. PICK n \in Nat : n = prog.caps[0] /\ 1 <= n
      BY <1>4, <1>8
    <3>2. n - 1 \in Int /\ ~ (0 > n - 1) /\ (n - 1) - 0 + 1 = n
      BY <3>1
    <3>3. Cardinality(0 .. n - 1) = n
      BY <3>2, FS_Interval
    <3>4. QED BY <3>1, <3>3
  <2>2. Cardinality(Range(f)) \in Nat
    BY <1>12, FS_CardinalityType
  <2>3. ~ (0 .. prog.caps[0] - 1 \subseteq Range(f))
    <3>1. CASE 0 .. prog.caps[0] - 1 \subseteq Range(f)
      <4>1. Cardinality(0 .. prog.caps[0] - 1) <= Cardinality(Range(f))
        BY <1>12, <3>1, FS_Subset
      <4>2. QED BY <1>4, <1>8, <1>12, <2>1, <2>2, <4>1
    <3>2. QED BY <3>1
  <2>4. QED BY <2>3
<1>14. o \in Offsets(Cur)
  <2>1. c.size = 1 /\ prog.align = 1 /\ o \in Int
    BY <1>2 DEF Whole, AllFit
  <2>2. o % 1 = 0
    BY <2>1
  <2>3. QED BY <1>2, <1>3, <1>13, <2>1, <2>2 DEF Offsets
<1>15. ASSUME NEW a \in Residents(Tier)
       PROVE  ~ Empty(a) /\ (Meets(a, Cur) => Apart(a, Cur, o))
  <2>1. PICK j \in DOMAIN d : d[j] = a
    BY <1>3, <1>5, <1>15 DEF Residents, Active
  <2>2. ~ Empty(a) /\ a.size = 1 /\ a.offset \in Int
    BY <1>9, <2>1 DEF Whole, IntervalType
  <2>3. ASSUME Meets(a, c) PROVE Apart(a, c, o)
    <3>1. a.mem \in H
      BY <1>9, <2>1, <2>3
    <3>2. (CHOOSE i \in DOMAIN d : d[i].mem = a.mem) = j
      BY <1>10, <2>1
    <3>3. f[a.mem] = a.offset /\ a.mem \in DOMAIN f
      BY <1>11, <2>1, <3>1, <3>2
    <3>4. a.offset # o
      BY <1>13, <3>3, InRange
    <3>5. c.size = 1 /\ o \in Int
      BY <1>2 DEF Whole
    <3>6. QED BY <2>2, <3>4, <3>5 DEF Apart
  <2>4. QED BY <1>2, <2>2, <2>3
<1>16. o \in SureRoom
  <2>1. o \in Room
    BY <1>14, <1>15 DEF Room
  <2>2. QED BY <1>15, <2>1 DEF SureRoom
<1>17. QED BY <1>16

(* Buffers that all live in tier 0 are queued there in order of definition, *)
(* and nothing else is.                                                     *)
LEMMA HomeAtFirst ==
  ASSUME Init, \A b \in Bufs(prog) : HomeOf(prog, b) = 0
  PROVE  /\ plan = {} /\ 0 \in Tiers
         /\ \A k \in Tiers : unhandled[k] \in Seq(IntervalType)
         /\ \A k \in Tiers : \A iv \in Range(unhandled[k]) :
              k = 0 /\ \E b \in Bufs(prog) : iv = BufInterval(prog, b)
         /\ \A i, j \in DOMAIN unhandled[0] : i < j => unhandled[0][i].start < unhandled[0][j].start
<1>1. /\ prog \in Programs /\ plan = Chains(prog) /\ unhandled \in FirstQueues(prog)
  BY DEF Init
<1>2. plan = {}
  BY <1>1 DEF Chains
<1>3. Intervals(prog) = {BufInterval(prog, b) : b \in Bufs(prog)}
  <2>1. ASSUME NEW b \in Bufs(prog)
        PROVE {Stage(prog, b, t, k) : t \in UsesOf(prog, b), k \in 0 .. HomeOf(prog, b) - 1} = {}
    <3>1. \A k \in 0 .. HomeOf(prog, b) - 1 : FALSE
      OBVIOUS
    <3>2. QED BY <3>1
  <2>2. QED BY <2>1 DEF Intervals
<1>4. \A iv \in Intervals(prog) : EntryTier(prog, iv) = 0
  <2>1. Cardinality(DOMAIN prog.caps) - 1 \in Nat
    BY <1>1, TargetTyped DEF Bottom, Tiers
  <2>2. \A iv \in Intervals(prog) : iv.home = 0
    BY <1>3 DEF BufInterval
  <2>3. QED BY <2>1, <2>2 DEF EntryTier
<1>5. /\ unhandled \in [Tiers -> Seq(IntervalType)]
      /\ \A k \in Tiers : Range(unhandled[k]) \subseteq Intervals(prog)
      /\ \A k \in Tiers : unhandled[k] \in Queues({iv \in Intervals(prog) : EntryTier(prog, iv) = k})
  BY <1>1, QueuesTypedAtFirst DEF Tiers, FirstQueues
<1>6. ASSUME NEW k \in Tiers, NEW iv \in Range(unhandled[k])
      PROVE  k = 0 /\ \E b \in Bufs(prog) : iv = BufInterval(prog, b)
  <2>1. PICK S : S = {x \in Intervals(prog) : EntryTier(prog, x) = k}
    OBVIOUS
  <2>2. unhandled[k] \in [1 .. Cardinality(S) -> S]
    BY <1>5, <2>1 DEF Queues
  <2>3. iv \in S
    <3>1. PICK h : h = unhandled[k]
      OBVIOUS
    <3>2. PICK i \in DOMAIN h : h[i] = iv
      BY <3>1, InRange
    <3>3. QED BY <2>2, <3>1, <3>2
  <2>4. QED BY <1>3, <1>4, <2>1, <2>3
<1>7. 0 \in Tiers
  BY <1>1, TargetTyped
<1>8. ASSUME NEW i \in DOMAIN unhandled[0], NEW j \in DOMAIN unhandled[0], i < j
      PROVE  unhandled[0][i].start < unhandled[0][j].start
  <2>1. PICK q \in Seq(IntervalType) : q = unhandled[0]
    BY <1>5, <1>7
  <2>2. q[i] # q[j] /\ q[i].start <= q[j].start
    BY <1>5, <1>7, <1>8, <2>1 DEF Queues
  <2>3. PICK b \in Bufs(prog) : q[i] = BufInterval(prog, b)
    BY <1>3, <1>5, <1>7, <2>1, InRange
  <2>4. PICK e \in Bufs(prog) : q[j] = BufInterval(prog, e)
    BY <1>3, <1>5, <1>7, <2>1, InRange
  <2>5. DefTime(prog, b) # DefTime(prog, e) /\ DefTime(prog, b) \in Nat /\ DefTime(prog, e) \in Nat
    BY <1>1, <2>2, <2>3, <2>4, DefinedApart, DefinedFirst, FunctionTyped
  <2>6. q[i].start = DefTime(prog, b) /\ q[j].start = DefTime(prog, e)
    BY <2>3, <2>4 DEF BufInterval
  <2>7. QED BY <2>1, <2>2, <2>5, <2>6
<1>9. QED BY <1>2, <1>5, <1>6, <1>7, <1>8

(* Nothing is placed yet, and everything is whole.                          *)
LEMMA FitInit == Init /\ AllFit => FitInv
<1> SUFFICES ASSUME Init, AllFit PROVE FitInv
  OBVIOUS
<1>1. /\ prog \in Programs /\ stack = << >> /\ errors = {} /\ placed = [k \in Tiers |-> << >>]
      /\ memrefs = [b \in Bufs(prog) |-> Unplaced(b)]
  BY DEF Init
<1>2. \A b \in Bufs(prog) : prog.size[b] = 1 /\ HomeOf(prog, b) = 0
  BY DEF AllFit
<1>3. /\ plan = {} /\ 0 \in Tiers
      /\ \A k \in Tiers : \A iv \in Range(unhandled[k]) :
           k = 0 /\ \E b \in Bufs(prog) : iv = BufInterval(prog, b)
      /\ \A i, j \in DOMAIN unhandled[0] : i < j => unhandled[0][i].start < unhandled[0][j].start
  BY <1>2, HomeAtFirst
<1>4. Len(memrefs) = Len(prog.size)
  <2>1. Len(prog.size) \in Nat /\ Bufs(prog) = 1 .. Len(prog.size)
    BY <1>1, FunctionTyped
  <2>2. QED BY <1>1, <2>1
<1>5. \A b \in Bufs(prog) : Whole(BufInterval(prog, b))
  BY <1>2 DEF Whole, BufInterval
<1>6. \A k \in Tiers : DOMAIN placed[k] = {} /\ Range(placed[k]) = {}
  BY <1>1 DEF Range
<1>7. InLine
  BY <1>1, <1>3, <1>6 DEF InLine
<1>8. ASSUME NEW k \in Tiers, NEW iv \in Range(unhandled[k]) \cup Range(placed[k])
      PROVE  k = 0 /\ Whole(iv)
  BY <1>3, <1>5, <1>6
<1>9. QED BY <1>1, <1>3, <1>4, <1>7, <1>8 DEF FitInv

(* A step that leaves the queues, the places and what is being placed.      *)
LEMMA FitStays ==
  ASSUME ScanInv, FitInv, prog' = prog, plan' = plan, errors' = errors, memrefs' = memrefs,
         unhandled' = unhandled, placed' = placed,
         stack' # << >> => Len(stack') = 1 /\ (Cur' # NoInterval => stack # << >> /\ Tier' = Tier /\ Cur' = Cur)
  PROVE  FitInv'
<1>1. Tiers' = Tiers /\ \A iv : Whole(iv)' = Whole(iv)
  BY DEF Tiers, Whole
<1>2. InLine'
  BY DEF FitInv, InLine
<1>3. stack' # << >> => Len(stack') = 1 /\ (Cur' # NoInterval => Tier' = 0 /\ Whole(Cur)')
  BY DEF FitInv, Whole
<1>4. QED BY <1>1, <1>2, <1>3 DEF FitInv

LEMMA FitTake == ScanInv /\ FitInv /\ Take => FitInv'
<1> SUFFICES ASSUME ScanInv, FitInv, Take PROVE FitInv'
  OBVIOUS
<1>1. /\ prog' = prog /\ plan' = plan /\ placed' = placed /\ errors' = errors
      /\ memrefs' = memrefs /\ stack # << >> /\ Cur = NoInterval /\ unhandled[Tier] # << >>
      /\ unhandled' = [unhandled EXCEPT ![Tier] = Tail(@)]
  BY DEF Take, outState, Idle, Calling
<1>2. PICK iv : /\ iv = Head(unhandled[Tier])
                /\ stack' = IF iv.start >= iv.end THEN stack
                            ELSE SetTop([Top EXCEPT !.cur = iv, !.excluded = {}])
  BY DEF Take
<1>3. PICK q \in Seq(IntervalType) : q = unhandled[Tier] /\ q # << >> /\ Tier \in Tiers
  BY <1>1, TopTyped
<1>4. iv \in Range(q) /\ iv = q[1] /\ iv \in IntervalType
  BY <1>2, <1>3, TailElements
<1>5. Tier = 0 /\ Whole(iv)
  BY <1>3, <1>4 DEF FitInv
<1>6. PICK r \in Seq(IntervalType) :
        /\ r = Tail(q) /\ unhandled'[0] = r /\ \A j \in DOMAIN r : j + 1 \in DOMAIN q /\ r[j] = q[j + 1]
        /\ \A j \in DOMAIN r : j \in Nat /\ j > 0 /\ j + 1 > 1
  <2>1. Tail(q) \in Seq(IntervalType) /\ \A j \in DOMAIN Tail(q) : j + 1 \in DOMAIN q /\ Tail(q)[j] = q[j + 1]
    BY <1>3
  <2>2. \A j \in DOMAIN Tail(q) : j \in Nat /\ j > 0 /\ j + 1 > 1
    BY <2>1
  <2>3. unhandled'[0] = Tail(q)
    BY <1>1, <1>3, <1>5 DEF ScanInv, QueuesTyped
  <2>4. QED BY <2>1, <2>2, <2>3
<1>7. \A k \in Tiers : Range(unhandled'[k]) \subseteq Range(unhandled[k])
  BY <1>1, <1>3, TailElements DEF ScanInv, QueuesTyped
<1>8. Tiers' = Tiers /\ \A x : Whole(x)' = Whole(x)
  BY <1>1 DEF Tiers, Whole
<1>9. stack' # << >> => /\ Len(stack') = 1
                        /\ Cur' # NoInterval => Tier' = 0 /\ Cur' = iv
  <2>1. Len(stack) = 1 /\ stack \in Seq(FrameType) /\ Top \in FrameType /\ Top = stack[1]
    BY <1>1, TopTyped DEF FitInv, ScanInv, StackTyped
  <2>2. CASE stack' = stack
    BY <1>1, <1>5, <2>1, <2>2 DEF Cur, Top, Tier
  <2>3. CASE stack' = SetTop([Top EXCEPT !.cur = iv, !.excluded = {}])
    <3>1. PICK t \in FrameType : t = Top
      BY <2>1
    <3>2. PICK f : f = [t EXCEPT !.cur = iv, !.excluded = {}]
      OBVIOUS
    <3>3. f.cur = iv /\ f.tier = t.tier
      BY <3>2 DEF FrameType
    <3>4. stack' = [stack EXCEPT ![1] = f]
      BY <2>1, <2>3, <3>1, <3>2 DEF SetTop
    <3>5. Len(stack') = 1 /\ stack'[1] = f
      BY <2>1, <3>4
    <3>6. QED BY <1>5, <3>1, <3>3, <3>5 DEF Cur, Top, Tier
  <2>4. QED BY <1>2, <2>2, <2>3
<1>10. InLine'
  <2>1. PICK d : d = placed[0] /\ placed'[0] = d
    BY <1>1
  <2>2. unhandled[0] = q /\ 1 \in DOMAIN q
    BY <1>3, <1>5
  <2>3. \A i, j \in DOMAIN r : i < j => r[i].start < r[j].start
    <3>1. \A i, j \in DOMAIN r : i < j => i + 1 < j + 1
      BY <1>6
    <3>2. QED BY <1>6, <2>2, <3>1 DEF FitInv, InLine
  <2>4. \A i, j \in DOMAIN d : i < j => d[i].start < d[j].start
    BY <2>1 DEF FitInv, InLine
  <2>5. \A i \in DOMAIN d : d[i].start < iv.start /\ \A j \in DOMAIN r : d[i].start < r[j].start
    BY <1>4, <1>6, <2>1, <2>2 DEF FitInv, InLine
  <2>6. \A j \in DOMAIN r : iv.start < r[j].start
    BY <1>4, <1>6, <2>2 DEF FitInv, InLine
  <2>7. QED BY <1>6, <1>9, <2>1, <2>3, <2>4, <2>5, <2>6 DEF InLine
<1>11. QED BY <1>1, <1>5, <1>7, <1>8, <1>9, <1>10 DEF FitInv

LEMMA FitPlace == ScanInv /\ FitInv /\ Place => FitInv'
<1> SUFFICES ASSUME ScanInv, FitInv, Place PROVE FitInv'
  OBVIOUS
<1>1. /\ prog' = prog /\ plan' = plan /\ unhandled' = unhandled /\ errors' = errors
      /\ stack # << >> /\ Cur # NoInterval
      /\ stack' = SetTop([Top EXCEPT !.cur = NoInterval])
  BY DEF Place, Placing, Calling
<1>2. PICK o \in Room :
        /\ placed' = [placed EXCEPT ![Tier] = Append(@, [Cur EXCEPT !.offset = o])]
        /\ memrefs' = Annotated(Tier, o)
  BY DEF Place
<1>3. PICK x \in IntervalType : x = Cur /\ Whole(x) /\ Tier = 0 /\ 0 \in Tiers
  BY <1>1, TopTyped DEF FitInv
<1>4. PICK c \in IntervalType : c = [x EXCEPT !.offset = o] /\ Whole(c) /\ c.start = x.start
  <2>1. [x EXCEPT !.offset = o] \in IntervalType
    BY <1>1, <1>3, RoomIsTyped
  <2>2. QED BY <1>3, <2>1 DEF Whole, IntervalType
<1>5. Len(memrefs') = Len(memrefs)
  <2>1. Tier \in Nat
    BY <1>1, TopTyped
  <2>2. o \in Int
    BY DEF Room, Offsets
  <2>3. QED BY <1>2, <2>1, <2>2, AnnotatedTyped
<1>6. PICK d \in Seq(IntervalType) : d = placed[0]
  BY <1>1, <1>3, TopTyped
<1>7. /\ placed'[0] = Append(d, c) /\ \A k \in Tiers : k # 0 => placed'[k] = placed[k]
  BY <1>2, <1>3, <1>4, <1>6 DEF ScanInv, QueuesTyped
<1>8. \A k \in Tiers : Range(placed'[k]) \subseteq Range(placed[k]) \cup (IF k = 0 THEN {c} ELSE {})
  <2>1. Range(Append(d, c)) = Range(d) \cup {c}
    BY Appended
  <2>2. QED BY <1>6, <1>7, <2>1
<1>9. Tiers' = Tiers /\ \A y : Whole(y)' = Whole(y)
  BY <1>1 DEF Tiers, Whole
<1>10. Len(stack') = 1 /\ Cur' = NoInterval
  <2>1. Len(stack) = 1 /\ stack \in Seq(FrameType) /\ Top \in FrameType
    BY <1>1, TopTyped DEF FitInv, ScanInv, StackTyped
  <2>2. PICK t \in FrameType : t = Top
    BY <2>1
  <2>3. PICK f : f = [t EXCEPT !.cur = NoInterval]
    OBVIOUS
  <2>4. f.cur = NoInterval
    BY <2>3 DEF FrameType
  <2>5. stack' = [stack EXCEPT ![1] = f]
    BY <1>1, <2>1, <2>2, <2>3 DEF SetTop
  <2>6. QED BY <2>1, <2>4, <2>5 DEF Cur, Top
<1>11. InLine'
  <2>1. PICK e \in Seq(IntervalType) : e = Append(d, c) /\ placed'[0] = e
    BY <1>7, Appended
  <2>2. PICK n \in Nat : n = Len(d) /\ DOMAIN d = 1 .. n /\ DOMAIN e = 1 .. n + 1 /\ e[n + 1] = c
                         /\ \A i \in 1 .. n : e[i] = d[i]
    BY <2>1
  <2>3. \A i \in 1 .. n : d[i].start < c.start
    BY <1>1, <1>3, <1>4, <1>6, <2>2 DEF FitInv, InLine
  <2>4. \A i \in 1 .. n + 1 : i \in 1 .. n \/ i = n + 1
    OBVIOUS
  <2>5. ASSUME NEW i \in DOMAIN e, NEW j \in DOMAIN e, i < j PROVE e[i].start < e[j].start
    <3>1. i \in 1 .. n
      BY <2>2, <2>5
    <3>2. CASE j = n + 1
      BY <2>2, <2>3, <3>1, <3>2
    <3>3. CASE j \in 1 .. n
      BY <1>6, <2>2, <2>5, <3>1, <3>3 DEF FitInv, InLine
    <3>4. QED BY <2>2, <2>4, <3>2, <3>3
  <2>6. ASSUME NEW i \in DOMAIN e, NEW j \in DOMAIN unhandled[0] PROVE e[i].start < unhandled[0][j].start
    <3>1. CASE i = n + 1
      BY <1>1, <1>3, <1>4, <2>2, <3>1 DEF FitInv, InLine
    <3>2. CASE i \in 1 .. n
      BY <1>6, <2>2, <3>2 DEF FitInv, InLine
    <3>3. QED BY <2>2, <2>4, <3>1, <3>2
  <2>7. \A i, j \in DOMAIN unhandled[0] : i < j => unhandled[0][i].start < unhandled[0][j].start
    BY DEF FitInv, InLine
  <2>8. QED BY <1>1, <1>10, <2>1, <2>5, <2>6, <2>7 DEF InLine
<1>12. QED BY <1>1, <1>3, <1>4, <1>5, <1>8, <1>9, <1>10, <1>11 DEF FitInv

(* The call returns to allocate. *)
LEMMA FitReturn == ScanInv /\ FitInv /\ Return => FitInv'
<1> SUFFICES ASSUME ScanInv, FitInv, Return PROVE FitInv'
  OBVIOUS
<1>1. stack # << >> /\ Len(stack) = 1
  BY DEF Return, Idle, Calling, FitInv
<1>2. /\ prog' = prog /\ plan' = plan /\ errors' = errors /\ memrefs' = memrefs /\ placed' = placed
      /\ unhandled' = unhandled /\ stack' = << >>
  BY <1>1 DEF Return
<1>3. QED BY <1>2, FitStays

LEMMA FitStartTier == ScanInv /\ FitInv /\ StartTier => FitInv'
<1> SUFFICES ASSUME ScanInv, FitInv, StartTier PROVE FitInv'
  OBVIOUS
<1>1. /\ prog' = prog /\ plan' = plan /\ errors' = errors /\ memrefs' = memrefs /\ placed' = placed
      /\ unhandled' = unhandled /\ stack' = <<Frame(level)>>
  BY DEF StartTier, outState, tiersState
<1>2. Len(stack') = 1 /\ Cur' = NoInterval
  <2>1. PICK e : e = Frame(level)
    OBVIOUS
  <2>2. e.cur = NoInterval
    BY <2>1 DEF Frame
  <2>3. stack' = <<e>> /\ Len(<<e>>) = 1 /\ <<e>>[1] = e
    BY <1>1, <2>1
  <2>4. QED BY <2>2, <2>3 DEF Cur, Top
<1>3. QED BY <1>1, <1>2, FitStays

(* Nothing is evicted, nothing given up and no chain emitted. *)
LEMMA FitRest ==
  ScanInv /\ AllFit /\ FitInv
  /\ (Spill \/ SpillOfNothing \/ GiveUp \/ Scanned \/ EmitChain \/ Finish \/ Execute \/ UNCHANGED vars)
    => FitInv'
<1> SUFFICES ASSUME ScanInv, AllFit, FitInv,
                    Spill \/ SpillOfNothing \/ GiveUp \/ Scanned \/ EmitChain \/ Finish \/ Execute
                      \/ UNCHANGED vars
             PROVE  FitInv'
  OBVIOUS
<1>1. ~ (Spill \/ SpillOfNothing \/ GiveUp)
  BY FitsHere DEF Spill, SpillOfNothing, GiveUp, CanSpill
<1>2. ~ EmitChain
  BY DEF EmitChain, FitInv
<1>3. /\ prog' = prog /\ plan' = plan /\ errors' = errors /\ memrefs' = memrefs
      /\ placed' = placed /\ unhandled' = unhandled /\ stack' = stack
  BY <1>1, <1>2 DEF Scanned, Finish, Execute, vars, outState, tiersState
<1>4. stack # << >> => Len(stack) = 1 /\ Cur' = Cur /\ Tier' = Tier
  BY <1>3 DEF FitInv, Cur, Top, Tier
<1>5. QED BY <1>3, <1>4, FitStays

(* Unit buffers that fit in tier 0 together are placed without a copy, in   *)
(* every function, whichever free offsets the solver gives.                 *)
THEOREM NothingSpillsNeedlessly == Spec => []NoNeedlessSpills
<1>1. Init => (AllFit => FitInv)
  BY FitInit
<1>2. ScanInv /\ (AllFit => FitInv) /\ [Next]_vars => (AllFit => FitInv)'
  <2> SUFFICES ASSUME ScanInv, AllFit => FitInv, [Next]_vars, AllFit' PROVE FitInv'
    OBVIOUS
  <2>1. prog' = prog
    BY DEF Next, vars, StartTier, Take, Place, Spill, SpillOfNothing, GiveUp, Return, Scanned,
           EmitChain, Finish, Execute
  <2>2. AllFit
    BY <2>1 DEF AllFit, Held
  <2>3. QED BY <2>2, FitTake, FitPlace, FitReturn, FitStartTier, FitRest DEF Next
<1>3. ScanInv /\ (AllFit => FitInv) => NoNeedlessSpills
  <2> SUFFICES ASSUME ScanInv, FitInv PROVE errors = {} /\ Len(memrefs) = Cardinality(Bufs(prog))
    BY DEF NoNeedlessSpills
  <2>1. Len(prog.size) \in Nat /\ Bufs(prog) = 1 .. Len(prog.size)
    BY FunctionTyped DEF ScanInv
  <2>2. Cardinality(Bufs(prog)) = Len(prog.size)
    <3>1. PICK n \in Nat : n = Len(prog.size) /\ Bufs(prog) = 1 .. n
      BY <2>1
    <3>2. Cardinality(1 .. n) = IF 1 > n THEN 0 ELSE n - 1 + 1
      BY FS_Interval
    <3>3. QED BY <3>1, <3>2
  <2>3. QED BY <2>2 DEF FitInv
<1>4. QED BY <1>1, <1>2, <1>3, ScanWellFormed, PTL DEF Spec

-----------------------------------------------------------------------------
(* Evicting makes room: what becomes of a buffer is at any time in one hand *)
(* only, the queue of tier 0, a place there or the reload of the call.      *)

(* The call that works in tier 0, if there is one, is the outermost. *)
AtZero == stack # << >> /\ stack[1].tier = 0
Hand == IF AtZero THEN {stack[1].cur, stack[1].reload} \ {NoInterval} ELSE {}

(* The start of the interval tier 0 took last. *)
Now == IF taken[0] = << >> THEN 0 ELSE taken[0][Len(taken[0])]

(* What has a place in tier 0 beyond Now. *)
Live(j) == j \in Active(0) /\ Now < placed[0][j].end

(* What waits for tier 1, or is being placed there. *)
Pending ==
  Range(unhandled[1]) \cup (IF Len(stack) = 2 THEN {stack[2].cur} \ {NoInterval} ELSE {})

(* A piece of a buffer, from an operation that touches it on. *)
Segment(iv) ==
  /\ iv.id = IdOf(iv.id.buf)
  /\ iv.start \in Times(prog) /\ iv.end <= Len(prog.ops) + 1
  /\ iv.id.buf \in Touched(prog.ops[iv.start])
  /\ iv.uses \subseteq UsesOf(prog, iv.id.buf)

(* What tier 1 holds of a buffer has ended by t. *)
BackBy(id, t) == \A j \in Active(1) : placed[1][j].id = id => placed[1][j].end <= t

(* A call of tier 0 spills into tier 1, and into no other tier. *)
TwoCalls ==
  /\ Len(stack) <= 2
  /\ Len(stack) = 2 => AtZero /\ stack[2].reload = NoInterval
  /\ Len(stack) = 1 => stack[1].reload = NoInterval
  /\ \A i \in DOMAIN stack : stack[i].cur # NoInterval => stack[i].tier = i - 1
  /\ \A k \in Tiers : k > 1 => unhandled[k] = << >>
  /\ Len(unhandled[1]) <= IF Len(stack) = 2 /\ stack[2].cur = NoInterval THEN 1 ELSE 0

InTierZero ==
  /\ \A i, j \in DOMAIN unhandled[0] : i < j => unhandled[0][i].start <= unhandled[0][j].start
  /\ \A iv \in Range(unhandled[0]) \cup Hand :
       Segment(iv) /\ iv.start < iv.end /\ Now <= iv.start /\ BackBy(iv.id, iv.start)
  /\ AtZero /\ stack[1].cur # NoInterval => stack[1].cur.start = Now
  /\ \A j \in Active(0) :
       /\ Segment(placed[0][j]) /\ placed[0][j].start <= placed[0][j].end
       /\ placed[0][j].start <= Now
       /\ Live(j) => BackBy(placed[0][j].id, Now)

OneHand ==
  /\ \A i, j \in DOMAIN unhandled[0] : unhandled[0][i].id = unhandled[0][j].id => i = j
  /\ \A iv \in Range(unhandled[0]), x \in Hand : iv.id # x.id
  /\ AtZero /\ stack[1].cur # NoInterval /\ stack[1].reload # NoInterval =>
       stack[1].cur.id # stack[1].reload.id
  /\ \A iv \in Range(unhandled[0]) \cup Hand : \A j \in Active(0) : Live(j) => iv.id # placed[0][j].id
  /\ \A i, j \in Active(0) : placed[0][i].id = placed[0][j].id => i = j

(* While an interval is placed, what was evicted for it has ended at Now.   *)
CutForThis ==
  AtZero /\ stack[1].cur # NoInterval =>
    \A j \in Active(0) :
      /\ placed[0][j].id # stack[1].cur.id
      /\ placed[0][j].id \in stack[1].excluded <=> ~ Live(j)
      /\ ~ Live(j) => placed[0][j].end = Now

InTierOne ==
  /\ \A j \in Active(1) :
       placed[1][j].id = IdOf(placed[1][j].id.buf) /\ placed[1][j].start < placed[1][j].end
  /\ \A i, j \in Active(1) :
       placed[1][i].id = placed[1][j].id /\ Now < placed[1][i].end /\ Now < placed[1][j].end => i = j
  /\ \A s \in Pending :
       /\ s.id = IdOf(s.id.buf) /\ s.start = Now /\ BackBy(s.id, Now)
       /\ \A iv \in Range(unhandled[0]) : iv.id # s.id
       /\ s.id # stack[1].cur.id
       /\ stack[1].reload # NoInterval /\ stack[1].reload.id = s.id => s.end <= stack[1].reload.start
       /\ \A j \in Active(0) : Live(j) => placed[0][j].id # s.id

SwapInv == errors = {} /\ TwoCalls /\ InTierZero /\ OneHand /\ CutForThis /\ InTierOne

-----------------------------------------------------------------------------
(* An interval queued in order: the others keep theirs around it.           *)
LEMMA QueuedInOrder ==
  ASSUME NEW q \in Seq(IntervalType), NEW iv \in IntervalType,
         \A i, j \in DOMAIN q : i < j => q[i].start <= q[j].start
  PROVE  LET r == AddUnhandled(q, iv)
         IN /\ r \in Seq(IntervalType) /\ Len(r) = Len(q) + 1 /\ Range(r) = Range(q) \cup {iv}
            /\ \A i, j \in DOMAIN r : i < j => r[i].start <= r[j].start
            /\ \E p \in DOMAIN r : /\ r[p] = iv
                                   /\ \A i \in DOMAIN r : i < p => i \in DOMAIN q /\ r[i] = q[i]
                                   /\ \A i \in DOMAIN r : i > p => i - 1 \in DOMAIN q /\ r[i] = q[i - 1]
<1>1. PICK n \in Nat : n = Len(q) /\ DOMAIN q = 1 .. n
  BY LenProperties
<1>2. PICK E : E = {i \in 1 .. n : q[i].start < iv.start}
  OBVIOUS
<1>3. PICK c \in Nat : c = Cardinality(E) /\ c <= n /\ IsFiniteSet(E)
  <2>1. IsFiniteSet(1 .. n) /\ Cardinality(1 .. n) = n
    <3>1. n \in Int /\ 1 \in Int /\ (IF 1 > n THEN 0 ELSE n - 1 + 1) = n
      OBVIOUS
    <3>2. QED BY <3>1, FS_Interval
  <2>2. E \subseteq 1 .. n
    BY <1>2
  <2>3. IsFiniteSet(E) /\ Cardinality(E) <= n /\ Cardinality(E) \in Nat
    BY <2>1, <2>2, FS_Subset, FS_CardinalityType
  <2>4. QED BY <2>3
<1>4. PICK p \in 1 .. n + 1 : p = c + 1
  BY <1>3
<1>5. PICK r : r = AddUnhandled(q, iv) /\ r = InsertAt(q, p, iv)
  BY <1>1, <1>2, <1>3, <1>4 DEF AddUnhandled
<1>6. r \in Seq(IntervalType) /\ Len(r) = n + 1 /\ DOMAIN r = 1 .. n + 1 /\ Range(r) = Range(q) \cup {iv}
  <2>1. /\ InsertAt(q, p, iv) \in Seq(IntervalType) /\ Len(InsertAt(q, p, iv)) = Len(q) + 1
        /\ Range(InsertAt(q, p, iv)) = Range(q) \cup {iv}
    BY <1>1, Inserted
  <2>2. QED BY <1>1, <1>5, <2>1
<1>7. /\ r[p] = iv /\ \A i \in 1 .. n + 1 : (i < p => r[i] = q[i]) /\ (i > p => r[i] = q[i - 1])
  <2>1. PICK a \in Seq(IntervalType) :
          a = SubSeq(q, 1, p - 1) /\ Len(a) = p - 1 /\ \A i \in 1 .. p - 1 : a[i] = q[i]
    <3>1. p - 1 \in Nat /\ p - 1 <= Len(q)
      BY <1>1
    <3>2. QED BY <3>1, Shortened
  <2>2. PICK b \in Seq(IntervalType) :
          /\ b = SubSeq(q, p, Len(q)) /\ Len(b) = n - p + 1
          /\ \A i \in 1 .. n - p + 1 : b[i] = q[p + i - 1]
    <3>1. SubSeq(q, p, n) \in Seq(IntervalType)
      <4>1. \A i \in p .. n : q[i] \in IntervalType
        BY <1>1
      <4>2. QED BY <4>1, SubSeqProperties
    <3>2. Len(SubSeq(q, p, n)) = n - p + 1 /\ \A i \in 1 .. n - p + 1 : SubSeq(q, p, n)[i] = q[p + i - 1]
      BY <1>1
    <3>3. QED BY <1>1, <3>1, <3>2
  <2>3. PICK m \in Seq(IntervalType) : m = <<iv>> /\ Len(m) = 1 /\ m[1] = iv
    <3>1. <<iv>> \in Seq(IntervalType) /\ Len(<<iv>>) = 1 /\ <<iv>>[1] = iv
      OBVIOUS
    <3>2. QED BY <3>1
  <2>4. r = (a \o m) \o b
    BY <1>5, <2>1, <2>2, <2>3 DEF InsertAt
  <2>5. PICK am \in Seq(IntervalType) :
          /\ am = a \o m /\ Len(am) = p /\ \A i \in 1 .. p : am[i] = IF i <= p - 1 THEN a[i] ELSE m[i - (p - 1)]
    <3>1. /\ a \o m \in Seq(IntervalType) /\ Len(a \o m) = Len(a) + Len(m)
          /\ \A i \in 1 .. Len(a) + Len(m) : (a \o m)[i] = IF i <= Len(a) THEN a[i] ELSE m[i - Len(a)]
      BY ConcatProperties
    <3>2. Len(a) = p - 1 /\ Len(m) = 1 /\ Len(a) + Len(m) = p
      BY <2>1, <2>3
    <3>3. PICK x \in Seq(IntervalType) : x = a \o m
      BY <3>1
    <3>4. Len(x) = p /\ \A i \in 1 .. p : x[i] = IF i <= p - 1 THEN a[i] ELSE m[i - (p - 1)]
      BY <3>1, <3>2, <3>3
    <3>5. QED BY <3>3, <3>4
  <2>6. am[p] = iv /\ \A i \in 1 .. p - 1 : am[i] = q[i]
    <3>1. ~ (p <= p - 1) /\ p - (p - 1) = 1 /\ p \in 1 .. p
      OBVIOUS
    <3>2. ASSUME NEW i \in 1 .. p - 1 PROVE i \in 1 .. p /\ i <= p - 1
      OBVIOUS
    <3>3. am[p] = iv
      BY <2>3, <2>5, <3>1
    <3>4. QED BY <2>1, <2>5, <3>2, <3>3
  <2>7. \A i \in 1 .. n + 1 : r[i] = IF i <= p THEN am[i] ELSE b[i - p]
    <3>1. \A i \in 1 .. Len(am) + Len(b) : (am \o b)[i] = IF i <= Len(am) THEN am[i] ELSE b[i - Len(am)]
      BY ConcatProperties
    <3>2. Len(am) + Len(b) = n + 1
      BY <2>2, <2>5
    <3>3. QED BY <2>4, <2>5, <3>1, <3>2
  <2>8. r[p] = iv
    BY <2>6, <2>7
  <2>9. ASSUME NEW i \in 1 .. n + 1, i < p PROVE r[i] = q[i]
    BY <2>6, <2>7, <2>9
  <2>10. ASSUME NEW i \in 1 .. n + 1, i > p PROVE r[i] = q[i - 1]
    <3>1. i - p \in 1 .. n - p + 1 /\ p + (i - p) - 1 = i - 1 /\ ~ (i <= p)
      BY <2>10
    <3>2. QED BY <2>2, <2>7, <3>1
  <2>11. QED BY <2>8, <2>9, <2>10
<1>8. \A i \in 1 .. n : q[i].start \in Int /\ iv.start \in Int
  <2>1. \A i \in 1 .. n : q[i] \in IntervalType
    BY <1>1
  <2>2. QED BY <2>1 DEF IntervalType
<1>9. ASSUME NEW i \in 1 .. n, i < p PROVE q[i].start <= iv.start
  <2>1. CASE q[i].start < iv.start
    BY <1>8, <2>1
  <2>2. CASE ~ (q[i].start < iv.start)
    <3>1. E \subseteq 1 .. i - 1
      <4>1. ASSUME NEW j \in E PROVE j < i
        <5>1. j \in 1 .. n /\ q[j].start < iv.start
          BY <1>2
        <5>2. j # i /\ (i < j => q[i].start <= q[j].start)
          BY <1>1, <2>2, <5>1
        <5>3. QED BY <1>8, <2>2, <5>1, <5>2
      <4>2. QED BY <1>2, <4>1
    <3>2. IsFiniteSet(1 .. i - 1) /\ Cardinality(1 .. i - 1) = i - 1
      <4>1. i - 1 \in Int /\ 1 \in Int /\ (IF 1 > i - 1 THEN 0 ELSE (i - 1) - 1 + 1) = i - 1
        OBVIOUS
      <4>2. QED BY <4>1, FS_Interval
    <3>3. c <= i - 1
      BY <1>3, <3>1, <3>2, FS_Subset, ZenonT(60)
    <3>4. QED BY <1>3, <1>4, <1>9, <3>3
  <2>3. QED BY <2>1, <2>2
<1>10. ASSUME NEW i \in 1 .. n, i >= p PROVE iv.start <= q[i].start
  <2>1. CASE ~ (q[i].start < iv.start)
    BY <1>8, <2>1
  <2>2. CASE q[i].start < iv.start
    <3>1. 1 .. i \subseteq E
      <4>1. ASSUME NEW j \in 1 .. i PROVE j \in E
        <5>1. j \in 1 .. n /\ (j = i \/ q[j].start <= q[i].start)
          BY <1>1
        <5>2. q[j].start < iv.start
          BY <1>8, <2>2, <5>1
        <5>3. QED BY <1>2, <5>1, <5>2
      <4>2. QED BY <4>1
    <3>2. Cardinality(1 .. i) = i
      <4>1. i \in Int /\ 1 \in Int /\ (IF 1 > i THEN 0 ELSE i - 1 + 1) = i
        OBVIOUS
      <4>2. QED BY <4>1, FS_Interval
    <3>3. i <= c
      BY <1>3, <3>1, <3>2, FS_Subset
    <3>4. QED BY <1>3, <1>4, <1>10, <3>3
  <2>3. QED BY <2>1, <2>2
<1>11. ASSUME NEW i \in 1 .. n + 1, NEW j \in 1 .. n + 1, i < j PROVE r[i].start <= r[j].start
  <2>1. CASE j < p
    <3>1. r[i] = q[i] /\ r[j] = q[j] /\ i \in 1 .. n /\ j \in 1 .. n
      BY <1>7, <1>11, <2>1
    <3>2. QED BY <1>1, <1>11, <3>1
  <2>2. CASE j = p
    <3>1. r[i] = q[i] /\ r[j] = iv /\ i \in 1 .. n /\ i < p
      BY <1>7, <1>11, <2>2
    <3>2. QED BY <1>9, <3>1
  <2>3. CASE j > p /\ i < p
    <3>1. r[i] = q[i] /\ r[j] = q[j - 1] /\ i \in 1 .. n /\ j - 1 \in 1 .. n /\ j - 1 >= p
      BY <1>7, <1>11, <2>3
    <3>2. q[i].start <= iv.start /\ iv.start <= q[j - 1].start
      BY <1>9, <1>10, <2>3, <3>1
    <3>3. QED BY <1>8, <3>1, <3>2
  <2>4. CASE j > p /\ i = p
    <3>1. r[i] = iv /\ r[j] = q[j - 1] /\ j - 1 \in 1 .. n /\ j - 1 >= p
      BY <1>7, <1>11, <2>4
    <3>2. QED BY <1>10, <3>1
  <2>5. CASE j > p /\ i > p
    <3>1. r[i] = q[i - 1] /\ r[j] = q[j - 1] /\ i - 1 \in 1 .. n /\ j - 1 \in 1 .. n /\ i - 1 < j - 1
      BY <1>7, <1>11, <2>5
    <3>2. QED BY <1>1, <3>1
  <2>6. QED BY <2>1, <2>2, <2>3, <2>4, <2>5
<1>12. ASSUME NEW i \in 1 .. n + 1
       PROVE  (i < p => i \in DOMAIN q /\ r[i] = q[i]) /\ (i > p => i - 1 \in DOMAIN q /\ r[i] = q[i - 1])
  <2>1. (i < p => i \in 1 .. n) /\ (i > p => i - 1 \in 1 .. n)
    OBVIOUS
  <2>2. QED BY <1>1, <1>7, <2>1
<1>13. p \in DOMAIN r
  BY <1>6
<1>14. QED BY <1>1, <1>5, <1>6, <1>7, <1>11, <1>12, <1>13

(* A tier has room for the interval being placed when fewer buffers than it *)
(* has places are in the way.                                               *)
LEMMA PlaceLeft ==
  ASSUME ScanInv, stack # << >>, Cur # NoInterval, Cur.size = 1, prog.align = 1,
         NEW W \in SUBSET Active(Tier),
         \A j \in Active(Tier) :
           /\ placed[Tier][j].size = 1
           /\ Empty(placed[Tier][j]) \/ Meets(placed[Tier][j], Cur) => j \in W,
         NEW B, IsFiniteSet(B), Cardinality(B) < prog.caps[Tier],
         NEW K \in [W -> B], \A i, j \in W : K[i] = K[j] => i = j
  PROVE  SureRoom # {}
<1>1. PICK k \in Tiers : k = Tier
  BY TopTyped
<1>2. PICK d \in Seq(IntervalType) : d = placed[k]
  BY <1>1, TopTyped
<1>3. Active(k) \subseteq DOMAIN d
  BY <1>2 DEF Active
<1>4. PICK room \in Nat : room = prog.caps[k] /\ Cardinality(B) < room /\ Cardinality(B) \in Nat
  <2>1. prog \in Programs /\ prog.caps \in [Tiers -> Nat]
    BY TargetTyped, ProgramsAssumption DEF ScanInv, WellFormed, Tiers, Bottom
  <2>2. QED BY <1>1, <2>1, FS_CardinalityType
<1>5. PICK f : f = [b \in B |-> d[CHOOSE j \in W : K[j] = b].offset]
  OBVIOUS
<1>6. IsFiniteSet(Range(f)) /\ Cardinality(Range(f)) <= Cardinality(B)
  <2>1. DOMAIN f = B /\ f \in [B -> Range(f)]
    BY <1>5, InRange
  <2>2. QED BY <2>1, RangeNoLarger
<1>7. PICK o \in 0 .. room - 1 : o \notin Range(f)
  <2>1. Cardinality(0 .. room - 1) = room
    <3>1. room - 1 \in Int /\ ~ (0 > room - 1) /\ (room - 1) - 0 + 1 = room
      BY <1>4
    <3>2. QED BY <3>1, FS_Interval
  <2>2. Cardinality(Range(f)) \in Nat
    BY <1>6, FS_CardinalityType
  <2>3. ~ (0 .. room - 1 \subseteq Range(f))
    <3>1. CASE 0 .. room - 1 \subseteq Range(f)
      <4>1. Cardinality(0 .. room - 1) <= Cardinality(Range(f))
        BY <1>6, <3>1, FS_Subset
      <4>2. QED BY <1>4, <1>6, <2>1, <2>2, <4>1
    <3>2. QED BY <3>1
  <2>4. QED BY <2>3
<1>8. o \in Offsets(Cur)
  <2>1. o \in Int /\ o % 1 = 0 /\ 0 .. prog.caps[Tier] - Cur.size = 0 .. room - 1
    BY <1>1, <1>4
  <2>2. QED BY <2>1 DEF Offsets
<1>9. ASSUME NEW a \in Residents(Tier), Empty(a) \/ Meets(a, Cur)
      PROVE  Apart(a, Cur, o)
  <2>1. PICK j \in Active(k) : d[j] = a
    BY <1>1, <1>2 DEF Residents
  <2>2. j \in W /\ a.size = 1 /\ a.offset \in Int
    <3>1. a \in IntervalType
      BY <1>3, <2>1
    <3>2. QED BY <1>1, <1>2, <1>9, <2>1, <3>1 DEF IntervalType
  <2>3. (CHOOSE i \in W : K[i] = K[j]) = j
    BY <2>2
  <2>4. f[K[j]] = a.offset /\ K[j] \in DOMAIN f
    BY <1>5, <2>1, <2>2, <2>3
  <2>5. a.offset # o
    BY <1>7, <2>4, InRange
  <2>6. QED BY <2>2, <2>5 DEF Apart
<1>10. o \in SureRoom
  BY <1>8, <1>9 DEF Room, SureRoom
<1>11. QED BY <1>10

(* Something to evict, as long as an interval that is active and was not    *)
(* evicted for this one lives on.                                           *)
LEMMA VictimExists ==
  ASSUME ScanInv, stack # << >>, Cur # NoInterval, Cur.start \in Nat,
         NEW i \in Active(Tier), placed[Tier][i].id \notin Top.excluded,
         Cur.start < placed[Tier][i].end,
         NEW n \in Nat, \A j \in Active(Tier) : placed[Tier][j].end <= n
  PROVE  Victims # {}
<1>1. PICK k \in Tiers : k = Tier
  BY TopTyped
<1>2. PICK d \in Seq(IntervalType) : d = placed[k]
  BY <1>1, TopTyped
<1>3. Active(k) \subseteq DOMAIN d
  BY <1>2 DEF Active
<1>4. PICK now \in Nat : now = Cur.start
  OBVIOUS
<1>5. ASSUME NEW j \in Active(k)
      PROVE  Distances(d[j]) \subseteq 1 .. n /\ (now < d[j].end => d[j].end - now \in Distances(d[j]))
  <2>1. PICK a \in IntervalType : a = d[j] /\ Sound(a)
    <3>1. j \in DOMAIN d
      BY <1>3
    <3>2. d[j] \in Range(d) /\ d[j] \in IntervalType
      BY <3>1, InRange
    <3>3. Sound(d[j])
      BY <1>1, <1>2, <3>2 DEF ScanInv, QueuesTyped
    <3>4. QED BY <3>2, <3>3
  <2>2. a.end \in Int /\ a.end <= n /\ a.uses \subseteq Nat /\ \A u \in a.uses : u < a.end
    <3>1. a.end \in Int /\ a.uses \subseteq Nat
      BY DEF IntervalType
    <3>2. \A u \in a.uses : u < a.end
      BY <2>1 DEF Sound
    <3>3. QED BY <1>1, <1>2, <2>1, <3>1, <3>2
  <2>3. ASSUME NEW u \in a.uses \cup {a.end}, u > now PROVE u - now \in 1 .. n
    BY <2>2, <2>3
  <2>4. Distances(a) \subseteq 1 .. n
    BY <1>4, <2>3 DEF Distances
  <2>5. now < a.end => a.end - now \in Distances(a)
    BY <1>4, <2>2 DEF Distances
  <2>6. QED BY <2>1, <2>4, <2>5
<1>6. PICK able : able = {a \in Residents(k) : a.id \notin Top.excluded /\ Distances(a) # {}}
  OBVIOUS
<1>7. d[i] \in able
  BY <1>1, <1>2, <1>4, <1>5, <1>6 DEF Residents
<1>8. ASSUME NEW a \in able PROVE Min(Distances(a)) \in 1 .. n
  <2>1. Distances(a) \in SUBSET (1 .. n) /\ Distances(a) # {}
    BY <1>2, <1>5, <1>6 DEF Residents
  <2>2. Distances(a) \in SUBSET Nat
    BY <2>1
  <2>3. QED BY <2>1, <2>2, MinIsLeast
<1>9. PICK S : S = {Min(Distances(a)) : a \in able}
  OBVIOUS
<1>10. S \in SUBSET (1 .. n) /\ S # {}
  BY <1>7, <1>8, <1>9
<1>11. PICK a \in able : \A y \in able : Min(Distances(y)) <= Min(Distances(a))
  <2>1. Max(S) \in S /\ \A x \in S : x <= Max(S)
    BY <1>10, MaxIsGreatest
  <2>2. PICK a \in able : Min(Distances(a)) = Max(S)
    BY <1>9, <2>1
  <2>3. QED BY <1>9, <2>1, <2>2
<1>12. a.id \in Victims
  BY <1>1, <1>6, <1>11 DEF Victims
<1>13. QED BY <1>12

(* The call that works in tier 0 and the one it waits for.                  *)
LEMMA SwapCall ==
  ASSUME ScanInv, TwoCalls, stack # << >>
  PROVE  /\ 0 \in Tiers /\ Bottom \in Nat /\ Tiers = 0 .. Bottom
         /\ 1 \in DOMAIN stack /\ stack[1] \in FrameType
         /\ Len(stack) = 1 => /\ Top = stack[1] /\ Tier = stack[1].tier /\ Cur = stack[1].cur
                              /\ Cur # NoInterval => AtZero
                              /\ AtZero <=> Tier = 0
         /\ Len(stack) # 1 => /\ Len(stack) = 2 /\ 2 \in DOMAIN stack /\ stack[2] \in FrameType
                              /\ Top = stack[2] /\ Tier = 1 /\ Cur = stack[2].cur
                              /\ AtZero /\ stack[1].cur # NoInterval
                              /\ stack[1].cur \in IntervalType /\ 1 \in Tiers
<1>1. 0 \in Tiers /\ Bottom \in Nat /\ Tiers = 0 .. Bottom
  BY TargetTyped DEF ScanInv
<1>2. PICK n \in {1, 2} : n = Len(stack) /\ DOMAIN stack = 1 .. n /\ n \in DOMAIN stack
  <2>1. Len(stack) \in Nat /\ DOMAIN stack = 1 .. Len(stack) /\ Len(stack) \in DOMAIN stack
    BY TopTyped
  <2>2. Len(stack) <= 2
    BY DEF TwoCalls
  <2>3. Len(stack) \in {1, 2}
    BY <2>1, <2>2
  <2>4. QED BY <2>1, <2>3
<1>3. 1 \in DOMAIN stack /\ stack[1] \in FrameType /\ stack[1].tier \in Tiers
  <2>1. 1 \in DOMAIN stack
    BY <1>2
  <2>2. QED BY <2>1 DEF ScanInv, StackTyped
<1>4. CASE n = 1
  BY <1>1, <1>2, <1>3, <1>4 DEF Top, Tier, Cur, AtZero, TwoCalls
<1>5. CASE n = 2
  <2>1. AtZero
    BY <1>2, <1>5 DEF TwoCalls
  <2>2. 2 \in DOMAIN stack /\ stack[2] \in FrameType /\ stack[2].tier = stack[1].tier + 1
        /\ stack[2].tier \in Tiers /\ stack[1].cur # NoInterval
    <3>1. 2 \in DOMAIN stack /\ 1 < Len(stack) /\ 2 - 1 = 1
      BY <1>2, <1>5
    <3>2. QED BY <1>3, <3>1 DEF ScanInv, StackTyped
  <2>3. stack[2].tier = 1
    BY <2>1, <2>2 DEF AtZero
  <2>4. stack[1].cur \in IntervalType
    BY <1>3, <2>2 DEF FrameType
  <2>5. QED BY <1>1, <1>2, <1>3, <1>5, <2>1, <2>2, <2>3, <2>4 DEF Top, Tier, Cur
<1>6. QED BY <1>2, <1>4, <1>5

(* Buffers of a program are finitely many.                                  *)
LEMMA BufsFinite ==
  ASSUME NEW p \in Programs, NEW B \in SUBSET Bufs(p), NEW b \in B
  PROVE  /\ IsFiniteSet(B \ {b}) /\ IsFiniteSet(B) /\ Cardinality(B) \in Nat
         /\ Cardinality(B \ {b}) = Cardinality(B) - 1
<1>1. Len(p.size) \in Nat /\ Bufs(p) = 1 .. Len(p.size)
  BY FunctionTyped
<1>2. IsFiniteSet(B)
  <2>1. PICK n \in Nat : Bufs(p) = 1 .. n
    BY <1>1
  <2>2. n \in Int /\ 1 \in Int
    OBVIOUS
  <2>3. IsFiniteSet(1 .. n)
    BY <2>2, FS_Interval
  <2>4. QED BY <2>1, <2>3, FS_Subset
<1>3. QED BY <1>2, FS_RemoveElement, FS_CardinalityType

(* Every eviction makes room, and every time one is needed there is one to  *)
(* make.                                                                    *)
LEMMA RoomOrVictim ==
  ASSUME ScanInv, RoomBelow, SwapInv, stack # << >>, Cur # NoInterval
  PROVE  SureRoom # {} \/ (Tier = 0 /\ Victims # {})
<1>1. /\ prog \in Programs /\ prog.guard = 0 /\ prog.align = 1 /\ 0 \in Tiers /\ 1 \in Tiers
      /\ \A b \in Bufs(prog) : prog.size[b] = 1
      /\ prog.caps \in [Tiers -> Nat]
  <2>1. prog \in Programs /\ Bottom \in Nat /\ Tiers = 0 .. Bottom /\ Bottom > 0
    BY TargetTyped DEF ScanInv, RoomBelow
  <2>2. prog.caps \in [Tiers -> Nat]
    BY <2>1, ProgramsAssumption DEF WellFormed, Tiers, Bottom
  <2>3. QED BY <2>1, <2>2 DEF RoomBelow
<1>2. PICK c \in IntervalType : c = Cur /\ Sound(c)
  BY TopTyped
<1>3. c.size = 1 /\ c.start \in Int /\ c.id.buf \in Bufs(prog)
  BY <1>1, <1>2 DEF Sound, IntervalType
<1>4. PICK k \in Tiers : k = Tier
  BY TopTyped
<1>5. PICK d \in Seq(IntervalType) : d = placed[k]
  BY <1>4, TopTyped
<1>6. Active(k) \subseteq DOMAIN d
  BY <1>5 DEF Active
<1>7. ASSUME NEW j \in Active(k)
      PROVE  d[j] \in IntervalType /\ d[j].size = 1 /\ d[j].id.buf \in Bufs(prog)
             /\ d[j].start \in Int /\ d[j].end \in Int
  <2>1. d[j] \in Range(d) /\ d[j] \in IntervalType
    BY <1>6, InRange
  <2>2. Sound(d[j])
    BY <1>5, <2>1 DEF ScanInv, QueuesTyped
  <2>3. QED BY <1>1, <2>1, <2>2 DEF Sound, IntervalType
<1>8. ASSUME NEW W \in SUBSET Active(k), NEW B \in SUBSET Bufs(prog), Cardinality(B) <= prog.caps[k],
             c.id.buf \in B,
             \A j \in Active(k) : Empty(d[j]) \/ Meets(d[j], c) => j \in W,
             \A j \in W : d[j].id.buf \in B /\ d[j].id.buf # c.id.buf,
             \A i, j \in W : d[i].id.buf = d[j].id.buf => i = j
      PROVE  SureRoom # {}
  <2>1. PICK K : K = [j \in W |-> d[j].id.buf]
    OBVIOUS
  <2>2. PICK R : R = B \ {c.id.buf}
    OBVIOUS
  <2>3. K \in [W -> R] /\ \A i, j \in W : K[i] = K[j] => i = j
    BY <1>8, <2>1, <2>2
  <2>4. IsFiniteSet(R) /\ Cardinality(R) < prog.caps[k]
    <3>1. prog.caps[k] \in Nat
      BY <1>1
    <3>2. /\ IsFiniteSet(B \ {c.id.buf}) /\ Cardinality(B) \in Nat
          /\ Cardinality(B \ {c.id.buf}) = Cardinality(B) - 1
      BY <1>1, <1>8, BufsFinite
    <3>3. QED BY <1>8, <2>2, <3>1, <3>2
  <2>5. Cur.size = 1 /\ prog.align = 1
    BY <1>1, <1>2, <1>3
  <2>6. W \in SUBSET Active(Tier)
    BY <1>4, <1>8
  <2>7. \A j \in Active(Tier) :
          /\ placed[Tier][j].size = 1
          /\ Empty(placed[Tier][j]) \/ Meets(placed[Tier][j], Cur) => j \in W
    BY <1>2, <1>4, <1>5, <1>7, <1>8
  <2>8. IsFiniteSet(R)
    BY <2>4
  <2>9. Cardinality(R) < prog.caps[Tier]
    BY <1>4, <2>4
  <2>10. K \in [W -> R]
    BY <2>3
  <2>11. \A i, j \in W : K[i] = K[j] => i = j
    BY <2>3
  <2>12. stack # << >> /\ Cur # NoInterval /\ ScanInv
    OBVIOUS
  <2>13. QED BY ONLY <2>12, <2>5, <2>6, <2>7, <2>8, <2>9, <2>10, <2>11, PlaceLeft, ZenonT(180)
<1>9. CASE Len(stack) = 2
  <2>1. k = 1 /\ c = stack[2].cur
    BY <1>2, <1>4, <1>9, SwapCall DEF SwapInv
  <2>2. c \in Pending
    BY <1>2, <1>9, <2>1 DEF Pending
  <2>3. /\ c.id = IdOf(c.id.buf) /\ c.start = Now /\ BackBy(c.id, Now)
        /\ \A j \in Active(1) : d[j].id = IdOf(d[j].id.buf) /\ d[j].start < d[j].end
        /\ \A i, j \in Active(1) : d[i].id = d[j].id /\ Now < d[i].end /\ Now < d[j].end => i = j
    BY <1>5, <2>1, <2>2 DEF SwapInv, InTierOne
  <2>4. PICK W : W = {j \in Active(k) : Now < d[j].end}
    OBVIOUS
  <2>5. ASSUME NEW j \in Active(k), Empty(d[j]) \/ Meets(d[j], c) PROVE j \in W
    <3>1. ~ Empty(d[j])
      BY <1>1, <1>7, <2>1, <2>3 DEF Empty
    <3>2. c.start < d[j].end
      BY <1>1, <1>3, <1>7, <2>5, <3>1 DEF Meets
    <3>3. QED BY <2>3, <2>4, <3>2
  <2>6. ASSUME NEW j \in W PROVE d[j].id.buf \in Bufs(prog) /\ d[j].id.buf # c.id.buf
    <3>1. j \in Active(1) /\ Now < d[j].end /\ d[j].end \in Int /\ Now \in Int
      BY <1>3, <1>7, <2>1, <2>3, <2>4
    <3>2. d[j].id # c.id
      BY <1>5, <2>1, <2>3, <3>1 DEF BackBy
    <3>3. QED BY <1>7, <2>1, <2>3, <3>1, <3>2
  <2>7. \A i, j \in W : d[i].id.buf = d[j].id.buf => i = j
    <3>1. ASSUME NEW i \in W, NEW j \in W, d[i].id.buf = d[j].id.buf PROVE i = j
      <4>1. i \in Active(1) /\ j \in Active(1) /\ Now < d[i].end /\ Now < d[j].end
        BY <2>1, <2>4
      <4>2. d[i].id = d[j].id
        BY <2>3, <3>1, <4>1
      <4>3. QED BY <2>3, <4>1, <4>2
    <3>2. QED BY <3>1
  <2>8. Cardinality(Bufs(prog)) <= prog.caps[k]
    BY <2>1 DEF RoomBelow
  <2>9. W \in SUBSET Active(k)
    BY <2>4
  <2>10. SureRoom # {}
    <3>1. Bufs(prog) \in SUBSET Bufs(prog) /\ \A j \in W : d[j].id.buf \in Bufs(prog) /\ d[j].id.buf # c.id.buf
      BY <2>6
    <3>2. \A j \in Active(k) : Empty(d[j]) \/ Meets(d[j], c) => j \in W
      BY <2>5
    <3>3. QED BY <1>3, <1>8, <2>7, <2>8, <2>9, <3>1, <3>2
  <2>11. QED BY <2>10
<1>10. CASE Len(stack) # 2
  <2>1. Len(stack) = 1 /\ k = 0 /\ AtZero /\ Top = stack[1] /\ c = stack[1].cur
        /\ stack[1].cur # NoInterval
    BY <1>2, <1>4, <1>10, SwapCall DEF SwapInv
  <2>2. c \in Hand
    BY <1>2, <2>1 DEF Hand
  <2>3. /\ c.start = Now /\ Segment(c)
        /\ \A j \in Active(0) : Segment(d[j]) /\ d[j].start <= d[j].end
        /\ \A i, j \in Active(0) : d[i].id = d[j].id => i = j
        /\ \A j \in Active(0) : d[j].id # c.id
        /\ \A j \in Active(0) : d[j].id \in Top.excluded <=> ~ Live(j)
        /\ \A j \in Active(0) : ~ Live(j) => d[j].end = Now
    BY <1>5, <2>1, <2>2 DEF SwapInv, InTierZero, OneHand, CutForThis
  <2>4. Now \in Times(prog) /\ Now \in Nat /\ Len(prog.ops) + 1 \in Nat
    <3>1. Now \in Times(prog)
      BY <2>3 DEF Segment
    <3>2. QED BY <1>1, <3>1, FunctionTyped
  <2>5. CASE \E i \in Active(0) : Live(i)
    <3>1. PICK i \in Active(0) : Live(i)
      BY <2>5
    <3>2. d[i].id \notin Top.excluded /\ c.start < d[i].end
      BY <1>5, <2>1, <2>3, <3>1 DEF Live
    <3>3. \A j \in Active(0) : d[j].end <= Len(prog.ops) + 1
      BY <2>3 DEF Segment
    <3>4. Victims # {}
      BY <1>2, <1>4, <1>5, <2>1, <2>3, <2>4, <3>1, <3>2, <3>3, VictimExists
    <3>5. QED BY <1>4, <2>1, <3>4
  <2>6. CASE \A i \in Active(0) : ~ Live(i)
    <3>1. PICK W : W = {j \in Active(k) : d[j].start = Now}
      OBVIOUS
    <3>2. PICK B : B = Touched(prog.ops[Now])
      OBVIOUS
    <3>3. B \in SUBSET Bufs(prog) /\ Cardinality(B) <= prog.caps[k]
      <4>1. prog.ops[Now] \in Operations(Bufs(prog))
        BY <1>1, <2>4, ProgramsAssumption DEF WellFormed, Times
      <4>2. QED BY <2>1, <2>4, <3>2, <4>1 DEF Operations, Touched, RoomBelow
    <3>4. c.id.buf \in B /\ c.id = IdOf(c.id.buf)
      BY <2>3, <3>2 DEF Segment
    <3>5. ASSUME NEW j \in Active(k), Empty(d[j]) \/ Meets(d[j], c) PROVE j \in W
      <4>1. d[j].end = Now /\ d[j].start <= d[j].end
        BY <2>1, <2>3, <2>6
      <4>2. ~ Meets(d[j], c)
        BY <1>1, <1>3, <1>7, <2>3, <4>1 DEF Meets
      <4>3. d[j].start >= d[j].end
        BY <1>1, <1>7, <3>5, <4>2 DEF Empty
      <4>4. QED BY <1>7, <3>1, <4>1, <4>3
    <3>6. ASSUME NEW j \in W PROVE d[j].id.buf \in B /\ d[j].id.buf # c.id.buf /\ d[j].id = IdOf(d[j].id.buf)
      <4>1. j \in Active(0) /\ d[j].start = Now
        BY <2>1, <3>1
      <4>2. Segment(d[j]) /\ d[j].id # c.id
        BY <2>3, <4>1
      <4>3. QED BY <3>2, <3>4, <4>1, <4>2 DEF Segment
    <3>7. \A i, j \in W : d[i].id.buf = d[j].id.buf => i = j
      <4>1. W \subseteq Active(0)
        BY <2>1, <3>1
      <4>2. QED BY <2>3, <3>6, <4>1
    <3>8. W \in SUBSET Active(k)
      BY <3>1
    <3>9. SureRoom # {}
      <4>1. \A j \in W : d[j].id.buf \in B /\ d[j].id.buf # c.id.buf
        BY <3>6
      <4>2. \A j \in Active(k) : Empty(d[j]) \/ Meets(d[j], c) => j \in W
        BY <3>5
      <4>3. QED BY <1>8, <3>3, <3>4, <3>7, <3>8, <4>1, <4>2
    <3>10. QED BY <3>9
  <2>7. QED BY <2>5, <2>6
<1>11. QED BY <1>9, <1>10

(* The two tiers, and what is queued for the second.                        *)
LEMMA SwapTyped ==
  ASSUME ScanInv, RoomBelow, TwoCalls
  PROVE  /\ 0 \in Tiers /\ 1 \in Tiers /\ Bottom \in Nat /\ Bottom > 0
         /\ \A k \in {0, 1} : /\ unhandled[k] \in Seq(IntervalType) /\ placed[k] \in Seq(IntervalType)
                              /\ Active(k) \subseteq DOMAIN placed[k]
                              /\ \A j \in Active(k) : placed[k][j] \in IntervalType
         /\ Len(unhandled[1]) <= 1 /\ Len(unhandled[1]) \in Nat
         /\ Len(stack) # 2 \/ stack[2].cur # NoInterval =>
              unhandled[1] = << >> /\ Range(unhandled[1]) = {}
<1>1. 0 \in Tiers /\ 1 \in Tiers /\ Bottom \in Nat /\ Bottom > 0
  <2>1. Bottom \in Nat /\ Tiers = 0 .. Bottom /\ Bottom > 0
    BY TargetTyped DEF ScanInv, RoomBelow
  <2>2. QED BY <2>1
<1>2. ASSUME NEW k \in {0, 1}
      PROVE  /\ unhandled[k] \in Seq(IntervalType) /\ placed[k] \in Seq(IntervalType)
             /\ Active(k) \subseteq DOMAIN placed[k]
             /\ \A j \in Active(k) : placed[k][j] \in IntervalType
  <2>1. k \in Tiers
    BY <1>1
  <2>2. unhandled[k] \in Seq(IntervalType) /\ placed[k] \in Seq(IntervalType)
    BY <2>1 DEF ScanInv, QueuesTyped
  <2>3. Active(k) \subseteq DOMAIN placed[k]
    BY DEF Active
  <2>4. QED BY <2>2, <2>3
<1>3. PICK q \in Seq(IntervalType) : q = unhandled[1]
  BY <1>2
<1>4. Len(q) \in Nat /\ (Len(q) <= 0 => q = << >> /\ DOMAIN q = {})
  OBVIOUS
<1>5. Len(q) <= 1 /\ (Len(stack) # 2 \/ stack[2].cur # NoInterval => Len(q) <= 0)
  BY <1>3, <1>4 DEF TwoCalls
<1>6. DOMAIN q = {} => Range(q) = {}
  BY InRange
<1>7. Len(stack) # 2 \/ stack[2].cur # NoInterval => q = << >> /\ Range(q) = {}
  BY <1>4, <1>5, <1>6
<1>8. QED BY <1>1, <1>2, <1>3, <1>4, <1>5, <1>7

(* Nothing moves while no interval is being placed.                         *)
LEMMA SwapIdle ==
  ASSUME ScanInv, RoomBelow, SwapInv, prog' = prog, errors' = errors, taken' = taken,
         placed' = placed, handled' = handled, unhandled' = unhandled,
         Len(stack) # 2, stack # << >> => stack[1].cur = NoInterval /\ stack[1].reload = NoInterval,
         NEW s, s = stack',
         s = << >> \/ (Len(s) = 1 /\ DOMAIN s = {1} /\ s[1].cur = NoInterval /\ s[1].reload = NoInterval)
  PROVE  SwapInv'
<1>1. Range(unhandled[1]) = {} /\ unhandled[1] = << >>
  BY SwapTyped DEF SwapInv
<1>2. Hand = {} /\ Hand' = {}
  BY DEF Hand, AtZero
<1>3. Len(s) \in {0, 1} /\ Len(s) # 2
  OBVIOUS
<1>4. Pending' = {}
  BY <1>1, <1>3 DEF Pending
<1>5. /\ Now' = Now /\ Active(0)' = Active(0) /\ Active(1)' = Active(1) /\ Tiers' = Tiers
      /\ \A j : Live(j)' = Live(j)
      /\ \A iv : Segment(iv)' = Segment(iv)
      /\ \A id, t : BackBy(id, t)' = BackBy(id, t)
  BY DEF Now, Active, Tiers, Live, Segment, BackBy
<1>6. TwoCalls'
  <2>1. \A i \in DOMAIN s : s[i].cur = NoInterval
    OBVIOUS
  <2>2. Len(<< >>) = 0
    OBVIOUS
  <2>3. Len(s) <= 2 /\ (Len(s) = 1 => s[1].reload = NoInterval)
    <3>1. Len(s) <= 2
      BY <1>3
    <3>2. Len(s) = 1 => s # << >>
      BY <2>2
    <3>3. QED BY <3>1, <3>2
  <2>4. \A k \in Tiers' : k > 1 => unhandled'[k] = << >>
    BY <1>5 DEF TwoCalls, SwapInv
  <2>5. Len(unhandled'[1]) <= 0
    BY <1>1, <2>2
  <2>6. QED BY <1>3, <2>1, <2>3, <2>4, <2>5 DEF TwoCalls
<1>7. ~ (AtZero /\ stack[1].cur # NoInterval)'
  BY DEF AtZero
<1>8. InTierZero'
  BY <1>2, <1>5, <1>7 DEF SwapInv, InTierZero
<1>9. OneHand'
  BY <1>2, <1>5, <1>7 DEF SwapInv, OneHand
<1>10. CutForThis'
  BY <1>7 DEF CutForThis
<1>11. InTierOne'
  BY <1>4, <1>5 DEF SwapInv, InTierOne
<1>12. QED BY <1>6, <1>8, <1>9, <1>10, <1>11 DEF SwapInv

(* A step that leaves the tiers and the calls as they are.                  *)
LEMMA SwapStays ==
  ASSUME SwapInv, prog' = prog, errors' = errors, taken' = taken, placed' = placed,
         handled' = handled, unhandled' = unhandled, stack' = stack
  PROVE  SwapInv'
<1>1. /\ Now' = Now /\ Active(0)' = Active(0) /\ Active(1)' = Active(1) /\ Tiers' = Tiers
      /\ \A j : Live(j)' = Live(j)
      /\ \A iv : Segment(iv)' = Segment(iv)
      /\ \A id, t : BackBy(id, t)' = BackBy(id, t)
      /\ AtZero' = AtZero /\ Hand' = Hand /\ Pending' = Pending
  BY DEF Now, Active, Tiers, Live, Segment, BackBy, AtZero, Hand, Pending
<1>2. TwoCalls' /\ InTierZero'
  BY <1>1 DEF SwapInv, TwoCalls, InTierZero
<1>3. OneHand' /\ CutForThis'
  BY <1>1 DEF SwapInv, OneHand, CutForThis
<1>4. InTierOne'
  BY <1>1 DEF SwapInv, InTierOne
<1>5. QED BY <1>2, <1>3, <1>4 DEF SwapInv

(* The outermost call starts and returns with nothing in hand.              *)
LEMMA SwapStartTier == ScanInv /\ RoomBelow /\ SwapInv /\ StartTier => SwapInv'
<1> SUFFICES ASSUME ScanInv, RoomBelow, SwapInv, StartTier PROVE SwapInv'
  OBVIOUS
<1>1. /\ prog' = prog /\ errors' = errors /\ taken' = taken /\ placed' = placed
      /\ handled' = handled /\ unhandled' = unhandled /\ stack = << >> /\ stack' = <<Frame(level)>>
  BY DEF StartTier, outState, tiersState
<1>2. PICK e : e = Frame(level) /\ e.cur = NoInterval /\ e.reload = NoInterval
  <2>1. PICK e : e = Frame(level)
    OBVIOUS
  <2>2. e.cur = NoInterval /\ e.reload = NoInterval
    BY <2>1 DEF Frame
  <2>3. QED BY <2>1, <2>2
<1>3. PICK s : s = stack' /\ Len(s) = 1 /\ DOMAIN s = {1} /\ s[1] = e
  <2>1. stack' = <<e>>
    BY <1>1, <1>2
  <2>2. Len(<<e>>) = 1 /\ DOMAIN <<e>> = {1} /\ <<e>>[1] = e
    OBVIOUS
  <2>3. QED BY <2>1, <2>2
<1>4. Len(stack) # 2
  BY <1>1
<1>5. QED BY <1>1, <1>2, <1>3, <1>4, SwapIdle

LEMMA SwapReturnOne ==
  ASSUME ScanInv, RoomBelow, SwapInv, Return, Len(stack) = 1
  PROVE  SwapInv'
<1>1. /\ prog' = prog /\ errors' = errors /\ taken' = taken /\ placed' = placed
      /\ handled' = handled /\ unhandled' = unhandled /\ stack' = << >>
      /\ stack # << >> /\ Cur = NoInterval
  BY DEF Return, Idle, Calling
<1>2. stack[1].cur = NoInterval /\ stack[1].reload = NoInterval
  BY <1>1 DEF SwapInv, TwoCalls, Cur, Top
<1>3. Len(stack) # 2
  OBVIOUS
<1>4. QED BY <1>1, <1>2, <1>3, SwapIdle

(* What is left of a queue of one.                                          *)
LEMMA OneLeft ==
  ASSUME NEW S, NEW q \in Seq(S), q # << >>, Len(q) <= 1
  PROVE  Tail(q) = << >> /\ Len(<< >>) = 0 /\ DOMAIN << >> = {}
<1>1. PICK n \in Nat : n = Len(q) /\ DOMAIN q = 1 .. n
  BY LenProperties
<1>2. n # 0
  BY <1>1
<1>3. n = 1
  BY <1>1, <1>2
<1>4. Tail(q) \in Seq(S) /\ Len(Tail(q)) = Len(q) - 1
  OBVIOUS
<1>5. PICK r \in Seq(S) : r = Tail(q)
  BY <1>4
<1>6. Len(r) = 0
  BY <1>1, <1>3, <1>4, <1>5
<1>7. r = << >>
  BY <1>6
<1>8. Len(<< >>) = 0 /\ DOMAIN << >> = {}
  OBVIOUS
<1>9. QED BY <1>5, <1>7, <1>8

(* A call of tier 1 that takes what was spilled.                            *)
LEMMA SwapTakeOne ==
  ASSUME ScanInv, GuardInv, RoomBelow, SwapInv, Take, Len(stack) # 1
  PROVE  SwapInv'
<1>1. /\ prog' = prog /\ placed' = placed /\ errors' = errors /\ stack # << >> /\ Cur = NoInterval
      /\ unhandled[Tier] # << >> /\ unhandled' = [unhandled EXCEPT ![Tier] = Tail(@)]
  BY DEF Take, outState, Idle, Calling
<1>2. PICK iv, dead : /\ iv = Head(unhandled[Tier])
                      /\ handled' = [handled EXCEPT ![Tier] = @ \cup dead]
                      /\ stack' = IF iv.start >= iv.end THEN stack
                                  ELSE SetTop([Top EXCEPT !.cur = iv, !.excluded = {}])
                      /\ taken' = [taken EXCEPT ![Tier] = Append(@, iv.start)]
  BY DEF Take
<1>3. /\ Len(stack) = 2 /\ 2 \in DOMAIN stack /\ stack[2] \in FrameType /\ Top = stack[2]
      /\ Tier = 1 /\ stack[2].cur = NoInterval /\ AtZero /\ stack[1].cur # NoInterval
  BY <1>1, SwapCall DEF SwapInv
<1>4. 0 \in Tiers /\ 1 \in Tiers /\ unhandled[1] \in Seq(IntervalType) /\ Len(unhandled[1]) <= 1
  BY SwapTyped DEF SwapInv
<1>5. PICK q \in Seq(IntervalType) : q = unhandled[1] /\ q # << >> /\ Len(q) <= 1 /\ iv = Head(q)
  BY <1>1, <1>2, <1>3, <1>4
<1>6. Tail(q) = << >> /\ Len(<< >>) = 0 /\ DOMAIN << >> = {}
  BY <1>5, OneLeft
<1>7. iv \in IntervalType /\ iv \in Range(q)
  BY <1>5, TailElements
<1>8. /\ unhandled'[0] = unhandled[0] /\ unhandled'[1] = << >>
      /\ \A k \in Tiers : k > 1 => unhandled'[k] = unhandled[k]
  BY <1>1, <1>3, <1>4, <1>5, <1>6 DEF ScanInv, QueuesTyped
<1>9. handled'[0] = handled[0] /\ handled[1] \subseteq handled'[1] /\ taken'[0] = taken[0]
  BY <1>2, <1>3, <1>4 DEF ScanInv, QueuesTyped, GuardInv
<1>10. /\ Now' = Now /\ Active(0)' = Active(0) /\ Active(1)' \subseteq Active(1) /\ Tiers' = Tiers
       /\ \A j : Live(j)' = Live(j)
       /\ \A x : Segment(x)' = Segment(x)
       /\ \A id, t : BackBy(id, t) => BackBy(id, t)'
  <2>1. Now' = Now /\ Active(0)' = Active(0) /\ Active(1)' \subseteq Active(1) /\ Tiers' = Tiers
    BY <1>1, <1>9 DEF Now, Active, Tiers
  <2>2. QED BY <1>1, <2>1 DEF Live, Segment, BackBy
<1>11. PICK s \in Seq(FrameType) :
         /\ s = stack' /\ Len(s) = 2 /\ DOMAIN s = {1, 2} /\ s[1] = stack[1]
         /\ s[2].reload = NoInterval /\ s[2].cur \in {iv, NoInterval} /\ s[2].tier = 1
  <2>1. PICK c \in Seq(FrameType) : c = stack
    BY DEF ScanInv, StackTyped
  <2>2. DOMAIN c = {1, 2}
    BY <1>3, <2>1
  <2>3. c[2].reload = NoInterval /\ c[2].tier = 1
    BY <1>3, <2>1 DEF SwapInv, TwoCalls, Tier
  <2>4. CASE stack' = stack
    BY <1>3, <2>1, <2>2, <2>3, <2>4
  <2>5. CASE stack' = SetTop([Top EXCEPT !.cur = iv, !.excluded = {}])
    <3>1. PICK f : f = [c[2] EXCEPT !.cur = iv, !.excluded = {}]
      OBVIOUS
    <3>2. f \in FrameType /\ f.cur = iv /\ f.reload = c[2].reload /\ f.tier = c[2].tier
      <4>1. c[2] \in FrameType
        BY <1>3, <2>1
      <4>2. QED BY <1>7, <3>1, <4>1 DEF FrameType
    <3>3. stack' = [c EXCEPT ![2] = f]
      BY <1>3, <2>1, <2>5, <3>1 DEF SetTop
    <3>4. [c EXCEPT ![2] = f] \in Seq(FrameType) /\ Len([c EXCEPT ![2] = f]) = Len(c)
          /\ DOMAIN [c EXCEPT ![2] = f] = DOMAIN c
      BY <3>2, Updated
    <3>5. [c EXCEPT ![2] = f][1] = c[1] /\ [c EXCEPT ![2] = f][2] = f
      BY <2>2
    <3>6. QED BY <1>3, <2>1, <2>2, <2>3, <3>2, <3>3, <3>4, <3>5
  <2>6. QED BY <1>2, <2>4, <2>5
<1>12. AtZero' /\ Hand' = Hand
  <2>1. s # << >> /\ s[1].tier = 0
    BY <1>3, <1>11 DEF AtZero
  <2>2. QED BY <1>3, <1>11, <2>1 DEF AtZero, Hand
<1>13. Pending' \subseteq Pending
  <2>1. Range(<< >>) = {}
    BY <1>6, InRange
  <2>2. Pending' \subseteq {iv}
    BY <1>8, <1>11, <2>1 DEF Pending
  <2>3. iv \in Pending
    BY <1>5, <1>7 DEF Pending
  <2>4. QED BY <2>2, <2>3
<1>14. TwoCalls'
  <2>1. \A i \in DOMAIN s : s[i].cur # NoInterval => s[i].tier = i - 1
    <3>1. s[1].tier = 1 - 1
      BY <1>3, <1>11 DEF AtZero
    <3>2. s[2].tier = 2 - 1
      BY <1>11
    <3>3. QED BY <1>11, <3>1, <3>2
  <2>2. \A k \in Tiers' : k > 1 => unhandled'[k] = << >>
    BY <1>8, <1>10 DEF SwapInv, TwoCalls
  <2>3. Len(unhandled'[1]) <= IF Len(s) = 2 /\ s[2].cur = NoInterval THEN 1 ELSE 0
    BY <1>6, <1>8
  <2>4. QED BY <1>11, <1>12, <2>1, <2>2, <2>3 DEF TwoCalls
<1>15. stack'[1] = stack[1]
  BY <1>11
<1>16. InTierZero'
  BY <1>1, <1>3, <1>8, <1>10, <1>12, <1>15 DEF SwapInv, InTierZero
<1>17. OneHand'
  BY <1>1, <1>3, <1>8, <1>10, <1>12, <1>15 DEF SwapInv, OneHand
<1>18. CutForThis'
  BY <1>1, <1>3, <1>10, <1>12, <1>15 DEF SwapInv, CutForThis
<1>19. InTierOne'
  BY <1>1, <1>8, <1>10, <1>13, <1>15 DEF SwapInv, InTierOne
<1>20. QED BY <1>1, <1>14, <1>16, <1>17, <1>18, <1>19 DEF SwapInv

(* Tier 0 takes the next interval: what has ended by then is expired, and   *)
(* what is left lives on.                                                   *)
LEMMA SwapTakeZero ==
  ASSUME ScanInv, GuardInv, RoomBelow, SwapInv, Take, Len(stack) = 1
  PROVE  SwapInv'
<1>1. /\ prog' = prog /\ placed' = placed /\ errors' = errors /\ stack # << >> /\ Cur = NoInterval
      /\ unhandled[Tier] # << >> /\ unhandled' = [unhandled EXCEPT ![Tier] = Tail(@)]
  BY DEF Take, outState, Idle, Calling
<1>2. PICK iv, dead : /\ iv = Head(unhandled[Tier])
                      /\ dead = {j \in Active(Tier) : Expired(placed[Tier][j], iv.start)}
                      /\ handled' = [handled EXCEPT ![Tier] = @ \cup dead]
                      /\ stack' = IF iv.start >= iv.end THEN stack
                                  ELSE SetTop([Top EXCEPT !.cur = iv, !.excluded = {}])
                      /\ taken' = [taken EXCEPT ![Tier] = Append(@, iv.start)]
  BY DEF Take
<1>3. /\ 0 \in Tiers /\ 1 \in Tiers /\ unhandled[0] \in Seq(IntervalType)
      /\ unhandled[1] = << >> /\ Range(unhandled[1]) = {}
  BY SwapTyped DEF SwapInv
<1>4. /\ Top = stack[1] /\ Tier = stack[1].tier /\ stack[1].cur = NoInterval
      /\ AtZero <=> Tier = 0
      /\ 1 \in DOMAIN stack /\ stack[1] \in FrameType /\ stack[1].reload = NoInterval
  BY <1>1, SwapCall DEF SwapInv, TwoCalls
<1>5. Tier = 0
  <2>1. Tier \in Nat /\ Tier \in Tiers
    BY <1>1, TopTyped
  <2>2. ~ (Tier > 1) /\ Tier # 1
    BY <1>1, <1>3, <2>1 DEF SwapInv, TwoCalls
  <2>3. QED BY <2>1, <2>2
<1>6. PICK q \in Seq(IntervalType) : q = unhandled[0] /\ q # << >> /\ iv = Head(q)
  BY <1>1, <1>2, <1>3, <1>5
<1>7. PICK r \in Seq(IntervalType) :
        /\ r = Tail(q) /\ \A j \in DOMAIN r : j \in Nat /\ j > 0 /\ j + 1 \in DOMAIN q /\ r[j] = q[j + 1]
  <2>1. Tail(q) \in Seq(IntervalType) /\ \A j \in DOMAIN Tail(q) : j + 1 \in DOMAIN q /\ Tail(q)[j] = q[j + 1]
    BY <1>6
  <2>2. \A j \in DOMAIN Tail(q) : j \in Nat /\ j > 0
    BY <2>1
  <2>3. QED BY <2>1, <2>2
<1>8. iv \in IntervalType /\ iv \in Range(q) /\ iv = q[1] /\ 1 \in DOMAIN q /\ Range(r) \subseteq Range(q)
  BY <1>6, <1>7, TailElements
<1>9. /\ Segment(iv) /\ iv.start < iv.end /\ Now <= iv.start /\ BackBy(iv.id, iv.start)
      /\ \A j \in DOMAIN q : j > 1 => iv.start <= q[j].start /\ iv.id # q[j].id
  <2>1. \A i, j \in DOMAIN q : i < j => q[i].start <= q[j].start
    BY <1>6 DEF SwapInv, InTierZero
  <2>2. \A i, j \in DOMAIN q : q[i].id = q[j].id => i = j
    BY <1>6 DEF SwapInv, OneHand
  <2>3. \A j \in DOMAIN q : j > 1 => iv.start <= q[j].start /\ iv.id # q[j].id
    BY <1>8, <2>1, <2>2
  <2>4. QED BY <1>6, <1>8, <2>3 DEF SwapInv, InTierZero
<1>10. PICK now \in Nat : now = iv.start /\ Now <= now
  <2>1. Times(prog) \subseteq Nat
    BY FunctionTyped DEF ScanInv
  <2>2. QED BY <1>9, <2>1 DEF Segment
<1>11. /\ unhandled'[0] = r /\ \A k \in Tiers : k # 0 => unhandled'[k] = unhandled[k]
       /\ handled'[0] = handled[0] \cup dead /\ handled'[1] = handled[1]
  <2>1. /\ unhandled'[0] = r /\ \A k \in Tiers : k # 0 => unhandled'[k] = unhandled[k]
    BY <1>1, <1>3, <1>5, <1>6, <1>7 DEF ScanInv, QueuesTyped
  <2>2. handled'[0] = handled[0] \cup dead /\ handled'[1] = handled[1]
    BY <1>2, <1>3, <1>5 DEF ScanInv, QueuesTyped
  <2>3. QED BY <2>1, <2>2
<1>12. Now' = now
  <2>1. PICK t \in Seq(Int) : t = taken[0]
    BY <1>3 DEF GuardInv
  <2>2. taken'[0] = Append(t, now)
    BY <1>2, <1>3, <1>5, <1>10, <2>1 DEF GuardInv
  <2>3. Append(t, now) # << >> /\ Append(t, now)[Len(Append(t, now))] = now
    <3>1. /\ Append(t, now) \in Seq(Int) /\ Len(Append(t, now)) = Len(t) + 1
          /\ Append(t, now)[Len(t) + 1] = now
      OBVIOUS
    <3>2. Len(t) \in Nat /\ Len(<< >>) = 0 /\ Len(t) + 1 # 0
      OBVIOUS
    <3>3. QED BY <3>1, <3>2
  <2>4. QED BY <2>2, <2>3 DEF Now
<1>13. PICK d \in Seq(IntervalType) : d = placed[0] /\ placed'[0] = d /\ Active(0) \subseteq DOMAIN d
  BY <1>1, SwapTyped DEF SwapInv
<1>14. Now \in Int
  <2>1. PICK t \in Seq(Int) : t = taken[0]
    BY <1>3 DEF GuardInv
  <2>2. t # << >> => t[Len(t)] \in Int
    BY <2>1
  <2>3. QED BY <2>1, <2>2 DEF Now
<1>15. /\ Active(1)' = Active(1) /\ Tiers' = Tiers
       /\ \A x : Segment(x)' = Segment(x)
       /\ \A id, t : BackBy(id, t)' = BackBy(id, t)
  <2>1. Active(1)' = Active(1) /\ Tiers' = Tiers
    BY <1>1, <1>11 DEF Active, Tiers
  <2>2. QED BY <1>1, <2>1 DEF Segment, BackBy
<1>16. ASSUME NEW j \in Active(0)'
       PROVE  /\ j \in Active(0) /\ d[j] \in IntervalType /\ Live(j) /\ now < d[j].end /\ Live(j)'
              /\ Segment(d[j]) /\ d[j].start <= d[j].end /\ d[j].start <= now /\ BackBy(d[j].id, now)
  <2>1. j \in Active(0) /\ j \notin dead /\ d[j] \in IntervalType
    BY <1>1, <1>11, <1>13 DEF Active
  <2>2. d[j].end \in Int /\ d[j].start \in Int
    BY <2>1 DEF IntervalType
  <2>3. now < d[j].end
    <3>1. ~ (d[j].end + prog.guard <= now)
      BY <1>2, <1>5, <1>10, <1>13, <2>1 DEF Expired
    <3>2. QED BY <2>2, <3>1 DEF RoomBelow
  <2>4. Live(j)
    BY <1>10, <1>13, <1>14, <2>1, <2>2, <2>3 DEF Live
  <2>5. Live(j)'
    BY <1>12, <1>13, <2>3 DEF Live
  <2>6. Segment(d[j]) /\ d[j].start <= d[j].end /\ d[j].start <= Now /\ BackBy(d[j].id, Now)
    BY <1>13, <2>1, <2>4 DEF SwapInv, InTierZero
  <2>7. BackBy(d[j].id, now)
    <3>1. \A i \in Active(1) : placed[1][i].end \in Int
      BY SwapTyped DEF SwapInv, IntervalType
    <3>2. QED BY <1>10, <1>14, <2>6, <3>1 DEF BackBy
  <2>8. d[j].start <= now
    BY <1>10, <1>14, <2>2, <2>6
  <2>9. QED BY <2>1, <2>3, <2>4, <2>5, <2>6, <2>7, <2>8
<1>17. PICK s \in Seq(FrameType) :
         /\ s = stack' /\ Len(s) = 1 /\ DOMAIN s = {1} /\ s[1].cur = iv /\ s[1].tier = 0
         /\ s[1].reload = NoInterval /\ s[1].excluded = {}
  <2>1. PICK c \in Seq(FrameType) : c = stack
    BY DEF ScanInv, StackTyped
  <2>2. DOMAIN c = {1} /\ Len(c) = 1
    BY <2>1
  <2>3. PICK f : f = [c[1] EXCEPT !.cur = iv, !.excluded = {}]
    OBVIOUS
  <2>4. f \in FrameType /\ f.cur = iv /\ f.reload = c[1].reload /\ f.tier = c[1].tier /\ f.excluded = {}
    <3>1. c[1] \in FrameType
      BY <1>4, <2>1
    <3>2. QED BY <1>8, <2>3, <3>1 DEF FrameType
  <2>5. ~ (iv.start >= iv.end)
    BY <1>8, <1>9 DEF IntervalType
  <2>6. stack' = [c EXCEPT ![1] = f]
    BY <1>2, <1>4, <2>1, <2>2, <2>3, <2>5 DEF SetTop
  <2>7. /\ [c EXCEPT ![1] = f] \in Seq(FrameType) /\ Len([c EXCEPT ![1] = f]) = Len(c)
        /\ DOMAIN [c EXCEPT ![1] = f] = DOMAIN c
    BY <2>4, Updated, SMTT(40)
  <2>8. [c EXCEPT ![1] = f][1] = f
    BY <2>2
  <2>9. QED BY <1>4, <1>5, <2>1, <2>2, <2>4, <2>6, <2>7, <2>8
<1>18. AtZero' /\ Hand' = {iv} /\ iv # NoInterval
  <2>1. s # << >>
    <3>1. DOMAIN << >> = {}
      OBVIOUS
    <3>2. 1 \in DOMAIN s
      BY <1>17
    <3>3. QED BY <3>1, <3>2
  <2>2. iv # NoInterval
    BY <1>8, NoIntervalIsNone
  <2>3. QED BY <1>17, <2>1, <2>2 DEF AtZero, Hand
<1>19. Pending' = {}
  BY <1>3, <1>11, <1>17 DEF Pending
<1>20. TwoCalls'
  <2>1. \A k \in Tiers' : k > 1 => unhandled'[k] = << >>
    <3>1. \A k \in Tiers : k > 1 => k # 0
      OBVIOUS
    <3>2. QED BY <1>11, <1>15, <3>1 DEF SwapInv, TwoCalls
  <2>2. Len(unhandled'[1]) <= 0
    <3>1. unhandled'[1] = << >> /\ Len(<< >>) = 0
      BY <1>3, <1>11
    <3>2. QED BY <3>1
  <2>3. QED BY <1>17, <2>1, <2>2 DEF TwoCalls
<1>21. Range(r) \cup {iv} \subseteq Range(q)
  BY <1>8
<1>22. InTierZero'
  <2>1. \A i, j \in DOMAIN r : i < j => r[i].start <= r[j].start
    <3>1. \A i, j \in DOMAIN r : i < j => i + 1 < j + 1
      BY <1>7
    <3>2. QED BY <1>6, <1>7, <3>1 DEF SwapInv, InTierZero
  <2>2. ASSUME NEW x \in Range(r) \cup {iv}
        PROVE  Segment(x) /\ x.start < x.end /\ now <= x.start /\ BackBy(x.id, x.start)
    <3>1. Segment(x) /\ x.start < x.end /\ BackBy(x.id, x.start)
      BY <1>6, <1>21 DEF SwapInv, InTierZero
    <3>2. CASE x = iv
      BY <1>10, <3>1, <3>2
    <3>3. CASE x \in Range(r)
      <4>1. PICK j \in DOMAIN r : r[j] = x
        BY <3>3, InRange
      <4>2. j + 1 \in DOMAIN q /\ x = q[j + 1] /\ j + 1 > 1
        BY <1>7, <4>1
      <4>3. QED BY <1>9, <1>10, <3>1, <4>2
    <3>4. QED BY <3>2, <3>3
  <2>3. QED BY <1>10, <1>11, <1>12, <1>13, <1>15, <1>16, <1>17, <1>18, <2>1, <2>2 DEF InTierZero
<1>23. OneHand'
  <2>1. \A i, j \in DOMAIN r : r[i].id = r[j].id => i = j
    <3>1. \A i, j \in DOMAIN r : i + 1 = j + 1 => i = j
      BY <1>7
    <3>2. QED BY <1>6, <1>7, <3>1 DEF SwapInv, OneHand
  <2>2. \A x \in Range(r) : x.id # iv.id
    <3>1. ASSUME NEW x \in Range(r) PROVE x.id # iv.id
      <4>1. PICK j \in DOMAIN r : r[j] = x
        BY InRange
      <4>2. j + 1 \in DOMAIN q /\ x = q[j + 1] /\ j + 1 > 1
        BY <1>7, <4>1
      <4>3. QED BY <1>9, <4>2
    <3>2. QED BY <3>1
  <2>3. \A x \in Range(r) \cup {iv} : \A j \in Active(0)' : x.id # d[j].id
    BY <1>6, <1>13, <1>16, <1>21 DEF SwapInv, OneHand
  <2>4. \A i, j \in Active(0)' : d[i].id = d[j].id => i = j
    BY <1>13, <1>16 DEF SwapInv, OneHand
  <2>5. QED BY <1>11, <1>13, <1>17, <1>18, <2>1, <2>2, <2>3, <2>4 DEF OneHand
<1>24. CutForThis'
  <2>1. \A j \in Active(0)' : d[j].id # iv.id
    BY <1>6, <1>8, <1>13, <1>16 DEF SwapInv, OneHand
  <2>2. QED BY <1>13, <1>16, <1>17, <2>1 DEF CutForThis
<1>25. InTierOne'
  <2>1. \A j \in Active(1) : placed[1][j].end \in Int
    BY SwapTyped DEF SwapInv, IntervalType
  <2>2. \A i, j \in Active(1) :
          placed[1][i].id = placed[1][j].id /\ now < placed[1][i].end /\ now < placed[1][j].end => i = j
    BY <1>10, <1>14, <2>1, SMTT(40) DEF SwapInv, InTierOne
  <2>3. QED BY <1>1, <1>12, <1>15, <1>19, <2>2 DEF SwapInv, InTierOne
<1>26. QED BY <1>1, <1>20, <1>22, <1>23, <1>24, <1>25 DEF SwapInv

(* What placing an interval does to its tier and its call.                  *)
LEMMA SwapPlaced ==
  ASSUME ScanInv, GuardInv, RoomBelow, SwapInv, Place, NEW k \in {0, 1}, k = Tier,
         NEW d \in Seq(IntervalType), d = placed[k]
  PROVE  /\ prog' = prog /\ unhandled' = unhandled /\ handled' = handled /\ taken' = taken
         /\ errors' = errors /\ stack # << >> /\ Cur # NoInterval
         /\ \A j \in Tiers : j # k => placed'[j] = placed[j]
         /\ \E e \in Seq(IntervalType), c \in IntervalType, x \in IntervalType :
              /\ placed'[k] = e /\ x = Cur /\ c.id = x.id /\ c.start = x.start /\ c.end = x.end
              /\ c.uses = x.uses /\ x.start < x.end
              /\ Len(d) + 1 \notin Active(k) /\ e[Len(d) + 1] = c
              /\ Active(k)' \subseteq Active(k) \cup {Len(d) + 1}
              /\ \A j \in Active(k) : e[j] = d[j]
         /\ \E s \in Seq(FrameType) :
              /\ s = stack' /\ Len(s) = Len(stack) /\ DOMAIN s = DOMAIN stack
              /\ s[Len(stack)].cur = NoInterval /\ s[Len(stack)].tier = k
              /\ s[Len(stack)].reload = Top.reload
              /\ \A i \in DOMAIN stack : i # Len(stack) => s[i] = stack[i]
<1>1. /\ prog' = prog /\ unhandled' = unhandled /\ errors' = errors
      /\ handled' = handled /\ taken' = taken /\ stack # << >> /\ Cur # NoInterval
      /\ stack' = SetTop([Top EXCEPT !.cur = NoInterval])
  BY DEF Place, Placing, Calling
<1>2. PICK o \in Room : placed' = [placed EXCEPT ![Tier] = Append(@, [Cur EXCEPT !.offset = o])]
  BY DEF Place
<1>3. k \in Tiers
  BY <1>1, TopTyped
<1>4. PICK x \in IntervalType : x = Cur
  BY <1>1, TopTyped
<1>5. x.start < x.end
  BY <1>1, <1>4, PlacingLast
<1>6. PICK c \in IntervalType :
        c = [x EXCEPT !.offset = o] /\ c.id = x.id /\ c.start = x.start /\ c.end = x.end /\ c.uses = x.uses
  <2>1. [x EXCEPT !.offset = o] \in IntervalType
    BY <1>1, <1>4, RoomIsTyped
  <2>2. PICK c \in IntervalType : c = [x EXCEPT !.offset = o]
    BY <2>1
  <2>3. c.id = x.id /\ c.start = x.start /\ c.end = x.end /\ c.uses = x.uses
    BY <2>2 DEF IntervalType
  <2>4. QED BY <2>2, <2>3
<1>7. placed'[k] = Append(d, c) /\ \A j \in Tiers : j # k => placed'[j] = placed[j]
  BY <1>2, <1>3, <1>4, <1>6 DEF ScanInv, QueuesTyped
<1>8. PICK e \in Seq(IntervalType) :
        /\ e = Append(d, c) /\ \A j \in DOMAIN d : e[j] = d[j]
        /\ e[Len(d) + 1] = c /\ DOMAIN e = DOMAIN d \cup {Len(d) + 1} /\ Len(d) + 1 \notin DOMAIN d
  <2>1. /\ Append(d, c) \in Seq(IntervalType) /\ Len(Append(d, c)) = Len(d) + 1
        /\ \A i \in DOMAIN d : Append(d, c)[i] = d[i]
        /\ Append(d, c)[Len(d) + 1] = c
    BY Appended
  <2>2. PICK e \in Seq(IntervalType) : e = Append(d, c)
    BY <2>1
  <2>3. PICK n \in Nat : n = Len(d) /\ DOMAIN d = 1 .. n
    BY LenProperties
  <2>4. DOMAIN e = 1 .. n + 1
    BY <2>1, <2>2, <2>3
  <2>5. 1 .. n + 1 = 1 .. n \cup {n + 1} /\ n + 1 \notin 1 .. n
    OBVIOUS
  <2>6. QED BY <2>1, <2>2, <2>3, <2>4, <2>5
<1>9. /\ Len(d) + 1 \notin Active(k) /\ Active(k)' \subseteq Active(k) \cup {Len(d) + 1}
      /\ \A j \in Active(k) : e[j] = d[j]
  BY <1>1, <1>7, <1>8 DEF Active
<1>10. \E s \in Seq(FrameType) :
         /\ s = stack' /\ Len(s) = Len(stack) /\ DOMAIN s = DOMAIN stack
         /\ s[Len(stack)].cur = NoInterval /\ s[Len(stack)].tier = k
         /\ s[Len(stack)].reload = Top.reload
         /\ \A i \in DOMAIN stack : i # Len(stack) => s[i] = stack[i]
  <2>1. PICK t \in FrameType : t = Top
    BY <1>1, TopTyped
  <2>2. PICK f : f = [t EXCEPT !.cur = NoInterval]
    OBVIOUS
  <2>3. f \in FrameType /\ f.cur = NoInterval /\ f.tier = t.tier /\ f.reload = t.reload
    BY <2>2 DEF FrameType
  <2>4. PICK c1 \in Seq(FrameType) : c1 = stack
    BY DEF ScanInv, StackTyped
  <2>5. PICK n \in DOMAIN c1 : n = Len(stack)
    BY <1>1, <2>4, TopTyped
  <2>6. PICK s : s = [c1 EXCEPT ![n] = f]
    OBVIOUS
  <2>7. s \in Seq(FrameType) /\ Len(s) = Len(c1) /\ DOMAIN s = DOMAIN c1
    BY <2>3, <2>6, Updated
  <2>8. s[n] = f /\ \A i \in DOMAIN c1 : i # n => s[i] = c1[i]
    BY <2>6
  <2>9. s = stack'
    BY <1>1, <2>1, <2>2, <2>4, <2>5, <2>6 DEF SetTop
  <2>10. f.tier = k /\ f.reload = Top.reload
    BY <2>1, <2>3 DEF Tier
  <2>11. QED BY <2>3, <2>4, <2>5, <2>7, <2>8, <2>9, <2>10
<1>11. \E y \in Seq(IntervalType), z \in IntervalType, w \in IntervalType :
              /\ placed'[k] = y /\ w = Cur /\ z.id = w.id /\ z.start = w.start /\ z.end = w.end
              /\ z.uses = w.uses /\ w.start < w.end
              /\ Len(d) + 1 \notin Active(k) /\ y[Len(d) + 1] = z
              /\ Active(k)' \subseteq Active(k) \cup {Len(d) + 1}
              /\ \A j \in Active(k) : y[j] = d[j]
  <2>1. placed'[k] = e
    BY <1>7, <1>8
  <2> WITNESS e \in Seq(IntervalType), c \in IntervalType, x \in IntervalType
  <2>2. QED BY <1>4, <1>5, <1>6, <1>8, <1>9, <2>1
<1>12. QED BY <1>1, <1>7, <1>10, <1>11

(* Tier 0 places what it took.                                              *)
LEMMA SwapPlaceZero ==
  ASSUME ScanInv, GuardInv, RoomBelow, SwapInv, Place, Len(stack) = 1
  PROVE  SwapInv'
<1>1. stack # << >> /\ Cur # NoInterval
  BY DEF Place, Placing, Calling
<1>2. /\ Top = stack[1] /\ Tier = 0 /\ Cur = stack[1].cur /\ AtZero
      /\ 1 \in DOMAIN stack /\ stack[1].reload = NoInterval
  BY <1>1, SwapCall DEF SwapInv, TwoCalls
<1>3. PICK d \in Seq(IntervalType) : d = placed[0] /\ Active(0) \subseteq DOMAIN d
  BY SwapTyped DEF SwapInv
<1>4. /\ prog' = prog /\ unhandled' = unhandled /\ handled' = handled /\ taken' = taken
      /\ errors' = errors /\ 1 \in Tiers /\ placed'[1] = placed[1]
  <2>1. 1 \in Tiers /\ 1 # 0
    BY SwapTyped DEF SwapInv
  <2>2. QED BY <1>2, <1>3, <2>1, SwapPlaced
<1>5. PICK e \in Seq(IntervalType), c \in IntervalType, x \in IntervalType, m \in Nat :
        /\ placed'[0] = e /\ x = Cur /\ c.id = x.id /\ c.start = x.start /\ c.end = x.end
        /\ c.uses = x.uses /\ x.start < x.end
        /\ m \notin Active(0) /\ e[m] = c
        /\ Active(0)' \subseteq Active(0) \cup {m}
        /\ \A j \in Active(0) : e[j] = d[j]
  <2>1. Len(d) + 1 \in Nat
    OBVIOUS
  <2>2. QED BY <1>2, <1>3, <2>1, SwapPlaced
<1>6. PICK s \in Seq(FrameType) :
        s = stack' /\ Len(s) = 1 /\ DOMAIN s = DOMAIN stack /\ s[1].cur = NoInterval
        /\ s[1].tier = 0 /\ s[1].reload = NoInterval
  BY <1>2, <1>3, SwapPlaced
<1>7. Hand' = {}
  BY <1>6 DEF Hand
<1>8. x \in Hand
  BY <1>1, <1>2, <1>5 DEF Hand
<1>9. unhandled[1] = << >> /\ Range(unhandled[1]) = {}
  BY SwapTyped DEF SwapInv
<1>10. Pending' = {}
  BY <1>4, <1>6, <1>9 DEF Pending
<1>11. /\ Now' = Now /\ Active(1)' = Active(1) /\ Tiers' = Tiers
       /\ \A iv : Segment(iv)' = Segment(iv)
       /\ \A id, t : BackBy(id, t)' = BackBy(id, t)
  <2>1. Now' = Now /\ Active(1)' = Active(1) /\ Tiers' = Tiers
    BY <1>4 DEF Now, Active, Tiers
  <2>2. QED BY <1>4, <2>1 DEF Segment, BackBy
<1>12. /\ Segment(c) /\ c.start = Now /\ c.start < c.end /\ BackBy(c.id, Now) /\ Now \in Int
       /\ \A iv \in Range(unhandled[0]) : iv.id # c.id
       /\ \A j \in Active(0) : d[j].id # c.id
  <2>1. Segment(x) /\ x.start = Now /\ BackBy(x.id, x.start)
    BY <1>1, <1>2, <1>5, <1>8 DEF SwapInv, InTierZero
  <2>2. \A iv \in Range(unhandled[0]) : iv.id # x.id
    BY <1>8 DEF SwapInv, OneHand
  <2>3. \A j \in Active(0) : d[j].id # x.id
    BY <1>1, <1>2, <1>3, <1>5 DEF SwapInv, CutForThis
  <2>4. Segment(c)
    BY <1>5, <2>1 DEF Segment
  <2>5. x.start \in Int
    BY DEF IntervalType
  <2>6. QED BY <1>5, <2>1, <2>2, <2>3, <2>4, <2>5
<1>13. ASSUME NEW j \in Active(0)', j # m
       PROVE  j \in Active(0) /\ e[j] = d[j] /\ (Live(j)' => Live(j))
  <2>1. j \in Active(0) /\ e[j] = d[j]
    BY <1>5, <1>13
  <2>2. QED BY <1>3, <1>5, <1>11, <2>1 DEF Live
<1>14. TwoCalls'
  <2>1. \A i \in DOMAIN s : s[i].cur = NoInterval
    BY <1>6
  <2>2. Len(unhandled'[1]) <= 0
    BY <1>4, <1>6 DEF SwapInv, TwoCalls
  <2>3. QED BY <1>4, <1>6, <1>11, <2>1, <2>2 DEF SwapInv, TwoCalls
<1>15. ~ (AtZero /\ stack[1].cur # NoInterval)'
  BY <1>6
<1>16. InTierZero'
  <2>1. ASSUME NEW j \in Active(0)'
        PROVE  /\ Segment(e[j]) /\ e[j].start <= e[j].end /\ e[j].start <= Now
               /\ Live(j)' => BackBy(e[j].id, Now)
    <3>1. CASE j = m
      <4>1. c.start <= c.end /\ c.start <= Now
        BY <1>12 DEF IntervalType
      <4>2. QED BY <1>5, <1>12, <3>1, <4>1
    <3>2. CASE j # m
      BY <1>3, <1>13, <3>2 DEF SwapInv, InTierZero
    <3>3. QED BY <3>1, <3>2
  <2>2. \A iv \in Range(unhandled[0]) :
          Segment(iv) /\ iv.start < iv.end /\ Now <= iv.start /\ BackBy(iv.id, iv.start)
    BY DEF SwapInv, InTierZero
  <2>3. \A i, j \in DOMAIN unhandled[0] : i < j => unhandled[0][i].start <= unhandled[0][j].start
    BY DEF SwapInv, InTierZero
  <2>4. QED BY <1>4, <1>5, <1>7, <1>11, <1>15, <2>1, <2>2, <2>3 DEF InTierZero
<1>17. OneHand'
  <2>1. \A i, j \in Active(0)' : e[i].id = e[j].id => i = j
    <3>1. ASSUME NEW i \in Active(0)', NEW j \in Active(0)', e[i].id = e[j].id PROVE i = j
      <4>1. CASE i = m
        BY <1>5, <1>12, <1>13, <3>1, <4>1
      <4>2. CASE j = m
        BY <1>5, <1>12, <1>13, <3>1, <4>2
      <4>3. CASE i # m /\ j # m
        BY <1>3, <1>13, <3>1, <4>3 DEF SwapInv, OneHand
      <4>4. QED BY <4>1, <4>2, <4>3
    <3>2. QED BY <3>1
  <2>2. ASSUME NEW iv \in Range(unhandled[0]), NEW j \in Active(0)', Live(j)'
        PROVE  iv.id # e[j].id
    <3>1. CASE j = m
      BY <1>5, <1>12, <3>1
    <3>2. CASE j # m
      BY <1>3, <1>13, <2>2, <3>2 DEF SwapInv, OneHand
    <3>3. QED BY <3>1, <3>2
  <2>3. \A i, j \in DOMAIN unhandled[0] : unhandled[0][i].id = unhandled[0][j].id => i = j
    BY DEF SwapInv, OneHand
  <2>4. QED BY <1>4, <1>5, <1>7, <1>15, <2>1, <2>2, <2>3 DEF OneHand
<1>18. CutForThis'
  BY <1>15 DEF CutForThis
<1>19. InTierOne'
  BY <1>4, <1>10, <1>11 DEF SwapInv, InTierOne
<1>20. QED BY <1>4, <1>14, <1>16, <1>17, <1>18, <1>19 DEF SwapInv

(* Tier 1 places what was spilled.                                          *)
LEMMA SwapPlaceOne ==
  ASSUME ScanInv, GuardInv, RoomBelow, SwapInv, Place, Len(stack) # 1
  PROVE  SwapInv'
<1>1. stack # << >> /\ Cur # NoInterval
  BY DEF Place, Placing, Calling
<1>2. /\ Len(stack) = 2 /\ 1 \in DOMAIN stack /\ 2 \in DOMAIN stack /\ Top = stack[2]
      /\ Tier = 1 /\ Cur = stack[2].cur /\ AtZero /\ stack[1].cur # NoInterval
      /\ stack[2].reload = NoInterval
  BY <1>1, SwapCall DEF SwapInv, TwoCalls
<1>3. PICK d \in Seq(IntervalType) : d = placed[1] /\ Active(1) \subseteq DOMAIN d
  BY SwapTyped DEF SwapInv
<1>4. /\ prog' = prog /\ unhandled' = unhandled /\ handled' = handled /\ taken' = taken
      /\ errors' = errors /\ 0 \in Tiers /\ placed'[0] = placed[0]
  <2>1. 0 \in Tiers /\ 1 # 0
    BY SwapTyped DEF SwapInv
  <2>2. QED BY <1>2, <1>3, <2>1, SwapPlaced
<1>5. PICK e \in Seq(IntervalType), c \in IntervalType, x \in IntervalType, m \in Nat :
        /\ placed'[1] = e /\ x = Cur /\ c.id = x.id /\ c.start = x.start /\ c.end = x.end
        /\ c.uses = x.uses /\ x.start < x.end
        /\ m \notin Active(1) /\ e[m] = c
        /\ Active(1)' \subseteq Active(1) \cup {m}
        /\ \A j \in Active(1) : e[j] = d[j]
  <2>1. Len(d) + 1 \in Nat
    OBVIOUS
  <2>2. QED BY <1>2, <1>3, <2>1, SwapPlaced, SMTT(40)
<1>6. PICK s \in Seq(FrameType) :
        s = stack' /\ Len(s) = 2 /\ DOMAIN s = DOMAIN stack /\ s[1] = stack[1] /\ s[2].cur = NoInterval
        /\ s[2].reload = NoInterval
  <2>1. 1 # 2
    OBVIOUS
  <2>2. QED BY <1>2, <1>3, <2>1, SwapPlaced
<1>7. AtZero' /\ Hand' = Hand /\ stack'[1] = stack[1]
  <2>1. s # << >>
    <3>1. DOMAIN << >> = {}
      OBVIOUS
    <3>2. 1 \in DOMAIN s
      BY <1>2, <1>6
    <3>3. QED BY <3>1, <3>2
  <2>2. QED BY <1>2, <1>6, <2>1 DEF AtZero, Hand
<1>8. x \in Pending
  BY <1>1, <1>2, <1>5 DEF Pending
<1>9. unhandled[1] = << >> /\ Range(unhandled[1]) = {} /\ Len(unhandled[1]) = 0
  <2>1. unhandled[1] = << >> /\ Range(unhandled[1]) = {}
    BY <1>1, <1>2, SwapTyped DEF SwapInv
  <2>2. Len(<< >>) = 0
    OBVIOUS
  <2>3. QED BY <2>1, <2>2
<1>10. Pending' = {}
  BY <1>4, <1>6, <1>9 DEF Pending
<1>11. /\ Now' = Now /\ Active(0)' = Active(0) /\ Tiers' = Tiers
       /\ \A j : Live(j)' = Live(j)
       /\ \A iv : Segment(iv)' = Segment(iv)
  <2>1. Now' = Now /\ Active(0)' = Active(0) /\ Tiers' = Tiers
    BY <1>4 DEF Now, Active, Tiers
  <2>2. QED BY <1>4, <2>1 DEF Segment, Live
<1>12. /\ c.id = IdOf(c.id.buf) /\ c.start = Now /\ c.start < c.end /\ BackBy(c.id, Now)
       /\ \A iv \in Range(unhandled[0]) : iv.id # c.id
       /\ c.id # stack[1].cur.id
       /\ stack[1].reload # NoInterval /\ stack[1].reload.id = c.id => c.end <= stack[1].reload.start
       /\ \A j \in Active(0) : Live(j) => placed[0][j].id # c.id
  BY <1>5, <1>8 DEF SwapInv, InTierOne
<1>13. ASSUME NEW j \in Active(1)', j # m PROVE j \in Active(1) /\ e[j] = d[j]
  BY <1>5, <1>13
<1>14. ASSUME NEW id, NEW t, BackBy(id, t), id = c.id => c.end <= t
       PROVE  BackBy(id, t)'
  BY <1>3, <1>5, <1>13, <1>14 DEF BackBy
<1>15. TwoCalls'
  <2>1. \A i \in DOMAIN s : s[i].cur # NoInterval => s[i].tier = i - 1
    BY <1>2, <1>6 DEF SwapInv, TwoCalls
  <2>2. QED BY <1>4, <1>6, <1>7, <1>9, <1>11, <2>1 DEF SwapInv, TwoCalls
<1>16. InTierZero'
  <2>1. ASSUME NEW iv \in Range(unhandled[0]) \cup Hand
        PROVE  Segment(iv) /\ iv.start < iv.end /\ Now <= iv.start /\ BackBy(iv.id, iv.start)'
    <3>1. Segment(iv) /\ iv.start < iv.end /\ Now <= iv.start /\ BackBy(iv.id, iv.start)
      BY DEF SwapInv, InTierZero
    <3>2. iv.id = c.id => c.end <= iv.start
      BY <1>2, <1>12 DEF Hand
    <3>3. QED BY <1>14, <3>1, <3>2
  <2>2. ASSUME NEW j \in Active(0)
        PROVE  /\ Segment(placed[0][j]) /\ placed[0][j].start <= placed[0][j].end
               /\ placed[0][j].start <= Now
               /\ Live(j) => BackBy(placed[0][j].id, Now)'
    <3>1. /\ Segment(placed[0][j]) /\ placed[0][j].start <= placed[0][j].end
          /\ placed[0][j].start <= Now
          /\ Live(j) => BackBy(placed[0][j].id, Now)
      BY DEF SwapInv, InTierZero
    <3>2. PICK id, t : id = placed[0][j].id /\ t = Now
      OBVIOUS
    <3>3. Live(j) => BackBy(id, t)'
      BY <1>12, <1>14, <3>1, <3>2
    <3>4. BackBy(id, t)' => BackBy(placed[0][j].id, Now)'
      BY <1>4, <1>11, <3>2 DEF BackBy
    <3>5. QED BY <3>1, <3>3, <3>4
  <2>3. /\ \A i, j \in DOMAIN unhandled[0] : i < j => unhandled[0][i].start <= unhandled[0][j].start
        /\ AtZero /\ stack[1].cur # NoInterval => stack[1].cur.start = Now
    BY DEF SwapInv, InTierZero
  <2>4. QED BY <1>2, <1>4, <1>7, <1>11, <2>1, <2>2, <2>3 DEF InTierZero
<1>17. OneHand'
  BY <1>2, <1>4, <1>7, <1>11 DEF SwapInv, OneHand
<1>18. CutForThis'
  BY <1>2, <1>4, <1>7, <1>11 DEF SwapInv, CutForThis
<1>19. InTierOne'
  <2>1. ASSUME NEW j \in Active(1)' PROVE e[j].id = IdOf(e[j].id.buf) /\ e[j].start < e[j].end
    BY <1>3, <1>5, <1>12, <1>13 DEF SwapInv, InTierOne
  <2>2. \A j \in Active(1) : d[j].end \in Int /\ Now \in Int
    <3>1. \A j \in Active(1) : d[j].end \in Int
      <4>1. \A j \in Active(1) : d[j] \in IntervalType
        BY <1>3
      <4>2. QED BY <4>1 DEF IntervalType
    <3>2. c.start \in Int
      BY DEF IntervalType
    <3>3. QED BY <1>12, <3>1, <3>2
  <2>3. ASSUME NEW i \in Active(1)', NEW j \in Active(1)', e[i].id = e[j].id, Now < e[i].end, Now < e[j].end
        PROVE  i = j
    <3>1. ASSUME NEW y \in Active(1), d[y].id = c.id PROVE ~ (Now < d[y].end)
      BY <1>3, <1>12, <2>2, <3>1 DEF BackBy
    <3>2. CASE i = m
      BY <1>5, <1>13, <2>3, <3>1, <3>2
    <3>3. CASE j = m
      BY <1>5, <1>13, <2>3, <3>1, <3>3
    <3>4. CASE i # m /\ j # m
      BY <1>3, <1>13, <2>3, <3>4 DEF SwapInv, InTierOne
    <3>5. QED BY <3>2, <3>3, <3>4
  <2>4. QED BY <1>5, <1>10, <1>11, <2>1, <2>3 DEF InTierOne
<1>20. QED BY <1>4, <1>15, <1>16, <1>17, <1>18, <1>19 DEF SwapInv

(* The call of tier 1 returns, and what was evicted is queued to come back. *)
LEMMA SwapReturnTwo ==
  ASSUME ScanInv, RoomBelow, SwapInv, Return, Len(stack) # 1
  PROVE  SwapInv'
<1>1. /\ prog' = prog /\ errors' = errors /\ taken' = taken /\ placed' = placed
      /\ handled' = handled /\ stack # << >> /\ Cur = NoInterval
  BY DEF Return, Idle, Calling
<1>2. /\ Len(stack) = 2 /\ 1 \in DOMAIN stack /\ 2 \in DOMAIN stack /\ Cur = stack[2].cur
      /\ Tier = 1 /\ AtZero /\ stack[1].cur # NoInterval /\ stack[1].tier = 0
  BY <1>1, SwapCall DEF SwapInv, AtZero
<1>3. 0 \in Tiers /\ 1 \in Tiers /\ unhandled[0] \in Seq(IntervalType)
  BY SwapTyped DEF SwapInv
<1>4. unhandled[1] = << >>
  BY <1>2 DEF Return
<1>5. PICK a \in FrameType : a = stack[1]
  BY <1>2 DEF ScanInv, StackTyped
<1>6. /\ stack' = Append(SubSeq(stack, 1, Len(stack) - 2), [stack[Len(stack) - 1] EXCEPT !.reload = NoInterval])
      /\ unhandled' = IF stack[Len(stack) - 1].reload = NoInterval THEN unhandled
                      ELSE [unhandled EXCEPT ![stack[Len(stack) - 1].tier] =
                              AddUnhandled(@, stack[Len(stack) - 1].reload)]
  BY <1>2 DEF Return
<1>7. Len(stack) - 1 = 1 /\ Len(stack) - 2 = 0
  BY <1>2
<1>8. PICK f : f = [a EXCEPT !.reload = NoInterval]
  OBVIOUS
<1>9. /\ f.reload = NoInterval /\ f.cur = a.cur /\ f.tier = a.tier
      /\ f.excluded = a.excluded
  BY <1>8 DEF FrameType
<1>10. PICK s : s = stack' /\ Len(s) = 1 /\ DOMAIN s = {1} /\ s[1] = f
  <2>1. PICK c \in Seq(FrameType) : c = stack
    BY DEF ScanInv, StackTyped
  <2>2. SubSeq(c, 1, 0) = << >>
    OBVIOUS
  <2>3. stack' = Append(<< >>, f)
    BY <1>5, <1>6, <1>7, <1>8, <2>1, <2>2
  <2>4. Append(<< >>, f) = <<f>>
    OBVIOUS
  <2>5. Len(<<f>>) = 1 /\ DOMAIN <<f>> = {1} /\ <<f>>[1] = f
    OBVIOUS
  <2>6. QED BY <2>3, <2>4, <2>5
<1>11. PICK q \in Seq(IntervalType) : q = unhandled[0]
  BY <1>3
<1>12. PICK r \in Seq(IntervalType) :
         /\ unhandled'[0] = r
         /\ Range(r) \subseteq Range(q) \cup (Hand \ {a.cur})
         /\ \A i, j \in DOMAIN r : i < j => r[i].start <= r[j].start
         /\ \A i, j \in DOMAIN r : r[i].id = r[j].id => i = j
         /\ \A k \in Tiers : k # 0 => unhandled'[k] = unhandled[k]
  <2>1. /\ \A i, j \in DOMAIN q : i < j => q[i].start <= q[j].start
        /\ \A i, j \in DOMAIN q : q[i].id = q[j].id => i = j
    BY <1>11 DEF SwapInv, InTierZero, OneHand
  <2>2. CASE a.reload = NoInterval
    <3>1. unhandled' = unhandled
      BY <1>5, <1>6, <1>7, <2>2
    <3>2. QED BY <1>11, <2>1, <3>1
  <2>3. CASE a.reload # NoInterval
    <3>1. PICK x \in IntervalType : x = a.reload
      BY <2>3 DEF FrameType
    <3>2. PICK r : r = AddUnhandled(q, x)
      OBVIOUS
    <3>3. /\ r \in Seq(IntervalType) /\ Range(r) = Range(q) \cup {x} /\ Len(r) = Len(q) + 1
          /\ \A i, j \in DOMAIN r : i < j => r[i].start <= r[j].start
          /\ \E p \in DOMAIN r : /\ r[p] = x
                                 /\ \A i \in DOMAIN r : i < p => i \in DOMAIN q /\ r[i] = q[i]
                                 /\ \A i \in DOMAIN r : i > p => i - 1 \in DOMAIN q /\ r[i] = q[i - 1]
      <4>1. \A i, j \in DOMAIN q : i < j => q[i].start <= q[j].start
        BY <2>1
      <4>2. QED BY ONLY q \in Seq(IntervalType), x \in IntervalType, <3>2, <4>1, QueuedInOrder, ZenonT(60)
    <3>4. /\ unhandled'[0] = r /\ \A k \in Tiers : k # 0 => unhandled'[k] = unhandled[k]
      <4>1. unhandled' = [unhandled EXCEPT ![0] = r]
        BY <1>2, <1>3, <1>5, <1>6, <1>7, <1>11, <2>3, <3>1, <3>2 DEF ScanInv, QueuesTyped
      <4>2. QED BY <1>3, <4>1 DEF ScanInv, QueuesTyped
    <3>5. x \in Hand \ {a.cur} /\ \A y \in Range(q) : y.id # x.id
      <4>1. x \in Hand
        BY <1>2, <1>5, <2>3, <3>1 DEF Hand
      <4>2. a.cur.id # x.id
        BY <1>2, <1>5, <2>3, <3>1 DEF SwapInv, OneHand
      <4>3. QED BY <1>11, <4>1, <4>2 DEF SwapInv, OneHand
    <3>6. \A i, j \in DOMAIN r : r[i].id = r[j].id => i = j
      <4>1. PICK p \in DOMAIN r : /\ r[p] = x
                                  /\ \A i \in DOMAIN r : i < p => i \in DOMAIN q /\ r[i] = q[i]
                                  /\ \A i \in DOMAIN r : i > p => i - 1 \in DOMAIN q /\ r[i] = q[i - 1]
        BY <3>3
      <4>2. \A i \in DOMAIN r : i \in Int
        BY <3>3
      <4>3. ASSUME NEW i \in DOMAIN r, NEW j \in DOMAIN r, r[i].id = r[j].id, i < j PROVE FALSE
        <5>1. CASE i = p
          <6>1. j - 1 \in DOMAIN q /\ r[j] = q[j - 1]
            BY <4>1, <4>3, <5>1
          <6>2. QED BY <3>5, <4>1, <4>3, <5>1, <6>1, InRange
        <5>2. CASE j = p
          <6>1. i \in DOMAIN q /\ r[i] = q[i]
            BY <4>1, <4>3, <5>2
          <6>2. QED BY <3>5, <4>1, <4>3, <5>2, <6>1, InRange
        <5>3. CASE j < p
          <6>1. i \in DOMAIN q /\ r[i] = q[i] /\ j \in DOMAIN q /\ r[j] = q[j]
            BY <4>1, <4>2, <4>3, <5>3
          <6>2. QED BY <2>1, <4>2, <4>3, <6>1
        <5>4. CASE i < p /\ p < j
          <6>1. i \in DOMAIN q /\ r[i] = q[i] /\ j - 1 \in DOMAIN q /\ r[j] = q[j - 1]
            BY <4>1, <5>4
          <6>2. i # j - 1
            BY <4>2, <5>4
          <6>3. QED BY <2>1, <4>3, <6>1, <6>2
        <5>5. CASE p < i
          <6>1. i - 1 \in DOMAIN q /\ r[i] = q[i - 1] /\ j - 1 \in DOMAIN q /\ r[j] = q[j - 1]
            BY <4>1, <4>2, <4>3, <5>5
          <6>2. i - 1 # j - 1
            BY <4>2, <4>3
          <6>3. QED BY <2>1, <4>3, <6>1, <6>2
        <5>6. QED BY <4>2, <5>1, <5>2, <5>3, <5>4, <5>5
      <4>4. QED BY <4>2, <4>3
    <3>7. QED BY <3>3, <3>4, <3>5, <3>6
  <2>4. QED BY <2>2, <2>3
<1>13. AtZero' /\ Hand' = {a.cur} /\ {a.cur} \subseteq Hand
  <2>1. s # << >>
    <3>1. DOMAIN << >> = {}
      OBVIOUS
    <3>2. QED BY <1>10, <3>1
  <2>2. AtZero'
    BY <1>2, <1>5, <1>9, <1>10, <2>1 DEF AtZero
  <2>3. QED BY <1>2, <1>5, <1>9, <1>10, <2>2 DEF Hand
<1>14. Pending' = {}
  <2>1. Range(unhandled'[1]) = {}
    <3>1. unhandled'[1] = << >>
      BY <1>3, <1>4, <1>12
    <3>2. DOMAIN << >> = {}
      OBVIOUS
    <3>3. QED BY <3>1, <3>2, InRange
  <2>2. QED BY <1>10, <2>1 DEF Pending
<1>15. /\ Now' = Now /\ Active(0)' = Active(0) /\ Active(1)' = Active(1) /\ Tiers' = Tiers
       /\ \A j : Live(j)' = Live(j)
       /\ \A iv : Segment(iv)' = Segment(iv)
       /\ \A id, t : BackBy(id, t)' = BackBy(id, t)
  BY <1>1 DEF Now, Active, Tiers, Live, Segment, BackBy
<1>16. TwoCalls'
  <2>1. \A k \in Tiers' : k > 1 => unhandled'[k] = << >>
    <3>1. \A k \in Tiers : k > 1 => k # 0
      OBVIOUS
    <3>2. QED BY <1>12, <1>15, <3>1 DEF SwapInv, TwoCalls
  <2>2. Len(unhandled'[1]) <= 0
    <3>1. unhandled'[1] = << >> /\ Len(<< >>) = 0
      BY <1>3, <1>4, <1>12
    <3>2. QED BY <3>1
  <2>3. s[1].reload = NoInterval /\ s[1].tier = 1 - 1
    BY <1>2, <1>5, <1>9, <1>10
  <2>4. QED BY <1>10, <2>1, <2>2, <2>3 DEF TwoCalls
<1>17. stack'[1].cur = stack[1].cur /\ stack'[1].excluded = stack[1].excluded /\ stack'[1].reload = NoInterval
  BY <1>5, <1>9, <1>10
<1>18. Range(r) \cup Hand' \subseteq Range(unhandled[0]) \cup Hand
  BY <1>11, <1>12, <1>13
<1>19. InTierZero'
  <2>1. \A iv \in Range(unhandled'[0]) \cup Hand' :
          Segment(iv) /\ iv.start < iv.end /\ Now <= iv.start /\ BackBy(iv.id, iv.start)
    BY <1>12, <1>18 DEF SwapInv, InTierZero
  <2>2. QED BY <1>1, <1>2, <1>12, <1>15, <1>17, <2>1 DEF SwapInv, InTierZero
<1>20. OneHand'
  <2>1. ASSUME NEW y \in Range(r) PROVE y.id # a.cur.id
    <3>1. CASE y \in Range(q)
      BY <1>11, <1>13, <3>1 DEF SwapInv, OneHand
    <3>2. CASE y \in Hand \ {a.cur}
      BY <1>2, <1>5, <3>2 DEF Hand, SwapInv, OneHand
    <3>3. QED BY <1>12, <3>1, <3>2
  <2>2. \A iv \in Range(unhandled'[0]) \cup Hand' : \A j \in Active(0) : Live(j) => iv.id # placed[0][j].id
    BY <1>12, <1>18 DEF SwapInv, OneHand
  <2>3. \A i, j \in Active(0) : placed[0][i].id = placed[0][j].id => i = j
    BY DEF SwapInv, OneHand
  <2>4. QED BY <1>1, <1>12, <1>13, <1>15, <1>17, <2>1, <2>2, <2>3 DEF OneHand
<1>21. CutForThis'
  BY <1>1, <1>2, <1>15, <1>17 DEF SwapInv, CutForThis
<1>22. InTierOne'
  BY <1>1, <1>14, <1>15 DEF SwapInv, InTierOne
<1>23. QED BY <1>1, <1>16, <1>19, <1>20, <1>21, <1>22 DEF SwapInv

(* A reload starts at a use of its buffer, or there is none.                *)
LEMMA NextUseIsUse ==
  ASSUME NEW a \in IntervalType, NEW now \in Int, now = Cur.start, now < a.end,
         \A u \in a.uses : u < a.end
  PROVE  /\ now <= NextUse(a) /\ NextUse(a) < a.end /\ NextUse(a) \in Int
         /\ {u \in a.uses : u >= NextUse(a)} # {} => NextUse(a) \in a.uses
<1>1. PICK n \in Int : n = NextUse(a)
  BY NextUseTyped
<1>2. PICK end \in Int, us \in SUBSET Nat : end = a.end /\ us = a.uses
  BY DEF IntervalType
<1>3. PICK later \in SUBSET Nat : later = {u \in us : u > now}
  OBVIOUS
<1>4. CASE later = {}
  <2>1. n = end - 1
    BY <1>1, <1>2, <1>3, <1>4 DEF NextUse
  <2>2. now <= n /\ n < end
    BY <1>2, <2>1
  <2>3. \A u \in us : u < end /\ (u >= n => u = n)
    BY <1>2, <2>1
  <2>4. QED BY <1>1, <1>2, <2>2, <2>3
<1>5. CASE later # {}
  <2>1. n = Min(later)
    BY <1>1, <1>2, <1>3, <1>5 DEF NextUse
  <2>2. n \in later
    BY <1>5, <2>1, MinIsLeast
  <2>3. n \in us /\ now <= n
    BY <1>3, <2>2
  <2>4. QED BY <1>1, <1>2, <2>3
<1>6. QED BY <1>4, <1>5

(* Tier 0 evicts a buffer that lives on: it waits for tier 1, and the call  *)
(* keeps its reload.                                                        *)
LEMMA SwapSpill ==
  ASSUME ScanInv, GuardInv, RoomBelow, SwapInv, Spill
  PROVE  SwapInv'
<1>1. /\ prog' = prog /\ taken' = taken /\ handled' = handled /\ stack # << >> /\ Cur # NoInterval
      /\ errors' = errors
  BY SpillStep DEF Spill
<1>2. PICK v \in Victims, i \in DOMAIN placed[Tier], a \in IntervalType, next \in Int,
           uses \in SUBSET Nat, reloads \in BOOLEAN : Evicts(v, i, a, next, uses, reloads)
  BY SpillStep
<1>3. Tier = 0
  <2>1. SureRoom = {}
    BY DEF Spill, CanSpill
  <2>2. QED BY <1>1, <2>1, RoomOrVictim
<1>4. /\ 0 \in Tiers /\ 1 \in Tiers /\ unhandled[1] \in Seq(IntervalType)
  BY SwapTyped DEF SwapInv
<1>5. /\ Len(stack) = 1 /\ Top = stack[1] /\ Cur = stack[1].cur /\ AtZero /\ 1 \in DOMAIN stack
      /\ stack[1] \in FrameType /\ stack[1].reload = NoInterval /\ stack[1].tier = 0
  <2>1. Len(stack) = 1
    BY <1>1, <1>3, SwapCall DEF SwapInv
  <2>2. QED BY <1>1, <1>3, <2>1, SwapCall DEF SwapInv, TwoCalls
<1>6. unhandled[1] = << >> /\ Range(unhandled[1]) = {} /\ Len(unhandled[1]) = 0
  <2>1. unhandled[1] = << >> /\ Range(unhandled[1]) = {}
    BY <1>5, SwapTyped DEF SwapInv
  <2>2. Len(<< >>) = 0
    OBVIOUS
  <2>3. QED BY <2>1, <2>2
<1>7. PICK d \in Seq(IntervalType) : d = placed[0] /\ Active(0) \subseteq DOMAIN d
  BY SwapTyped DEF SwapInv
<1>8. /\ i \in Active(0) /\ i \in DOMAIN d /\ d[i] = a /\ a.id = v /\ v \notin stack[1].excluded /\ v \in Ids
      /\ Sound(a)
  <2>1. i = First(Tier, v) /\ a = placed[Tier][i]
    BY <1>2 DEF Evicts
  <2>2. /\ First(Tier, v) \in Active(Tier) /\ placed[Tier][First(Tier, v)].id = v
        /\ v \notin Top.excluded /\ v \in Ids /\ Sound(placed[Tier][First(Tier, v)])
    BY <1>1, VictimIsActive
  <2>3. QED BY <1>2, <1>3, <1>5, <1>7, <2>1, <2>2
<1>9. PICK c \in IntervalType : c = Cur /\ c = stack[1].cur /\ c \in Hand
  <2>1. PICK c \in IntervalType : c = Cur
    BY <1>1, TopTyped
  <2>2. c \in Hand
    BY <1>1, <1>5, <2>1 DEF Hand
  <2>3. QED BY <1>5, <2>1, <2>2
<1>10. PICK now \in Nat :
         now = Now /\ now = Cur.start /\ Segment(c) /\ now <= Len(prog.ops) + 1 /\ now \in Times(prog)
  <2>1. Segment(c) /\ c.start = Now
    BY <1>1, <1>5, <1>9 DEF SwapInv, InTierZero
  <2>2. Times(prog) = 1 .. Len(prog.ops) /\ Len(prog.ops) \in Nat
    BY FunctionTyped DEF ScanInv
  <2>3. c.start \in 1 .. Len(prog.ops)
    BY <2>1, <2>2 DEF Segment
  <2>4. c.start \in Nat /\ c.start <= Len(prog.ops) + 1
    BY <2>2, <2>3
  <2>5. QED BY <1>9, <2>1, <2>2, <2>3, <2>4
<1>11. /\ Live(i) /\ now < a.end /\ Segment(a) /\ a.start <= now /\ BackBy(a.id, now)
       /\ a.id # c.id
  <2>1. Live(i)
    BY <1>1, <1>5, <1>7, <1>8 DEF SwapInv, CutForThis
  <2>2. now < a.end
    BY <1>7, <1>8, <1>10, <2>1 DEF Live
  <2>3. Segment(a) /\ a.start <= now /\ BackBy(a.id, now)
    BY <1>7, <1>8, <1>10, <2>1 DEF SwapInv, InTierZero
  <2>4. a.id # c.id
    BY <1>1, <1>5, <1>7, <1>8, <1>9 DEF SwapInv, CutForThis
  <2>5. QED BY <2>1, <2>2, <2>3, <2>4
<1>12. /\ next = NextUse(a) /\ uses = {u \in a.uses : u >= next} /\ now <= next /\ next < a.end
       /\ reloads => next \in a.uses
  <2>1. next = NextUse(a) /\ uses = {u \in a.uses : u >= next} /\ (reloads => uses # {})
    BY <1>2 DEF Evicts
  <2>2. \A u \in a.uses : u < a.end
    BY <1>8 DEF Sound
  <2>3. QED BY <1>10, <1>11, <2>1, <2>2, NextUseIsUse
<1>13. PICK x \in IntervalType :
         /\ placed'[0][i] = x /\ x.id = a.id /\ x.start = a.start /\ x.end = now /\ x.uses \subseteq a.uses
         /\ \A j \in DOMAIN d : j # i => placed'[0][j] = d[j]
         /\ placed'[1] = placed[1] /\ DOMAIN placed'[0] = DOMAIN d
  <2>1. placed' = [placed EXCEPT ![Tier][i].end = Cur.start,
                                 ![Tier][i].uses = UsesBefore(@, Cur.start)]
    BY <1>2 DEF Evicts
  <2>2. /\ placed' \in [Tiers -> Seq(IntervalType)]
        /\ \A j \in Tiers : DOMAIN placed'[j] = DOMAIN placed[j]
        /\ \A j \in Tiers : j # Tier => placed'[j] = placed[j]
        /\ \A j \in DOMAIN placed[Tier] : j # i => placed'[Tier][j] = placed[Tier][j]
        /\ placed'[Tier][i] = [placed[Tier][i] EXCEPT !.end = Cur.start,
                                            !.uses = UsesBefore(@, Cur.start)]
    BY <1>1, <2>1, Truncated
  <2>3. PICK x : x = [a EXCEPT !.end = now, !.uses = UsesBefore(@, now)]
    OBVIOUS
  <2>4. /\ x \in IntervalType /\ x.id = a.id /\ x.start = a.start /\ x.end = now
        /\ x.uses = {u \in a.uses : u < now}
    <3>1. PICK us : us = UsesBefore(a.uses, now) /\ us = {u \in a.uses : u < now}
      BY DEF UsesBefore
    <3>2. PICK y : y = [a EXCEPT !.end = now, !.uses = us]
      OBVIOUS
    <3>3. x = y
      BY <2>3, <3>1, <3>2 DEF IntervalType
    <3>4. us \in SUBSET Nat /\ now \in Int
      BY <3>1 DEF IntervalType
    <3>5. y \in IntervalType /\ y.id = a.id /\ y.start = a.start /\ y.end = now /\ y.uses = us
      BY ONLY a \in IntervalType, <3>2, <3>4 DEF IntervalType
    <3>6. QED BY <3>1, <3>3, <3>5
  <2>5. placed'[0][i] = x
    BY <1>3, <1>7, <1>8, <1>10, <2>2, <2>3
  <2>6. /\ \A j \in DOMAIN d : j # i => placed'[0][j] = d[j]
        /\ placed'[1] = placed[1] /\ DOMAIN placed'[0] = DOMAIN d
    BY <1>3, <1>4, <1>7, <2>2
  <2>7. QED BY <2>4, <2>5, <2>6
<1>14. PICK spill \in IntervalType :
         /\ spill.id = a.id /\ spill.start = now /\ spill.end = next
         /\ Range(unhandled'[1]) = {spill} /\ Len(unhandled'[1]) = 1
         /\ \A k \in Tiers : k # 1 => unhandled'[k] = unhandled[k]
  <2>1. Len(memrefs) \in Nat
    BY DEF ScanInv, MemrefsTyped
  <2>2. PICK y : y = Part(a, now, next, {}, Len(memrefs) + 1)
    OBVIOUS
  <2>3. y \in IntervalType /\ y.id = a.id /\ y.start = now /\ y.end = next
    <3>1. Len(memrefs) + 1 \in Nat /\ {} \in SUBSET Nat /\ now \in Int
      BY <2>1
    <3>2. next \in Int
      OBVIOUS
    <3>3. PICK m \in Nat, us \in SUBSET Nat, s \in Int, e \in Int :
            m = Len(memrefs) + 1 /\ us = {} /\ s = now /\ e = next
      BY <3>1, <3>2
    <3>4. PICK z : z = Part(a, s, e, us, m)
      OBVIOUS
    <3>5. z \in IntervalType /\ z.id = a.id /\ z.start = s /\ z.end = e
      BY ONLY a \in IntervalType, m \in Nat, us \in SUBSET Nat, s \in Int, e \in Int, <3>4, PartTyped
    <3>6. z = y
      BY <2>2, <3>3, <3>4
    <3>7. QED BY <3>3, <3>5, <3>6
  <2>4. PICK q \in Seq(IntervalType) : q = unhandled[1] /\ Len(q) = 0 /\ Range(q) = {}
    BY <1>4, <1>6
  <2>5. PICK r : r = AddUnhandled(q, y)
    OBVIOUS
  <2>6. \A m, n \in DOMAIN q : m < n => q[m].start <= q[n].start
    <3>1. DOMAIN q = {}
      BY <2>4
    <3>2. QED BY <3>1
  <2>7. r \in Seq(IntervalType) /\ Len(r) = Len(q) + 1 /\ Range(r) = Range(q) \cup {y}
    BY ONLY q \in Seq(IntervalType), <2>3, <2>5, <2>6, QueuedInOrder, ZenonT(60)
  <2>8. unhandled' = [unhandled EXCEPT ![1] = r]
    <3>1. unhandled' = [unhandled EXCEPT ![Tier + 1] =
            AddUnhandled(@, [a EXCEPT !.start = Cur.start, !.end = next, !.uses = {},
                                      !.home = 0, !.mem = Len(memrefs) + 1, !.offset = NoOffset])]
      BY <1>2 DEF Evicts
    <3>2. Tier + 1 = 1
      BY <1>3
    <3>3. y = [a EXCEPT !.start = Cur.start, !.end = next, !.uses = {},
                        !.home = 0, !.mem = Len(memrefs) + 1, !.offset = NoOffset]
      BY <1>10, <2>2 DEF Part
    <3>4. QED BY <1>4, <2>4, <2>5, <3>1, <3>2, <3>3 DEF ScanInv, QueuesTyped
  <2>9. unhandled'[1] = r /\ \A k \in Tiers : k # 1 => unhandled'[k] = unhandled[k]
    BY <1>4, <2>8 DEF ScanInv, QueuesTyped
  <2>10. Len(r) = 1 /\ Range(r) = {y}
    BY <2>4, <2>7
  <2>11. QED BY <2>3, <2>9, <2>10
<1>15. PICK s, f, e :
         /\ s = stack' /\ Len(s) = 2 /\ DOMAIN s = {1, 2} /\ s[1] = f /\ s[2] = e
         /\ f.tier = 0 /\ f.cur = c /\ f.excluded = stack[1].excluded \cup {v}
         /\ e.cur = NoInterval /\ e.reload = NoInterval
         /\ ~ reloads => f.reload = NoInterval
         /\ reloads => /\ f.reload \in IntervalType /\ f.reload.id = a.id /\ f.reload.start = next
                       /\ f.reload.end = a.end /\ f.reload.uses = uses
  <2>1. PICK y : y = IF ~ reloads THEN NoInterval ELSE Part(a, next, a.end, uses, Len(memrefs) + 2)
    OBVIOUS
  <2>2. reloads => y \in IntervalType /\ y.id = a.id /\ y.start = next /\ y.end = a.end /\ y.uses = uses
    <3>1. Len(memrefs) + 2 \in Nat /\ a.end \in Int
      BY DEF ScanInv, MemrefsTyped, IntervalType
    <3>2. PICK z : z = Part(a, next, a.end, uses, Len(memrefs) + 2)
      OBVIOUS
    <3>3. z \in IntervalType /\ z.id = a.id /\ z.start = next /\ z.end = a.end /\ z.uses = uses
      BY <3>1, <3>2, PartTyped
    <3>4. QED BY <2>1, <3>2, <3>3
  <2>3. PICK top \in FrameType : top = stack[1]
    BY <1>5
  <2>4. PICK f : f = [top EXCEPT !.excluded = @ \cup {v}, !.reload = y]
    OBVIOUS
  <2>5. f.tier = top.tier /\ f.cur = top.cur /\ f.excluded = top.excluded \cup {v} /\ f.reload = y
    BY <2>4 DEF FrameType
  <2>6. PICK e : e = Frame(Tier + 1)
    OBVIOUS
  <2>7. e.cur = NoInterval /\ e.reload = NoInterval
    BY <2>6 DEF Frame
  <2>8. PICK c1 \in Seq(FrameType) : c1 = stack /\ DOMAIN c1 = {1} /\ Len(c1) = 1
    <3>1. PICK c1 \in Seq(FrameType) : c1 = stack
      BY DEF ScanInv, StackTyped
    <3>2. Len(c1) = 1
      BY <1>5, <3>1
    <3>3. DOMAIN c1 = 1 .. 1
      BY <3>2
    <3>4. QED BY <3>1, <3>2, <3>3
  <2>9. PICK r : r = [c1 EXCEPT ![1] = f]
    OBVIOUS
  <2>10. r \in Seq({f}) /\ Len(r) = 1 /\ DOMAIN r = {1} /\ r[1] = f
    <3>1. DOMAIN r = 1 .. 1 /\ r[1] = f /\ r \in [1 .. 1 -> {f}]
      BY <2>8, <2>9
    <3>2. 1 \in Nat
      OBVIOUS
    <3>3. r \in Seq({f}) /\ Len(r) = 1
      BY <3>1, <3>2, FunctionIsSeq
    <3>4. QED BY <3>1, <3>3
  <2>11. stack' = Append(r, e)
    <3>1. stack' = Append(
       SetTop([Top EXCEPT !.excluded = @ \cup {v},
                 !.reload = IF ~ reloads THEN NoInterval
                            ELSE [a EXCEPT !.start = next, !.uses = uses, !.home = 0,
                                           !.mem = Len(memrefs) + 2, !.offset = NoOffset]]),
       Frame(Tier + 1))
      BY <1>2 DEF Evicts
    <3>2. y = IF ~ reloads THEN NoInterval
                            ELSE [a EXCEPT !.start = next, !.uses = uses, !.home = 0,
                                           !.mem = Len(memrefs) + 2, !.offset = NoOffset]
      <4>1. PICK z : z = [a EXCEPT !.start = next, !.uses = uses, !.home = 0,
                                   !.mem = Len(memrefs) + 2, !.offset = NoOffset]
        OBVIOUS
      <4>2. Part(a, next, a.end, uses, Len(memrefs) + 2) = z
        BY <4>1 DEF Part, IntervalType
      <4>3. QED BY <2>1, <4>1, <4>2
    <3>3. f = [Top EXCEPT !.excluded = @ \cup {v}, !.reload = y]
      BY <1>5, <2>3, <2>4
    <3>4. SetTop(f) = r
      BY <1>5, <2>8, <2>9 DEF SetTop
    <3>5. QED BY <2>6, <3>1, <3>2, <3>3, <3>4
  <2>12. PICK s : s = Append(r, e)
    OBVIOUS
  <2>13. Len(s) = 2 /\ DOMAIN s = {1, 2} /\ s[1] = f /\ s[2] = e
    <3>1. r \in Seq({f, e})
      BY <2>10
    <3>2. /\ Append(r, e) \in Seq({f, e}) /\ Len(Append(r, e)) = Len(r) + 1
          /\ \A j \in DOMAIN r : Append(r, e)[j] = r[j]
          /\ Append(r, e)[Len(r) + 1] = e
      BY <3>1, Appended
    <3>3. s \in Seq({f, e}) /\ Len(s) = 2 /\ s[1] = f /\ s[2] = e
      BY <2>10, <2>12, <3>2
    <3>4. DOMAIN s = 1 .. 2
      BY <3>3
    <3>5. 1 .. 2 = {1, 2}
      OBVIOUS
    <3>6. QED BY <3>3, <3>4, <3>5
  <2>14. f.tier = 0 /\ f.cur = c /\ f.excluded = stack[1].excluded \cup {v} /\ f.reload = y
    BY <1>5, <1>9, <2>3, <2>5
  <2>15. ~ reloads => y = NoInterval
    BY <2>1
  <2>16. QED BY <2>2, <2>7, <2>11, <2>12, <2>13, <2>14, <2>15, ZenonT(60)
<1>16. s # << >>
  <2>1. DOMAIN << >> = {}
    OBVIOUS
  <2>2. QED BY <1>15, <2>1
<1>17. c # NoInterval /\ (reloads => f.reload # NoInterval)
  BY <1>15, NoIntervalIsNone
<1>18. AtZero' /\ Hand' = {c} \cup (IF reloads THEN {f.reload} ELSE {}) /\ Pending' = {spill}
  <2>1. AtZero'
    BY <1>15, <1>16 DEF AtZero
  <2>2. Hand' = {c} \cup (IF reloads THEN {f.reload} ELSE {})
    BY <1>15, <1>17, <2>1 DEF Hand
  <2>3. Pending' = {spill}
    BY <1>14, <1>15 DEF Pending
  <2>4. QED BY <2>1, <2>2, <2>3
<1>19. /\ Now' = Now /\ Active(0)' = Active(0) /\ Active(1)' = Active(1) /\ Tiers' = Tiers
       /\ \A iv : Segment(iv)' = Segment(iv)
       /\ \A id, t : BackBy(id, t)' = BackBy(id, t)
  <2>1. Now' = Now /\ Active(0)' = Active(0) /\ Active(1)' = Active(1) /\ Tiers' = Tiers
    BY <1>1, <1>7, <1>13 DEF Now, Active, Tiers
  <2>2. QED BY <1>1, <1>13, <2>1 DEF Segment, BackBy
<1>20. PICK D : D = placed'[0]
  OBVIOUS
<1>21. /\ \A j \in Active(0) : D[j].id = d[j].id
       /\ \A j \in Active(0) : j # i => D[j] = d[j] /\ (Live(j)' <=> Live(j))
       /\ ~ Live(i)'
  <2>1. \A j \in Active(0) : j # i => D[j] = d[j]
    BY <1>7, <1>13, <1>20
  <2>2. \A j \in Active(0) : j # i => (Live(j)' <=> Live(j))
    BY <1>7, <1>19, <1>20, <2>1 DEF Live
  <2>3. D[i].id = d[i].id
    BY <1>8, <1>13, <1>20
  <2>4. ~ Live(i)'
    <3>1. placed'[0][i].end = now
      BY <1>13
    <3>2. Now' = now
      BY <1>10, <1>19
    <3>3. ~ (now < now)
      OBVIOUS
    <3>4. QED BY <3>1, <3>2, <3>3 DEF Live
  <2>5. QED BY <2>1, <2>2, <2>3, <2>4
<1>22. unhandled'[0] = unhandled[0]
  BY <1>4, <1>14
<1>23. \A j \in Active(0) : Live(j)' => Live(j) /\ d[j].id # a.id
  <2>1. \A j \in Active(0) : d[j].id = a.id => j = i
    BY <1>7, <1>8 DEF SwapInv, OneHand
  <2>2. QED BY <1>21, <2>1
<1>24. ASSUME reloads
       PROVE  /\ Segment(f.reload) /\ f.reload.start < f.reload.end /\ Now <= f.reload.start
              /\ BackBy(f.reload.id, f.reload.start) /\ f.reload.id = a.id
  <2>1. next \in a.uses /\ a.uses \subseteq UsesOf(prog, a.id.buf) /\ a.id = IdOf(a.id.buf)
        /\ a.end <= Len(prog.ops) + 1
    BY <1>11, <1>12, <1>24 DEF Segment
  <2>2. next \in Times(prog) /\ a.id.buf \in Touched(prog.ops[next])
    BY <2>1 DEF UsesOf
  <2>3. Segment(f.reload)
    BY <1>12, <1>15, <1>24, <2>1, <2>2 DEF Segment
  <2>4. BackBy(a.id, next)
    <3>1. \A j \in Active(1) : placed[1][j].end \in Int
      <4>1. \A j \in Active(1) : placed[1][j] \in IntervalType
        BY SwapTyped DEF SwapInv
      <4>2. QED BY <4>1 DEF IntervalType
    <3>2. QED BY <1>11, <1>12, <3>1 DEF BackBy
  <2>5. QED BY <1>10, <1>12, <1>15, <1>24, <2>3, <2>4
<1>25. TwoCalls'
  <2>1. \A k \in Tiers' : k > 1 => unhandled'[k] = << >>
    <3>1. \A k \in Tiers : k > 1 => k # 1
      OBVIOUS
    <3>2. QED BY <1>14, <1>19, <3>1 DEF SwapInv, TwoCalls
  <2>2. \A j \in DOMAIN s : s[j].cur # NoInterval => s[j].tier = j - 1
    <3>1. f.tier = 1 - 1
      BY <1>15
    <3>2. QED BY <1>15, <3>1
  <2>3. Len(s) <= 2 /\ Len(s) # 1 /\ Len(unhandled'[1]) <= 1
    BY <1>14, <1>15
  <2>4. QED BY <1>15, <1>18, <2>1, <2>2, <2>3 DEF TwoCalls
<1>26. InTierZero'
  <2>1. ASSUME NEW iv \in Range(unhandled[0]) \cup Hand'
        PROVE  Segment(iv) /\ iv.start < iv.end /\ Now <= iv.start /\ BackBy(iv.id, iv.start)
    <3>1. CASE iv \in Range(unhandled[0]) \cup Hand
      BY <3>1 DEF SwapInv, InTierZero
    <3>2. CASE reloads /\ iv = f.reload
      BY <1>24, <3>2
    <3>3. QED BY <1>9, <1>18, <3>1, <3>2
  <2>2. ASSUME NEW j \in Active(0)
        PROVE  /\ Segment(D[j]) /\ D[j].start <= D[j].end /\ D[j].start <= Now
               /\ Live(j)' => BackBy(D[j].id, Now)
    <3>1. CASE j = i
      <4>1. Segment(x)
        BY <1>10, <1>11, <1>13 DEF Segment
      <4>2. QED BY <1>10, <1>11, <1>13, <1>20, <1>21, <3>1, <4>1
    <3>2. CASE j # i
      BY <1>7, <1>21, <3>2 DEF SwapInv, InTierZero
    <3>3. QED BY <3>1, <3>2
  <2>3. \A m, n \in DOMAIN unhandled[0] : m < n => unhandled[0][m].start <= unhandled[0][n].start
    BY DEF SwapInv, InTierZero
  <2>4. c.start = Now
    BY <1>9, <1>10
  <2>5. stack'[1].cur.start = Now'
    BY <1>15, <1>19, <2>4
  <2>6. QED BY <1>19, <1>20, <1>22, <2>1, <2>2, <2>3, <2>5 DEF InTierZero
<1>27. OneHand'
  <2>1. \A iv \in Range(unhandled[0]) : iv.id # a.id /\ iv.id # c.id
    BY <1>7, <1>8, <1>9, <1>11 DEF SwapInv, OneHand
  <2>2. \A iv \in Range(unhandled[0]), y \in Hand' : iv.id # y.id
    BY <1>15, <1>18, <2>1
  <2>3. stack'[1].reload # NoInterval => stack'[1].cur.id # stack'[1].reload.id
    BY <1>11, <1>15
  <2>4. ASSUME NEW iv \in Range(unhandled[0]) \cup Hand', NEW j \in Active(0), Live(j)'
        PROVE  iv.id # D[j].id
    <3>1. Live(j) /\ d[j].id # a.id /\ D[j].id = d[j].id
      BY <1>21, <1>23, <2>4
    <3>2. CASE iv \in Range(unhandled[0]) \cup Hand
      BY <1>7, <3>1, <3>2 DEF SwapInv, OneHand
    <3>3. CASE reloads /\ iv = f.reload
      BY <1>24, <3>1, <3>3
    <3>4. QED BY <1>9, <1>18, <3>2, <3>3
  <2>5. \A m, n \in Active(0) : D[m].id = D[n].id => m = n
    BY <1>7, <1>21 DEF SwapInv, OneHand
  <2>6. \A m, n \in DOMAIN unhandled[0] : unhandled[0][m].id = unhandled[0][n].id => m = n
    BY DEF SwapInv, OneHand
  <2>7. QED BY <1>19, <1>20, <1>22, <2>2, <2>3, <2>4, <2>5, <2>6 DEF OneHand
<1>28. CutForThis'
  <2>1. ASSUME NEW j \in Active(0)
        PROVE  /\ D[j].id # c.id
               /\ D[j].id \in f.excluded <=> ~ Live(j)'
               /\ ~ Live(j)' => D[j].end = Now
    <3>1. /\ d[j].id # c.id
          /\ d[j].id \in stack[1].excluded <=> ~ Live(j)
          /\ ~ Live(j) => d[j].end = Now
      BY <1>1, <1>5, <1>7, <1>9 DEF SwapInv, CutForThis
    <3>2. CASE j = i
      BY <1>8, <1>10, <1>13, <1>15, <1>20, <1>21, <3>1, <3>2
    <3>3. CASE j # i
      <4>1. d[j].id # v
        BY <1>7, <1>8, <3>3 DEF SwapInv, OneHand
      <4>2. QED BY <1>15, <1>21, <3>1, <3>3, <4>1
    <3>4. QED BY <3>2, <3>3
  <2>2. QED BY <1>15, <1>19, <1>20, <2>1 DEF CutForThis
<1>29. InTierOne'
  <2>1. /\ spill.id = IdOf(spill.id.buf) /\ spill.start = Now /\ BackBy(spill.id, Now)
        /\ spill.id # c.id
    BY <1>10, <1>11, <1>14 DEF Segment
  <2>2. \A iv \in Range(unhandled[0]) : iv.id # spill.id
    BY <1>7, <1>8, <1>11, <1>14 DEF SwapInv, OneHand
  <2>3. f.reload # NoInterval => spill.end <= f.reload.start
    BY <1>14, <1>15
  <2>4. \A j \in Active(0) : Live(j)' => D[j].id # spill.id
    BY <1>14, <1>21, <1>23
  <2>5. QED BY <1>13, <1>15, <1>18, <1>19, <1>20, <1>22, <2>1, <2>2, <2>3, <2>4 DEF SwapInv, InTierOne
<1>30. QED BY <1>1, <1>25, <1>26, <1>27, <1>28, <1>29 DEF SwapInv

(* At first every buffer is in the queue of tier 0.                         *)
LEMMA SwapInit == Init /\ RoomBelow => SwapInv
<1> SUFFICES ASSUME Init, RoomBelow PROVE SwapInv
  OBVIOUS
<1>1. /\ prog \in Programs /\ stack = << >> /\ errors = {} /\ placed = [k \in Tiers |-> << >>]
      /\ taken = [k \in Tiers |-> << >>]
  BY DEF Init
<1>2. \A b \in Bufs(prog) : HomeOf(prog, b) = 0
  BY DEF RoomBelow
<1>3. /\ 0 \in Tiers
      /\ \A k \in Tiers : unhandled[k] \in Seq(IntervalType)
      /\ \A k \in Tiers : \A iv \in Range(unhandled[k]) :
           k = 0 /\ \E b \in Bufs(prog) : iv = BufInterval(prog, b)
      /\ \A i, j \in DOMAIN unhandled[0] : i < j => unhandled[0][i].start < unhandled[0][j].start
  BY <1>2, HomeAtFirst
<1>4. 1 \in Tiers
  <2>1. Bottom \in Nat /\ Tiers = 0 .. Bottom /\ Bottom > 0
    BY <1>1, TargetTyped DEF RoomBelow
  <2>2. QED BY <2>1
<1>5. \A k \in Tiers : k # 0 => unhandled[k] = << >> /\ Range(unhandled[k]) = {}
  <2>1. ASSUME NEW k \in Tiers, k # 0 PROVE unhandled[k] = << >> /\ Range(unhandled[k]) = {}
    <3>1. PICK q \in Seq(IntervalType) : q = unhandled[k]
      BY <1>3
    <3>2. Range(q) = {}
      BY <1>3, <2>1, <3>1
    <3>3. q # << >> => Head(q) \in Range(q)
      BY TailElements
    <3>4. QED BY <3>1, <3>2, <3>3
  <2>2. QED BY <2>1
<1>6. Active(0) = {} /\ Active(1) = {} /\ Hand = {} /\ Pending = {} /\ Now = 0
  <2>1. DOMAIN placed[0] = {} /\ DOMAIN placed[1] = {}
    BY <1>1, <1>3, <1>4
  <2>2. Len(stack) # 2
    <3>1. Len(<< >>) = 0
      OBVIOUS
    <3>2. QED BY <1>1, <3>1
  <2>3. Pending = {}
    <3>1. Range(unhandled[1]) = {}
      <4>1. 1 # 0
        OBVIOUS
      <4>2. QED BY <1>4, <1>5, <4>1
    <3>2. QED BY <2>2, <3>1 DEF Pending
  <2>4. QED BY <1>1, <1>3, <2>1, <2>3 DEF Active, Hand, AtZero, Now
<1>7. TwoCalls
  <2>1. Len(stack) = 0 /\ DOMAIN stack = {}
    <3>1. Len(<< >>) = 0 /\ DOMAIN << >> = {}
      OBVIOUS
    <3>2. QED BY <1>1, <3>1
  <2>2. Len(unhandled[1]) = 0
    <3>1. Len(<< >>) = 0 /\ unhandled[1] = << >>
      BY <1>4, <1>5
    <3>2. QED BY <3>1
  <2>3. \A k \in Tiers : k > 1 => unhandled[k] = << >>
    <3>1. \A k \in Tiers : k > 1 => k # 0
      OBVIOUS
    <3>2. QED BY <1>5, <3>1
  <2>4. QED BY <2>1, <2>2, <2>3 DEF TwoCalls
<1>8. ASSUME NEW b \in Bufs(prog), NEW iv, iv = BufInterval(prog, b)
      PROVE  Segment(iv) /\ iv.start < iv.end /\ 0 <= iv.start /\ iv.id = IdOf(b) /\ iv.start = DefTime(prog, b)
  <2>1. /\ iv.id = IdOf(b) /\ iv.start = DefTime(prog, b) /\ iv.end = EndOf(prog, b)
        /\ iv.uses = UsesOf(prog, b)
    BY <1>8 DEF BufInterval
  <2>2. iv.id.buf = b
    BY <2>1 DEF IdOf
  <2>3. DefTime(prog, b) \in Times(prog) /\ b \in Touched(prog.ops[DefTime(prog, b)])
    BY <1>1, DefinedFirst DEF Touched
  <2>4. PICK n \in Nat : n = Len(prog.ops) /\ Times(prog) = 1 .. n
    BY <1>1, FunctionTyped
  <2>5. PICK u \in Times(prog) : EndOf(prog, b) = u + 1
    BY <1>1, EndsAtUse
  <2>6. DefTime(prog, b) < EndOf(prog, b) /\ EndOf(prog, b) <= n + 1 /\ 0 <= DefTime(prog, b)
    BY <1>1, <2>3, <2>4, <2>5, EndsLast
  <2>7. QED BY <2>1, <2>2, <2>3, <2>4, <2>6 DEF Segment
<1>9. PICK q \in Seq(IntervalType) : q = unhandled[0]
  BY <1>3
<1>10. \A x \in Range(q) : \E b \in Bufs(prog) : x = BufInterval(prog, b)
  BY <1>3, <1>9
<1>11. \A j \in DOMAIN q : q[j].start \in Int
  <2>1. \A j \in DOMAIN q : q[j] \in IntervalType
    OBVIOUS
  <2>2. QED BY <2>1 DEF IntervalType
<1>12. InTierZero
  <2>1. \A id, t : BackBy(id, t)
    BY <1>6 DEF BackBy
  <2>2. \A i, j \in DOMAIN q : i < j => q[i].start <= q[j].start
    BY <1>3, <1>9, <1>11
  <2>3. \A iv \in Range(q) : Segment(iv) /\ iv.start < iv.end /\ 0 <= iv.start
    BY <1>8, <1>10
  <2>4. ~ AtZero
    BY <1>1 DEF AtZero
  <2>5. QED BY <1>6, <1>9, <2>1, <2>2, <2>3, <2>4 DEF InTierZero
<1>13. OneHand
  <2>1. ASSUME NEW i \in DOMAIN q, NEW j \in DOMAIN q, q[i].id = q[j].id PROVE i = j
    <3>1. PICK b \in Bufs(prog) : q[i] = BufInterval(prog, b)
      BY <1>10, InRange
    <3>2. PICK e \in Bufs(prog) : q[j] = BufInterval(prog, e)
      BY <1>10, InRange
    <3>3. IdOf(b) = IdOf(e)
      BY <1>8, <2>1, <3>1, <3>2
    <3>4. b = e
      BY <3>3 DEF IdOf
    <3>5. q[i].start = q[j].start
      BY <3>1, <3>2, <3>4
    <3>6. i \in Int /\ j \in Int
      OBVIOUS
    <3>7. ~ (i < j) /\ ~ (j < i)
      BY <1>3, <1>9, <1>11, <3>5
    <3>8. QED BY <3>6, <3>7
  <2>2. ~ AtZero
    BY <1>1 DEF AtZero
  <2>3. QED BY <1>6, <1>9, <2>1, <2>2 DEF OneHand
<1>14. CutForThis /\ InTierOne
  BY <1>1, <1>6 DEF CutForThis, InTierOne, AtZero
<1>15. QED BY <1>1, <1>7, <1>12, <1>13, <1>14 DEF SwapInv

(* There is always something to evict, so nothing is given up.              *)
LEMMA SwapRest ==
  ScanInv /\ RoomBelow /\ SwapInv
  /\ (SpillOfNothing \/ GiveUp \/ Scanned \/ EmitChain \/ Finish \/ Execute \/ UNCHANGED vars)
    => SwapInv'
<1> SUFFICES ASSUME ScanInv, RoomBelow, SwapInv,
                    SpillOfNothing \/ GiveUp \/ Scanned \/ EmitChain \/ Finish \/ Execute
                      \/ UNCHANGED vars
             PROVE  SwapInv'
  OBVIOUS
<1>1. ~ GiveUp
  <2>1. SUFFICES ASSUME GiveUp PROVE FALSE
    OBVIOUS
  <2>2. stack # << >> /\ Cur # NoInterval /\ SureRoom = {} /\ (Tier = Bottom \/ Victims = {})
    BY <2>1 DEF GiveUp, Placing, Calling
  <2>3. Tier = 0 /\ Victims # {}
    BY <2>2, RoomOrVictim
  <2>4. QED BY <2>2, <2>3 DEF RoomBelow
<1>2. /\ prog' = prog /\ errors' = errors /\ taken' = taken /\ placed' = placed
      /\ handled' = handled /\ unhandled' = unhandled /\ stack' = stack
  BY <1>1 DEF SpillOfNothing, Scanned, EmitChain, Finish, Execute, vars, outState, tiersState
<1>3. QED BY <1>2, SwapStays

(* Where the operands of every operation fit tier 0 and all the buffers fit *)
(* tier 1, evicting makes room whenever room is needed, whichever victims   *)
(* the ties of selectSpillVictim and whichever offsets the solver give.     *)
THEOREM EvictingMakesRoom == Spec => []SpillingMakesRoom
<1>1. Init => (RoomBelow => SwapInv)
  BY SwapInit
<1>2. ScanInv /\ GuardInv /\ (RoomBelow => SwapInv) /\ [Next]_vars => (RoomBelow => SwapInv)'
  <2> SUFFICES ASSUME ScanInv, GuardInv, RoomBelow => SwapInv, [Next]_vars, RoomBelow' PROVE SwapInv'
    OBVIOUS
  <2>1. prog' = prog
    BY DEF Next, vars, StartTier, Take, Place, Spill, SpillOfNothing, GiveUp, Return, Scanned,
           EmitChain, Finish, Execute
  <2>2. RoomBelow
    BY <2>1 DEF RoomBelow, Bottom, Tiers
  <2>3. CASE StartTier
    BY <2>2, <2>3, SwapStartTier
  <2>4. CASE Take
    BY <2>2, <2>4, SwapTakeZero, SwapTakeOne
  <2>5. CASE Place
    BY <2>2, <2>5, SwapPlaceZero, SwapPlaceOne
  <2>6. CASE Spill
    BY <2>2, <2>6, SwapSpill
  <2>7. CASE Return
    BY <2>2, <2>7, SwapReturnOne, SwapReturnTwo
  <2>8. QED BY <2>2, <2>3, <2>4, <2>5, <2>6, <2>7, SwapRest DEF Next
<1>3. (RoomBelow => SwapInv) => SpillingMakesRoom
  BY DEF SwapInv, SpillingMakesRoom
<1>4. QED BY <1>1, <1>2, <1>3, ScanWellFormed, GuardInvariant, PTL DEF Spec
=============================================================================
