-------------------------- MODULE StagedCodeProofs --------------------------
(***************************************************************************)
(* Machine-checked proofs about the code that local staging emits: the     *)
(* tier its operands are in and the place they hold there, for every set   *)
(* of well-formed functions, every target and every answer of the solver.  *)
(***************************************************************************)
EXTENDS TierStagingProofs

-----------------------------------------------------------------------------
(* What the calls in progress hold of a tier.                               *)
CallsIn(s, k) == {i \in DOMAIN s : s[i].tier = k}
CurIn(s, k) == {s[i].cur : i \in CallsIn(s, k)} \ {NoInterval}
ReloadIn(s, k) == {s[i].reload : i \in CallsIn(s, k)} \ {NoInterval}
OkIn(s, k) == \A i \in CallsIn(s, k) : s[i].ok

(* All there is of the buffers of a tier. *)
Pieces(k) ==
  Range(unhandled[k]) \cup CurIn(stack, k) \cup ReloadIn(stack, k) \cup Range(placed[k])

(* A step leaves the other tiers and what is held of them alone. *)
SameCalls(s, t, k) == CurIn(t, k) = CurIn(s, k) /\ ReloadIn(t, k) = ReloadIn(s, k) /\ (OkIn(t, k) <=> OkIn(s, k))

Elsewhere(S) ==
  \A j \in Tiers \ S :
    /\ unhandled'[j] = unhandled[j] /\ placed'[j] = placed[j] /\ handled'[j] = handled[j]
    /\ taken'[j] = taken[j]
    /\ SameCalls(stack, stack', j)

(* One call has the tier. *)
LEMMA OneCall ==
  ASSUME NEW s, NEW i \in DOMAIN s, \A j \in DOMAIN s : s[j].tier = s[i].tier => j = i,
         NEW k, k = s[i].tier
  PROVE  /\ CallsIn(s, k) = {i} /\ CurIn(s, k) = {s[i].cur} \ {NoInterval}
         /\ ReloadIn(s, k) = {s[i].reload} \ {NoInterval} /\ (OkIn(s, k) <=> s[i].ok)
<1>1. CallsIn(s, k) = {i}
  BY DEF CallsIn
<1>2. QED BY <1>1 DEF CurIn, ReloadIn, OkIn

LEMMA NoCall ==
  ASSUME NEW s, NEW k, \A i \in DOMAIN s : s[i].tier # k
  PROVE  CurIn(s, k) = {} /\ ReloadIn(s, k) = {} /\ OkIn(s, k) = TRUE
<1>1. CallsIn(s, k) = {}
  BY DEF CallsIn
<1>2. QED BY <1>1 DEF CurIn, ReloadIn, OkIn

(* Two stacks with the same calls of a tier. *)
LEMMA CallsKept ==
  ASSUME NEW s, NEW t, NEW k, CallsIn(t, k) = CallsIn(s, k),
         \A i \in CallsIn(s, k) : t[i] = s[i]
  PROVE  SameCalls(s, t, k)
BY DEF SameCalls, CurIn, ReloadIn, OkIn

(* The calls are of different tiers. *)
LEMMA TiersApart ==
  ASSUME ScanInv
  PROVE  /\ stack \in Seq(FrameType) /\ Len(stack) \in Nat /\ DOMAIN stack = 1 .. Len(stack)
         /\ \A i \in DOMAIN stack : /\ stack[i] \in FrameType /\ stack[i].tier \in Tiers
                                    /\ stack[i].tier \in Nat
                                    /\ stack[i].tier = stack[1].tier + (i - 1)
         /\ \A i, j \in DOMAIN stack : stack[i].tier = stack[j].tier => i = j
         /\ stack # << >> => /\ Len(stack) > 0 /\ Len(stack) \in DOMAIN stack
                             /\ Top = stack[Len(stack)] /\ Tier = stack[Len(stack)].tier
                             /\ Cur = stack[Len(stack)].cur /\ Tier \in Tiers /\ Tier \in Nat
<1>1. stack \in Seq(FrameType) /\ Len(stack) \in Nat /\ DOMAIN stack = 1 .. Len(stack)
  BY DEF ScanInv, StackTyped
<1>2. PICK n \in Nat : n = Len(stack) /\ DOMAIN stack = 1 .. n
  BY <1>1
<1>3. ASSUME NEW i \in DOMAIN stack
      PROVE  /\ stack[i] \in FrameType /\ stack[i].tier \in Tiers /\ stack[i].tier \in Nat
             /\ stack[i].tier = stack[1].tier + (i - 1)
  <2>1. stack[i] \in FrameType
    BY <1>1
  <2>2. QED BY <2>1 DEF ScanInv, StackTyped, FrameType
<1>4. ASSUME NEW i \in DOMAIN stack, NEW j \in DOMAIN stack, stack[i].tier = stack[j].tier PROVE i = j
  <2>1. 1 \in DOMAIN stack /\ i \in Int /\ j \in Int
    BY <1>2
  <2>2. PICK z \in Nat : z = stack[1].tier
    BY <1>3, <2>1
  <2>3. z + (i - 1) = z + (j - 1)
    BY <1>3, <1>4, <2>2
  <2>4. QED BY <2>1, <2>3
<1>5. stack # << >> => /\ Len(stack) > 0 /\ Len(stack) \in DOMAIN stack
                       /\ Top = stack[Len(stack)] /\ Tier = stack[Len(stack)].tier
                       /\ Cur = stack[Len(stack)].cur /\ Tier \in Tiers /\ Tier \in Nat
  <2>1. stack # << >> => Len(stack) > 0 /\ Len(stack) \in DOMAIN stack
    BY <1>1
  <2>2. QED BY <1>3, <2>1 DEF Top, Tier, Cur
<1>6. QED BY <1>1, <1>3, <1>4, <1>5

(* The call on top becomes f. *)
LEMMA TopBecomes ==
  ASSUME ScanInv, stack # << >>, NEW f \in FrameType, f.tier = Tier, stack' = SetTop(f)
  PROVE  /\ CurIn(stack, Tier) = {Top.cur} \ {NoInterval} /\ ReloadIn(stack, Tier) = {Top.reload} \ {NoInterval}
         /\ (OkIn(stack, Tier) <=> Top.ok)
         /\ CurIn(stack', Tier) = {f.cur} \ {NoInterval} /\ ReloadIn(stack', Tier) = {f.reload} \ {NoInterval}
         /\ (OkIn(stack', Tier) <=> f.ok)
         /\ \A j : j # Tier => SameCalls(stack, stack', j)
         /\ stack' \in Seq(FrameType) /\ Len(stack') = Len(stack) /\ stack'[Len(stack)] = f
         /\ DOMAIN stack' = DOMAIN stack
         /\ stack'[1].tier = stack[1].tier /\ stack' # << >>
<1>1. PICK n \in Nat : /\ n = Len(stack) /\ n \in DOMAIN stack /\ Top = stack[n] /\ Tier = stack[n].tier
                       /\ DOMAIN stack = 1 .. n
  BY TiersApart
<1>2. PICK s \in Seq(FrameType) : s = stack
  BY TiersApart
<1>3. PICK t : t = [s EXCEPT ![n] = f]
  OBVIOUS
<1>4. t \in Seq(FrameType) /\ Len(t) = n /\ DOMAIN t = DOMAIN s
  BY <1>1, <1>2, <1>3, Updated
<1>5. t[n] = f /\ \A i \in DOMAIN s : i # n => t[i] = s[i]
  BY <1>1, <1>2, <1>3
<1>6. stack' = t
  BY <1>1, <1>2, <1>3 DEF SetTop
<1>7. \A i, j \in DOMAIN s : s[i].tier = s[j].tier => i = j
  BY <1>2, TiersApart
<1>8. \A i \in DOMAIN s : t[i].tier = s[i].tier
  BY <1>1, <1>2, <1>5
<1>9. n \in DOMAIN s /\ Tier = s[n].tier /\ \A i \in DOMAIN s : s[i].tier = s[n].tier => i = n
  BY <1>1, <1>2, <1>7
<1>10. CurIn(s, Tier) = {s[n].cur} \ {NoInterval} /\ ReloadIn(s, Tier) = {s[n].reload} \ {NoInterval}
       /\ (OkIn(s, Tier) <=> s[n].ok)
  BY ONLY <1>9, OneCall
<1>11. \A j \in DOMAIN t : t[j].tier = t[n].tier => j = n
  BY <1>1, <1>2, <1>4, <1>8, <1>9
<1>12. CurIn(t, Tier) = {f.cur} \ {NoInterval} /\ ReloadIn(t, Tier) = {f.reload} \ {NoInterval}
       /\ (OkIn(t, Tier) <=> f.ok)
  <2>1. Tier = t[n].tier /\ n \in DOMAIN t
    BY <1>1, <1>2, <1>4, <1>5
  <2>2. /\ CurIn(t, Tier) = {t[n].cur} \ {NoInterval} /\ ReloadIn(t, Tier) = {t[n].reload} \ {NoInterval}
        /\ (OkIn(t, Tier) <=> t[n].ok)
    BY ONLY <1>11, <2>1, OneCall
  <2>3. QED BY <1>5, <2>2
<1>13. ASSUME NEW j, j # Tier PROVE SameCalls(s, t, j)
  <2>1. CallsIn(t, j) = CallsIn(s, j)
    BY <1>4, <1>8 DEF CallsIn
  <2>2. \A i \in CallsIn(s, j) : t[i] = s[i]
    BY <1>1, <1>2, <1>5, <1>13 DEF CallsIn
  <2>3. QED BY <2>1, <2>2, CallsKept
<1>14. 1 \in DOMAIN s
  BY <1>1, <1>2
<1>15. t # << >>
  <2>1. DOMAIN << >> = {}
    OBVIOUS
  <2>2. QED BY <1>1, <1>2, <1>4, <2>1
<1>16. QED BY <1>1, <1>2, <1>4, <1>5, <1>6, <1>8, <1>10, <1>12, <1>13, <1>14, <1>15

(* The call on top becomes f and starts one of the next tier. *)
LEMMA TopCalls ==
  ASSUME ScanInv, stack # << >>, NEW f \in FrameType, f.tier = Tier,
         stack' = Append(SetTop(f), Frame(Tier + 1))
  PROVE  /\ CurIn(stack, Tier) = {Top.cur} \ {NoInterval} /\ ReloadIn(stack, Tier) = {Top.reload} \ {NoInterval}
         /\ (OkIn(stack, Tier) <=> Top.ok)
         /\ CurIn(stack', Tier) = {f.cur} \ {NoInterval} /\ ReloadIn(stack', Tier) = {f.reload} \ {NoInterval}
         /\ (OkIn(stack', Tier) <=> f.ok)
         /\ \A j : j # Tier => SameCalls(stack, stack', j)
         /\ Len(stack') = Len(stack) + 1 /\ stack'[Len(stack) + 1] = Frame(Tier + 1)
         /\ stack'[1].tier = stack[1].tier /\ stack' # << >>
<1>1. PICK n \in Nat : /\ n = Len(stack) /\ n \in DOMAIN stack /\ Top = stack[n] /\ Tier = stack[n].tier
                       /\ DOMAIN stack = 1 .. n /\ n > 0 /\ Tier \in Nat
  BY TiersApart
<1>2. PICK s \in Seq(FrameType) : s = stack
  BY TiersApart
<1>3. PICK t : t = [s EXCEPT ![n] = f]
  OBVIOUS
<1>4. t \in Seq(FrameType) /\ Len(t) = n /\ DOMAIN t = DOMAIN s
  BY <1>1, <1>2, <1>3, Updated
<1>5. t[n] = f /\ \A i \in DOMAIN s : i # n => t[i] = s[i]
  BY <1>1, <1>2, <1>3
<1>6. PICK g : g = Frame(Tier + 1)
  OBVIOUS
<1>7. g.tier = Tier + 1 /\ g.cur = NoInterval /\ g.reload = NoInterval /\ g.ok = TRUE /\ g \in FrameType
  BY <1>1, <1>6 DEF Frame, FrameType
<1>8. PICK u \in Seq(FrameType) : u = Append(t, g)
  BY <1>4, <1>7, Appended
<1>9. /\ stack' = u /\ Len(u) = n + 1 /\ DOMAIN u = 1 .. n + 1 /\ u[n + 1] = g
      /\ \A i \in 1 .. n : u[i] = t[i]
  BY <1>1, <1>2, <1>3, <1>4, <1>6, <1>8 DEF SetTop
<1>10. /\ \A i \in DOMAIN s : s[i].tier \in Nat /\ s[i].tier = s[1].tier + (i - 1)
       /\ \A i, j \in DOMAIN s : s[i].tier = s[j].tier => i = j
  BY <1>2, TiersApart
<1>11. \A i \in 1 .. n : u[i].tier = s[i].tier /\ u[i].tier < Tier + 1
  <2>1. 1 \in 1 .. n /\ n \in 1 .. n
    BY <1>1
  <2>2. ASSUME NEW i \in 1 .. n PROVE u[i].tier = s[i].tier /\ s[i].tier < Tier + 1
    <3>1. u[i].tier = s[i].tier
      BY <1>1, <1>2, <1>5, <1>9
    <3>2. PICK z \in Nat : z = s[1].tier
      BY <1>1, <1>2, <1>10, <2>1
    <3>3. s[i].tier = z + (i - 1) /\ Tier = z + (n - 1)
      BY <1>1, <1>2, <1>10, <2>1, <3>2
    <3>4. QED BY <3>1, <3>3
  <2>3. QED BY <2>2
<1>12. \A i \in 1 .. n + 1 : i \in 1 .. n \/ i = n + 1
  BY <1>1
<1>13. CurIn(s, Tier) = {s[n].cur} \ {NoInterval} /\ ReloadIn(s, Tier) = {s[n].reload} \ {NoInterval}
       /\ (OkIn(s, Tier) <=> s[n].ok)
  <2>1. n \in DOMAIN s /\ Tier = s[n].tier /\ \A i \in DOMAIN s : s[i].tier = s[n].tier => i = n
    BY <1>1, <1>2, <1>10
  <2>2. QED BY ONLY <2>1, OneCall
<1>14. CurIn(u, Tier) = {f.cur} \ {NoInterval} /\ ReloadIn(u, Tier) = {f.reload} \ {NoInterval}
       /\ (OkIn(u, Tier) <=> f.ok)
  <2>1. n \in 1 .. n /\ n \in DOMAIN u
    BY <1>1, <1>9
  <2>2. u[n] = f /\ Tier = u[n].tier
    BY <1>5, <1>9, <2>1
  <2>3. ASSUME NEW j \in DOMAIN u, u[j].tier = u[n].tier PROVE j = n
    <3>1. j # n + 1
      BY <1>1, <1>7, <1>9, <2>2, <2>3
    <3>2. j \in 1 .. n
      BY <1>9, <1>12, <3>1
    <3>3. QED BY <1>1, <1>2, <1>10, <1>11, <2>1, <2>3, <3>2
  <2>4. /\ CurIn(u, Tier) = {u[n].cur} \ {NoInterval} /\ ReloadIn(u, Tier) = {u[n].reload} \ {NoInterval}
        /\ (OkIn(u, Tier) <=> u[n].ok)
    BY ONLY <2>1, <2>2, <2>3, OneCall
  <2>5. QED BY <2>2, <2>4
<1>15. ASSUME NEW j, j # Tier PROVE SameCalls(s, u, j)
  <2>1. CASE j = Tier + 1
    <3>1. n + 1 \in DOMAIN u /\ \A i \in DOMAIN u : u[i].tier = u[n + 1].tier => i = n + 1
      <4>1. \A i \in 1 .. n : u[i].tier # Tier + 1
        <5>1. \A i \in 1 .. n : s[i].tier \in Nat
          BY <1>1, <1>2, <1>10
        <5>2. QED BY <1>1, <1>11, <5>1
      <4>2. n + 1 \in 1 .. n + 1
        BY <1>1
      <4>3. QED BY <1>7, <1>9, <1>12, <4>1, <4>2
    <3>2. CurIn(u, j) = {} /\ ReloadIn(u, j) = {} /\ OkIn(u, j) = TRUE
      <4>1. j = u[n + 1].tier
        BY <1>7, <1>9, <2>1
      <4>2. /\ CurIn(u, j) = {u[n + 1].cur} \ {NoInterval} /\ ReloadIn(u, j) = {u[n + 1].reload} \ {NoInterval}
            /\ (OkIn(u, j) <=> u[n + 1].ok)
        BY <3>1, <4>1, OneCall
      <4>3. QED BY <1>7, <1>9, <4>2
    <3>3. \A i \in DOMAIN s : s[i].tier # j
      <4>1. \A i \in 1 .. n : s[i].tier \in Nat
        BY <1>1, <1>2, <1>10
      <4>2. QED BY <1>1, <1>2, <1>11, <2>1, <4>1
    <3>4. CurIn(s, j) = {} /\ ReloadIn(s, j) = {} /\ OkIn(s, j) = TRUE
      BY <3>3, NoCall
    <3>5. QED BY <3>2, <3>4 DEF SameCalls
  <2>2. CASE j # Tier + 1
    <3>1. CallsIn(u, j) = CallsIn(s, j)
      BY <1>1, <1>2, <1>7, <1>9, <1>11, <1>12, <2>2 DEF CallsIn
    <3>2. \A i \in CallsIn(s, j) : u[i] = s[i]
      BY <1>1, <1>2, <1>5, <1>9, <1>15 DEF CallsIn
    <3>3. QED BY <3>1, <3>2, CallsKept
  <2>3. QED BY <2>1, <2>2
<1>16. 1 \in 1 .. n /\ u # << >>
  <2>1. DOMAIN << >> = {} /\ 1 \in 1 .. n /\ 1 \in 1 .. n + 1
    BY <1>1
  <2>2. QED BY <1>9, <2>1
<1>17. stack'[1].tier = stack[1].tier /\ stack' # << >>
  BY <1>2, <1>9, <1>11, <1>16
<1>18. \A j : j # Tier => SameCalls(stack, stack', j)
  BY <1>2, <1>9, <1>15
<1>19. QED BY <1>1, <1>2, <1>6, <1>9, <1>13, <1>14, <1>17, <1>18

(* A call returns to another. *)
LEMMA TopReturns ==
  ASSUME ScanInv, stack # << >>, Len(stack) # 1,
         stack' = Append(SubSeq(stack, 1, Len(stack) - 2),
                         [stack[Len(stack) - 1] EXCEPT !.reload = NoInterval])
  PROVE  \E c \in FrameType :
           /\ c = stack[Len(stack) - 1] /\ c.tier \in Tiers /\ c.tier \in Nat /\ Tier = c.tier + 1
           /\ CurIn(stack, c.tier) = {c.cur} \ {NoInterval}
           /\ ReloadIn(stack, c.tier) = {c.reload} \ {NoInterval}
           /\ CurIn(stack', c.tier) = CurIn(stack, c.tier) /\ ReloadIn(stack', c.tier) = {}
           /\ (OkIn(stack', c.tier) <=> OkIn(stack, c.tier))
           /\ CurIn(stack, Tier) = {Top.cur} \ {NoInterval}
           /\ ReloadIn(stack, Tier) = {Top.reload} \ {NoInterval}
           /\ CurIn(stack', Tier) = {} /\ ReloadIn(stack', Tier) = {} /\ OkIn(stack', Tier) = TRUE
           /\ \A j : j # Tier /\ j # c.tier => SameCalls(stack, stack', j)
           /\ Len(stack') = Len(stack) - 1 /\ stack'[Len(stack) - 1].reload = NoInterval
           /\ stack'[1].tier = stack[1].tier /\ stack' # << >>
<1>1. PICK n \in Nat : /\ n = Len(stack) /\ n \in DOMAIN stack /\ Top = stack[n] /\ Tier = stack[n].tier
                       /\ DOMAIN stack = 1 .. n /\ n > 1 /\ Tier \in Nat
  <2>1. PICK n \in Nat : /\ n = Len(stack) /\ n \in DOMAIN stack /\ Top = stack[n] /\ Tier = stack[n].tier
                         /\ DOMAIN stack = 1 .. n /\ n > 0 /\ Tier \in Nat
    BY TiersApart
  <2>2. n > 1
    BY <2>1
  <2>3. QED BY <2>1, <2>2
<1>2. PICK s \in Seq(FrameType) : s = stack
  BY TiersApart
<1>3. /\ \A i \in DOMAIN s : /\ s[i] \in FrameType /\ s[i].tier \in Nat /\ s[i].tier \in Tiers
                             /\ s[i].tier = s[1].tier + (i - 1)
      /\ \A i, j \in DOMAIN s : s[i].tier = s[j].tier => i = j
  BY <1>2, TiersApart
<1>4. n - 1 \in DOMAIN s /\ n - 2 \in Nat /\ 1 \in 1 .. n - 1 /\ 1 \in DOMAIN s /\ n \in DOMAIN s
      /\ DOMAIN s = 1 .. n
  BY <1>1, <1>2
<1>5. PICK c \in FrameType : c = s[n - 1] /\ c.tier \in Nat /\ c.tier \in Tiers
  BY <1>3, <1>4
<1>6. Tier = c.tier + 1
  <2>1. PICK z \in Nat : z = s[1].tier
    BY <1>3, <1>4
  <2>2. c.tier = z + (n - 1 - 1) /\ Tier = z + (n - 1)
    BY <1>1, <1>2, <1>3, <1>4, <1>5, <2>1
  <2>3. QED BY <1>1, <2>1, <2>2
<1>7. PICK f : f = [c EXCEPT !.reload = NoInterval]
  OBVIOUS
<1>8. f \in FrameType /\ f.tier = c.tier /\ f.cur = c.cur /\ f.reload = NoInterval /\ f.ok = c.ok
  BY <1>7 DEF FrameType
<1>9. PICK u \in Seq(FrameType) :
        /\ stack' = u /\ Len(u) = n - 1 /\ DOMAIN u = 1 .. n - 1
        /\ u[n - 1] = f /\ \A i \in 1 .. n - 2 : u[i] = s[i]
  <2>1. PICK r \in Seq(FrameType) : /\ r = SubSeq(s, 1, n - 2) /\ Len(r) = n - 2
                                    /\ \A i \in 1 .. n - 2 : r[i] = s[i]
    <3>1. n - 2 <= Len(s)
      BY <1>1, <1>2
    <3>2. n - 2 \in Nat /\ s \in Seq(FrameType)
      BY <1>4
    <3>3. PICK m \in Nat : m = n - 2 /\ m <= Len(s)
      BY <3>1, <3>2
    <3>4. /\ SubSeq(s, 1, m) \in Seq(FrameType) /\ Len(SubSeq(s, 1, m)) = m
          /\ \A i \in 1 .. m : SubSeq(s, 1, m)[i] = s[i]
      BY ONLY s \in Seq(FrameType), <3>3, Shortened
    <3>5. QED BY <3>3, <3>4
  <2>2. stack' = Append(r, f)
    BY <1>1, <1>2, <1>5, <1>7, <2>1
  <2>3. PICK u \in Seq(FrameType) : u = Append(r, f)
    BY <1>8, Appended
  <2>4. /\ Len(u) = n - 1 /\ DOMAIN u = 1 .. n - 1
        /\ u[n - 1] = f /\ \A i \in 1 .. n - 2 : u[i] = s[i]
    BY <1>1, <1>4, <1>8, <2>1, <2>3
  <2>5. QED BY <2>2, <2>3, <2>4
<1>10. \A i \in 1 .. n - 1 : u[i].tier = s[i].tier /\ i \in DOMAIN s /\ (i # n - 1 => u[i] = s[i])
  <2>1. \A i \in 1 .. n - 1 : i = n - 1 \/ i \in 1 .. n - 2
    BY <1>1
  <2>2. \A i \in 1 .. n - 1 : i \in 1 .. n
    BY <1>1
  <2>3. QED BY <1>4, <1>5, <1>8, <1>9, <2>1, <2>2
<1>11. /\ CurIn(s, c.tier) = {c.cur} \ {NoInterval} /\ ReloadIn(s, c.tier) = {c.reload} \ {NoInterval}
       /\ (OkIn(s, c.tier) <=> c.ok)
  <2>1. PICK k : k = c.tier
    OBVIOUS
  <2>2. n - 1 \in DOMAIN s /\ k = s[n - 1].tier /\ \A i \in DOMAIN s : s[i].tier = s[n - 1].tier => i = n - 1
    BY <1>3, <1>4, <1>5, <2>1
  <2>3. /\ CurIn(s, k) = {s[n - 1].cur} \ {NoInterval} /\ ReloadIn(s, k) = {s[n - 1].reload} \ {NoInterval}
        /\ (OkIn(s, k) <=> s[n - 1].ok)
    BY ONLY <2>2, OneCall
  <2>4. QED BY <1>5, <2>1, <2>3
<1>12. CurIn(s, Tier) = {s[n].cur} \ {NoInterval} /\ ReloadIn(s, Tier) = {s[n].reload} \ {NoInterval}
  <2>1. n \in DOMAIN s /\ Tier = s[n].tier /\ \A i \in DOMAIN s : s[i].tier = s[n].tier => i = n
    BY <1>1, <1>2, <1>3, <1>4
  <2>2. QED BY ONLY <2>1, OneCall
<1>13. /\ CurIn(u, c.tier) = {c.cur} \ {NoInterval} /\ ReloadIn(u, c.tier) = {}
       /\ (OkIn(u, c.tier) <=> c.ok)
  <2>1. PICK k : k = c.tier
    OBVIOUS
  <2>2. n - 1 \in DOMAIN u
    BY <1>4, <1>9
  <2>3. n - 1 \in DOMAIN u /\ k = u[n - 1].tier /\ \A i \in DOMAIN u : u[i].tier = u[n - 1].tier => i = n - 1
    BY <1>3, <1>4, <1>8, <1>9, <1>10, <2>1, <2>2
  <2>4. /\ CurIn(u, k) = {u[n - 1].cur} \ {NoInterval} /\ ReloadIn(u, k) = {u[n - 1].reload} \ {NoInterval}
        /\ (OkIn(u, k) <=> u[n - 1].ok)
    BY ONLY <2>3, OneCall
  <2>5. QED BY <1>8, <1>9, <2>1, <2>4
<1>14. CurIn(u, Tier) = {} /\ ReloadIn(u, Tier) = {} /\ OkIn(u, Tier) = TRUE
  <2>1. ASSUME NEW i \in DOMAIN u PROVE u[i].tier # Tier
    <3>1. i \in DOMAIN s /\ u[i].tier = s[i].tier /\ i # n
      BY <1>1, <1>9, <1>10
    <3>2. QED BY <1>1, <1>2, <1>3, <1>4, <3>1
  <2>2. QED BY ONLY <2>1, NoCall
<1>15. ASSUME NEW j, j # Tier, j # c.tier PROVE SameCalls(s, u, j)
  <2>1. \A i \in 1 .. n : s[i].tier = j => i \in 1 .. n - 1 /\ i # n - 1
    <3>1. ASSUME NEW i \in 1 .. n, s[i].tier = j PROVE i # n /\ i # n - 1
      BY <1>1, <1>2, <1>5, <1>15, <3>1
    <3>2. QED BY <1>1, <3>1
  <2>2. CallsIn(u, j) = CallsIn(s, j)
    BY <1>4, <1>9, <1>10, <2>1 DEF CallsIn
  <2>3. \A i \in CallsIn(s, j) : u[i] = s[i]
    BY <1>4, <1>10, <2>1 DEF CallsIn
  <2>4. QED BY ONLY <2>2, <2>3, CallsKept
<1>16. u # << >> /\ u[1].tier = s[1].tier
  <2>1. DOMAIN << >> = {}
    OBVIOUS
  <2>2. QED BY <1>4, <1>9, <1>10, <2>1
<1>17. /\ c = stack[Len(stack) - 1] /\ c.tier \in Tiers /\ c.tier \in Nat /\ Tier = c.tier + 1
       /\ CurIn(stack, c.tier) = {c.cur} \ {NoInterval}
       /\ ReloadIn(stack, c.tier) = {c.reload} \ {NoInterval}
       /\ CurIn(stack', c.tier) = CurIn(stack, c.tier) /\ ReloadIn(stack', c.tier) = {}
       /\ (OkIn(stack', c.tier) <=> OkIn(stack, c.tier))
  BY <1>1, <1>2, <1>5, <1>6, <1>9, <1>11, <1>13
<1>18. /\ CurIn(stack, Tier) = {Top.cur} \ {NoInterval}
       /\ ReloadIn(stack, Tier) = {Top.reload} \ {NoInterval}
       /\ CurIn(stack', Tier) = {} /\ ReloadIn(stack', Tier) = {} /\ OkIn(stack', Tier) = TRUE
       /\ Len(stack') = Len(stack) - 1 /\ stack'[Len(stack) - 1].reload = NoInterval
       /\ stack'[1].tier = stack[1].tier /\ stack' # << >>
  BY <1>1, <1>2, <1>8, <1>9, <1>12, <1>14, <1>16
<1>19. \A j : j # Tier /\ j # c.tier => SameCalls(stack, stack', j)
  BY <1>2, <1>9, <1>15
<1>20. QED BY <1>17, <1>18, <1>19

-----------------------------------------------------------------------------
(* What the steps of the scan do to the tier they are about.                *)
KeepsCode == plan' = plan /\ memrefs' = memrefs /\ code' = code /\ evictedFor' = evictedFor

SameTop == stack' # << >> /\ stack'[1].tier = stack[1].tier

Takes(k, q, r, iv) ==
  /\ q = unhandled[k] /\ unhandled'[k] = r /\ 1 \in DOMAIN q /\ q[1] = iv
  /\ Range(q) = Range(r) \cup {iv}
  /\ \A j \in DOMAIN r : j \in Nat /\ j > 0 /\ j + 1 \in DOMAIN q /\ r[j] = q[j + 1]
  /\ handled'[k] = handled[k] \cup {j \in Active(k) : Expired(placed[k][j], iv.start)}
  /\ taken'[k] = Append(taken[k], iv.start)
  /\ CurIn(stack, k) = {} /\ CurIn(stack', k) = IF iv.start < iv.end THEN {iv} ELSE {}
  /\ ReloadIn(stack', k) = ReloadIn(stack, k) /\ (OkIn(stack', k) <=> OkIn(stack, k))
  /\ Elsewhere({k})

LEMMA TakeDoes ==
  ASSUME ScanInv, GuardInv, Take
  PROVE  /\ prog' = prog /\ phase' = phase /\ phase = "alloc" /\ level' = level /\ allPlaced' = allPlaced
         /\ placed' = placed /\ KeepsCode /\ SameTop /\ stack # << >> /\ Tier \in Tiers /\ Tier \in Nat
         /\ stack'[Len(stack')].reload = Top.reload
         /\ \E q, r \in Seq(IntervalType), iv \in IntervalType : Takes(Tier, q, r, iv)
<1>1. /\ prog' = prog /\ plan' = plan /\ phase' = phase /\ phase = "alloc" /\ level' = level
      /\ allPlaced' = allPlaced /\ placed' = placed
      /\ memrefs' = memrefs /\ code' = code /\ evictedFor' = evictedFor
      /\ stack # << >> /\ unhandled[Tier] # << >> /\ Cur = NoInterval
      /\ unhandled' = [unhandled EXCEPT ![Tier] = Tail(@)]
  BY DEF Take, outState, Idle, Calling
<1>2. PICK iv : /\ iv = Head(unhandled[Tier])
                /\ handled' = [handled EXCEPT ![Tier] =
                                 @ \cup {j \in Active(Tier) : Expired(placed[Tier][j], iv.start)}]
                /\ stack' = IF iv.start >= iv.end THEN stack
                            ELSE SetTop([Top EXCEPT !.cur = iv, !.excluded = {}])
                /\ taken' = [taken EXCEPT ![Tier] = Append(@, iv.start)]
  BY DEF Take
<1>3. PICK k \in Tiers : k = Tier /\ k \in Nat
  BY <1>1, TopTyped
<1>4. PICK q \in Seq(IntervalType) : q = unhandled[k] /\ q # << >> /\ iv = Head(q)
  BY <1>1, <1>2, <1>3, TopTyped
<1>5. PICK r \in Seq(IntervalType) :
        /\ r = Tail(q) /\ \A j \in DOMAIN r : j \in Nat /\ j > 0 /\ j + 1 \in DOMAIN q /\ r[j] = q[j + 1]
  <2>1. Tail(q) \in Seq(IntervalType) /\ \A j \in DOMAIN Tail(q) : j + 1 \in DOMAIN q /\ Tail(q)[j] = q[j + 1]
    BY <1>4
  <2>2. \A j \in DOMAIN Tail(q) : j \in Nat /\ j > 0
    BY <2>1
  <2>3. QED BY <2>1, <2>2
<1>6. iv \in IntervalType /\ 1 \in DOMAIN q /\ q[1] = iv
  BY <1>4
<1>7. Range(q) = Range(r) \cup {iv}
  <2>1. \A i \in DOMAIN q : i = 1 \/ (i - 1 \in DOMAIN r /\ r[i - 1] = q[i])
    BY <1>4, <1>5
  <2>2. Range(q) \subseteq Range(r) \cup {iv}
    BY <1>6, <2>1 DEF Range
  <2>3. Range(r) \cup {iv} \subseteq Range(q)
    BY <1>5, <1>6 DEF Range
  <2>4. QED BY <2>2, <2>3
<1>8. /\ unhandled'[k] = r /\ handled'[k] = handled[k] \cup {j \in Active(k) : Expired(placed[k][j], iv.start)}
      /\ taken'[k] = Append(taken[k], iv.start)
      /\ \A j \in Tiers : j # k =>
           unhandled'[j] = unhandled[j] /\ handled'[j] = handled[j] /\ taken'[j] = taken[j]
  BY <1>1, <1>2, <1>3, <1>4, <1>5 DEF ScanInv, QueuesTyped, GuardInv
<1>9. iv.start \in Int /\ iv.end \in Int /\ iv # NoInterval
  BY <1>6, NoIntervalIsNone DEF IntervalType
<1>10. PICK t \in FrameType : t = Top /\ t.tier = k
  BY <1>1, <1>3, TopTyped DEF Tier
<1>11. PICK f \in FrameType :
         /\ f.tier = k /\ f.reload = t.reload /\ (f.ok <=> t.ok)
         /\ f.cur = IF iv.start < iv.end THEN iv ELSE NoInterval
         /\ stack' = SetTop(f)
  <2>1. CASE iv.start < iv.end
    <3>1. PICK f : f = [t EXCEPT !.cur = iv, !.excluded = {}]
      OBVIOUS
    <3>2. f \in FrameType /\ f.tier = t.tier /\ f.cur = iv /\ f.reload = t.reload /\ f.ok = t.ok
      BY <1>6, <3>1 DEF FrameType
    <3>3. stack' = SetTop(f)
      BY <1>2, <1>9, <1>10, <2>1, <3>1
    <3>4. QED BY <1>10, <2>1, <3>2, <3>3
  <2>2. CASE ~ (iv.start < iv.end)
    <3>1. stack' = stack
      BY <1>2, <1>9, <2>2
    <3>2. SetTop(t) = stack
      <4>1. PICK n \in Nat : n = Len(stack) /\ Top = stack[n] /\ n \in DOMAIN stack
        BY <1>1, TiersApart
      <4>2. PICK s \in Seq(FrameType) : s = stack
        BY TiersApart
      <4>3. [s EXCEPT ![n] = s[n]] = s
        BY <4>2
      <4>4. QED BY <1>10, <4>1, <4>2, <4>3 DEF SetTop
    <3>3. t.cur = NoInterval
      BY <1>1, <1>10 DEF Cur
    <3>4. QED BY <1>10, <2>2, <3>1, <3>2, <3>3
  <2>3. QED BY <2>1, <2>2
<1>12. /\ CurIn(stack, k) = {t.cur} \ {NoInterval} /\ ReloadIn(stack, k) = {t.reload} \ {NoInterval}
       /\ (OkIn(stack, k) <=> t.ok)
       /\ CurIn(stack', k) = {f.cur} \ {NoInterval} /\ ReloadIn(stack', k) = {f.reload} \ {NoInterval}
       /\ (OkIn(stack', k) <=> f.ok)
       /\ \A j : j # k => SameCalls(stack, stack', j)
       /\ Len(stack') = Len(stack) /\ stack'[Len(stack)] = f
       /\ stack'[1].tier = stack[1].tier /\ stack' # << >>
  BY <1>1, <1>3, <1>10, <1>11, TopBecomes
<1>13. Elsewhere({k})
  BY <1>1, <1>8, <1>12 DEF Elsewhere
<1>14. CurIn(stack, k) = {} /\ CurIn(stack', k) = IF iv.start < iv.end THEN {iv} ELSE {}
  BY <1>1, <1>9, <1>10, <1>11, <1>12 DEF Cur
<1>15. Takes(k, q, r, iv)
  BY <1>4, <1>5, <1>6, <1>7, <1>8, <1>11, <1>12, <1>13, <1>14 DEF Takes
<1>16. SameTop /\ stack'[Len(stack')].reload = Top.reload
  BY <1>10, <1>11, <1>12 DEF SameTop
<1>17. \E qq, rr \in Seq(IntervalType), ii \in IntervalType : Takes(Tier, qq, rr, ii)
  BY <1>3, <1>6, <1>15
<1>18. QED BY <1>1, <1>3, <1>16, <1>17 DEF KeepsCode

(* The interval placed, but for its offset. *)
SamePiece(c, x) ==
  /\ c.id = x.id /\ c.start = x.start /\ c.end = x.end /\ c.uses = x.uses /\ c.mem = x.mem
  /\ c.size = x.size /\ c.home = x.home

Places(k, d, e, x, c, o) ==
  /\ d = placed[k] /\ e = placed'[k] /\ e = Append(d, c)
  /\ DOMAIN e = DOMAIN d \cup {Len(d) + 1} /\ Len(d) + 1 \notin DOMAIN d /\ e[Len(d) + 1] = c
  /\ \A j \in DOMAIN d : e[j] = d[j]
  /\ Range(e) = Range(d) \cup {c}
  /\ o \in Room /\ c.offset = o /\ SamePiece(c, x) /\ memrefs' = Annotated(k, o)
  /\ CurIn(stack, k) = {x} /\ CurIn(stack', k) = {} /\ x = Cur
  /\ ReloadIn(stack', k) = ReloadIn(stack, k) /\ (OkIn(stack', k) <=> OkIn(stack, k))
  /\ Elsewhere({k})

LEMMA PlaceDoes ==
  ASSUME ScanInv, Place
  PROVE  /\ prog' = prog /\ phase' = phase /\ phase = "alloc" /\ level' = level /\ allPlaced' = allPlaced
         /\ unhandled' = unhandled /\ handled' = handled /\ taken' = taken
         /\ plan' = plan /\ code' = code /\ evictedFor' = evictedFor
         /\ SameTop /\ stack # << >> /\ Tier \in Tiers /\ Tier \in Nat
         /\ stack'[Len(stack')].reload = Top.reload /\ Cur # NoInterval
         /\ \E d, e \in Seq(IntervalType), x, c \in IntervalType, o \in Nat : Places(Tier, d, e, x, c, o)
<1>1. /\ prog' = prog /\ plan' = plan /\ phase' = phase /\ phase = "alloc" /\ level' = level
      /\ allPlaced' = allPlaced /\ code' = code /\ evictedFor' = evictedFor
      /\ unhandled' = unhandled /\ handled' = handled /\ taken' = taken
      /\ stack # << >> /\ Cur # NoInterval
      /\ stack' = SetTop([Top EXCEPT !.cur = NoInterval])
  BY DEF Place, Placing, Calling
<1>2. PICK o \in Room :
        /\ placed' = [placed EXCEPT ![Tier] = Append(@, [Cur EXCEPT !.offset = o])]
        /\ memrefs' = Annotated(Tier, o)
  BY DEF Place
<1>3. PICK k \in Tiers : k = Tier /\ k \in Nat
  BY <1>1, TopTyped
<1>4. PICK d \in Seq(IntervalType) : d = placed[k]
  BY <1>1, <1>3, TopTyped
<1>5. PICK x \in IntervalType : x = Cur
  BY <1>1, TopTyped
<1>6. PICK c \in IntervalType : c = [x EXCEPT !.offset = o] /\ c.offset = o /\ SamePiece(c, x) /\ o \in Nat
  <2>1. [x EXCEPT !.offset = o] \in IntervalType /\ o \in Nat
    BY <1>1, <1>5, RoomIsTyped
  <2>2. PICK c \in IntervalType : c = [x EXCEPT !.offset = o]
    BY <2>1
  <2>3. c.offset = o /\ SamePiece(c, x)
    BY <2>2 DEF IntervalType, SamePiece
  <2>4. QED BY <2>1, <2>2, <2>3
<1>7. PICK e \in Seq(IntervalType) :
        /\ e = Append(d, c) /\ \A j \in DOMAIN d : e[j] = d[j]
        /\ e[Len(d) + 1] = c /\ DOMAIN e = DOMAIN d \cup {Len(d) + 1} /\ Len(d) + 1 \notin DOMAIN d
        /\ Range(e) = Range(d) \cup {c}
  <2>1. /\ Append(d, c) \in Seq(IntervalType) /\ Len(Append(d, c)) = Len(d) + 1
        /\ \A i \in DOMAIN d : Append(d, c)[i] = d[i]
        /\ Append(d, c)[Len(d) + 1] = c
        /\ Range(Append(d, c)) = Range(d) \cup {c}
    BY Appended
  <2>2. PICK e \in Seq(IntervalType) : e = Append(d, c)
    BY <2>1
  <2>3. PICK n \in Nat : n = Len(d) /\ DOMAIN d = 1 .. n
    BY LenProperties
  <2>4. DOMAIN e = 1 .. n + 1
    BY <2>1, <2>2, <2>3
  <2>5. 1 .. n + 1 = 1 .. n \cup {n + 1} /\ n + 1 \notin 1 .. n
    OBVIOUS
  <2>6. QED BY <2>1, <2>2, <2>3, <2>4, <2>5
<1>8. placed'[k] = e /\ \A j \in Tiers : j # k => placed'[j] = placed[j]
  BY <1>2, <1>3, <1>4, <1>5, <1>6, <1>7 DEF ScanInv, QueuesTyped
<1>9. PICK t \in FrameType : t = Top /\ t.tier = k /\ t.cur = x
  BY <1>1, <1>3, <1>5, TopTyped DEF Tier, Cur
<1>10. PICK f : f = [t EXCEPT !.cur = NoInterval]
  OBVIOUS
<1>11. f \in FrameType /\ f.tier = k /\ f.cur = NoInterval /\ f.reload = t.reload /\ (f.ok <=> t.ok)
  BY <1>9, <1>10 DEF FrameType
<1>12. /\ CurIn(stack, k) = {t.cur} \ {NoInterval} /\ ReloadIn(stack, k) = {t.reload} \ {NoInterval}
       /\ (OkIn(stack, k) <=> t.ok)
       /\ CurIn(stack', k) = {f.cur} \ {NoInterval} /\ ReloadIn(stack', k) = {f.reload} \ {NoInterval}
       /\ (OkIn(stack', k) <=> f.ok)
       /\ \A j : j # k => SameCalls(stack, stack', j)
       /\ Len(stack') = Len(stack) /\ stack'[Len(stack)] = f
       /\ stack'[1].tier = stack[1].tier /\ stack' # << >>
  <2>1. stack' = SetTop(f)
    BY <1>1, <1>9, <1>10
  <2>2. QED BY <1>1, <1>3, <1>9, <1>11, <2>1, TopBecomes
<1>13. Elsewhere({k})
  BY <1>1, <1>8, <1>12 DEF Elsewhere
<1>14. CurIn(stack, k) = {x} /\ CurIn(stack', k) = {}
  BY <1>1, <1>5, <1>9, <1>11, <1>12
<1>15. Places(k, d, e, x, c, o)
  BY <1>2, <1>3, <1>4, <1>5, <1>6, <1>7, <1>8, <1>11, <1>12, <1>13, <1>14 DEF Places
<1>16. SameTop /\ stack'[Len(stack')].reload = Top.reload
  BY <1>9, <1>11, <1>12 DEF SameTop
<1>17. \E dd, ee \in Seq(IntervalType), xx, cc \in IntervalType, oo \in Nat : Places(Tier, dd, ee, xx, cc, oo)
  BY <1>3, <1>6, <1>15
<1>18. QED BY <1>1, <1>3, <1>16, <1>17

LEMMA GiveUpDoes ==
  ASSUME ScanInv, GiveUp
  PROVE  /\ prog' = prog /\ phase' = phase /\ phase = "alloc" /\ level' = level /\ allPlaced' = allPlaced
         /\ unhandled' = unhandled /\ placed' = placed /\ handled' = handled /\ taken' = taken
         /\ KeepsCode /\ SameTop /\ stack # << >> /\ Tier \in Tiers /\ Tier \in Nat
         /\ stack'[Len(stack')].reload = Top.reload
         /\ CurIn(stack', Tier) = {} /\ ReloadIn(stack', Tier) = ReloadIn(stack, Tier)
         /\ ~ OkIn(stack', Tier) /\ Elsewhere({Tier})
         /\ errors' # {}
<1>1. /\ prog' = prog /\ plan' = plan /\ phase' = phase /\ phase = "alloc" /\ level' = level
      /\ allPlaced' = allPlaced /\ code' = code /\ evictedFor' = evictedFor /\ memrefs' = memrefs
      /\ unhandled' = unhandled /\ placed' = placed /\ handled' = handled /\ taken' = taken
      /\ stack # << >> /\ errors' # {}
      /\ stack' = SetTop([Top EXCEPT !.cur = NoInterval, !.ok = FALSE])
  BY DEF GiveUp, Placing, Calling, tiersState
<1>2. PICK k \in Tiers : k = Tier /\ k \in Nat
  BY <1>1, TopTyped
<1>3. PICK t \in FrameType : t = Top /\ t.tier = k
  BY <1>1, <1>2, TopTyped DEF Tier
<1>4. PICK f : f = [t EXCEPT !.cur = NoInterval, !.ok = FALSE]
  OBVIOUS
<1>5. f \in FrameType /\ f.tier = k /\ f.cur = NoInterval /\ f.reload = t.reload /\ f.ok = FALSE
  BY <1>3, <1>4 DEF FrameType
<1>6. /\ CurIn(stack, k) = {t.cur} \ {NoInterval} /\ ReloadIn(stack, k) = {t.reload} \ {NoInterval}
      /\ CurIn(stack', k) = {f.cur} \ {NoInterval} /\ ReloadIn(stack', k) = {f.reload} \ {NoInterval}
      /\ (OkIn(stack', k) <=> f.ok)
      /\ \A j : j # k => SameCalls(stack, stack', j)
      /\ Len(stack') = Len(stack) /\ stack'[Len(stack)] = f
      /\ stack'[1].tier = stack[1].tier /\ stack' # << >>
  <2>1. stack' = SetTop(f)
    BY <1>1, <1>3, <1>4
  <2>2. QED BY <1>1, <1>2, <1>3, <1>5, <2>1, TopBecomes
<1>7. Elsewhere({k})
  BY <1>1, <1>6 DEF Elsewhere
<1>8. CurIn(stack', k) = {} /\ ReloadIn(stack', k) = ReloadIn(stack, k) /\ ~ OkIn(stack', k)
  BY <1>5, <1>6
<1>9. SameTop /\ stack'[Len(stack')].reload = Top.reload
  BY <1>3, <1>5, <1>6 DEF SameTop
<1>10. QED BY <1>1, <1>2, <1>7, <1>8, <1>9 DEF KeepsCode

LEMMA StartTierDoes ==
  ASSUME ScanInv, StartTier
  PROVE  /\ prog' = prog /\ phase' = phase /\ phase = "alloc" /\ allPlaced' = allPlaced
         /\ unhandled' = unhandled /\ placed' = placed /\ handled' = handled /\ taken' = taken
         /\ KeepsCode /\ stack = << >> /\ stack' # << >> /\ level >= 0
         /\ level' = level - 1 /\ stack'[1].tier = level
         /\ stack'[Len(stack')].reload = NoInterval
         /\ \A k : SameCalls(stack, stack', k)
<1>1. /\ prog' = prog /\ plan' = plan /\ phase' = phase /\ phase = "alloc" /\ allPlaced' = allPlaced
      /\ code' = code /\ evictedFor' = evictedFor /\ memrefs' = memrefs
      /\ unhandled' = unhandled /\ placed' = placed /\ handled' = handled /\ taken' = taken
      /\ stack = << >> /\ level >= 0 /\ level' = level - 1 /\ stack' = <<Frame(level)>>
  BY DEF StartTier, tiersState, outState
<1>2. PICK e : e = Frame(level)
  OBVIOUS
<1>3. e.tier = level /\ e.cur = NoInterval /\ e.reload = NoInterval /\ e.ok = TRUE
  BY <1>2 DEF Frame
<1>4. PICK s : s = stack' /\ Len(s) = 1 /\ DOMAIN s = {1} /\ s[1] = e
  <2>1. stack' = <<e>> /\ Len(<<e>>) = 1 /\ DOMAIN <<e>> = {1} /\ <<e>>[1] = e
    BY <1>1, <1>2
  <2>2. QED BY <2>1
<1>5. DOMAIN stack = {}
  BY <1>1
<1>6. ASSUME NEW k PROVE SameCalls(stack, s, k)
  <2>1. CurIn(stack, k) = {} /\ ReloadIn(stack, k) = {} /\ OkIn(stack, k) = TRUE
    <3>1. \A i \in DOMAIN stack : stack[i].tier # k
      BY <1>5
    <3>2. QED BY ONLY <3>1, NoCall
  <2>2. CurIn(s, k) = {} /\ ReloadIn(s, k) = {} /\ (OkIn(s, k) <=> TRUE)
    <3>1. CASE e.tier = k
      <4>1. 1 \in DOMAIN s /\ k = s[1].tier /\ \A j \in DOMAIN s : s[j].tier = s[1].tier => j = 1
        BY <1>4, <3>1
      <4>2. /\ CurIn(s, k) = {s[1].cur} \ {NoInterval} /\ ReloadIn(s, k) = {s[1].reload} \ {NoInterval}
            /\ (OkIn(s, k) <=> s[1].ok)
        BY ONLY <4>1, OneCall
      <4>3. QED BY <1>3, <1>4, <4>2
    <3>2. CASE e.tier # k
      <4>1. \A i \in DOMAIN s : s[i].tier # k
        BY <1>4, <3>2
      <4>2. QED BY ONLY <4>1, NoCall
    <3>3. QED BY <3>1, <3>2
  <2>3. QED BY <2>1, <2>2 DEF SameCalls
<1>7. s # << >>
  <2>1. DOMAIN << >> = {}
    OBVIOUS
  <2>2. QED BY <1>4, <2>1
<1>8. QED BY <1>1, <1>3, <1>4, <1>6, <1>7 DEF KeepsCode

(* A call returns to none or to another, whose reload it queues. *)
ReturnsToNone ==
  /\ Len(stack) = 1 /\ stack' = << >> /\ unhandled' = unhandled /\ stack[1].tier = Tier
  /\ (allPlaced' <=> allPlaced /\ OkIn(stack, Tier))
  /\ CurIn(stack', Tier) = {} /\ ReloadIn(stack', Tier) = {} /\ OkIn(stack', Tier)
  /\ Elsewhere({Tier})

ReturnsTo(k) ==
  /\ Tier = k + 1 /\ allPlaced' = allPlaced /\ SameTop
  /\ stack'[Len(stack')].reload = NoInterval
  /\ CurIn(stack', Tier) = {} /\ ReloadIn(stack', Tier) = {} /\ unhandled'[Tier] = unhandled[Tier]
  /\ CurIn(stack', k) = CurIn(stack, k) /\ ReloadIn(stack', k) = {}
  /\ (OkIn(stack', k) <=> OkIn(stack, k))
  /\ \/ ReloadIn(stack, k) = {} /\ unhandled'[k] = unhandled[k]
     \/ \E iv \in IntervalType : /\ ReloadIn(stack, k) = {iv}
                                 /\ unhandled'[k] = AddUnhandled(unhandled[k], iv)
  /\ Elsewhere({k, Tier})

LEMMA ReturnDoes ==
  ASSUME ScanInv, Return
  PROVE  /\ prog' = prog /\ phase' = phase /\ phase = "alloc" /\ level' = level
         /\ placed' = placed /\ handled' = handled /\ taken' = taken
         /\ KeepsCode /\ stack # << >> /\ Tier \in Tiers /\ Tier \in Nat
         /\ CurIn(stack, Tier) = {} /\ unhandled[Tier] = << >> /\ Cur = NoInterval
         /\ ReturnsToNone \/ \E k \in Tiers : k \in Nat /\ ReturnsTo(k)
<1>1. /\ prog' = prog /\ plan' = plan /\ phase' = phase /\ phase = "alloc" /\ level' = level
      /\ code' = code /\ evictedFor' = evictedFor /\ memrefs' = memrefs
      /\ placed' = placed /\ handled' = handled /\ taken' = taken
      /\ stack # << >> /\ Cur = NoInterval /\ unhandled[Tier] = << >>
  BY DEF Return, Idle, Calling
<1>2. PICK n \in Nat : /\ n = Len(stack) /\ n \in DOMAIN stack /\ Top = stack[n] /\ Tier = stack[n].tier
                       /\ Tier \in Tiers /\ Tier \in Nat /\ DOMAIN stack = 1 .. n
  BY <1>1, TiersApart
<1>3. PICK t \in FrameType : t = Top /\ t.tier = Tier /\ t.cur = NoInterval
  BY <1>1, TopTyped DEF Tier, Cur
<1>4. /\ CurIn(stack, Tier) = {t.cur} \ {NoInterval} /\ (OkIn(stack, Tier) <=> t.ok)
  <2>1. PICK k : k = Tier
    OBVIOUS
  <2>2. n \in DOMAIN stack /\ k = stack[n].tier /\ \A j \in DOMAIN stack : stack[j].tier = stack[n].tier => j = n
    BY <1>2, <2>1, TiersApart
  <2>3. /\ CurIn(stack, k) = {stack[n].cur} \ {NoInterval} /\ (OkIn(stack, k) <=> stack[n].ok)
    BY ONLY <2>2, OneCall
  <2>4. QED BY <1>2, <1>3, <2>1, <2>3
<1>5. CurIn(stack, Tier) = {}
  BY <1>3, <1>4
<1>6. CASE n = 1
  <2>1. stack' = << >> /\ unhandled' = unhandled /\ allPlaced' = (allPlaced /\ t.ok)
    BY <1>2, <1>3, <1>6 DEF Return
  <2>2. (allPlaced' <=> allPlaced /\ OkIn(stack, Tier))
    BY <1>4, <2>1
  <2>3. \A k : CurIn(<< >>, k) = {} /\ ReloadIn(<< >>, k) = {} /\ OkIn(<< >>, k) = TRUE
    <3>1. DOMAIN << >> = {}
      OBVIOUS
    <3>2. ASSUME NEW s, DOMAIN s = {}, NEW k PROVE CurIn(s, k) = {} /\ ReloadIn(s, k) = {} /\ OkIn(s, k) = TRUE
      <4>1. \A i \in DOMAIN s : s[i].tier # k
        BY <3>2
      <4>2. QED BY ONLY <4>1, NoCall
    <3>3. QED BY <3>1, <3>2
  <2>4. ASSUME NEW k, k # Tier PROVE SameCalls(stack, stack', k)
    <3>1. \A i \in DOMAIN stack : stack[i].tier # k
      BY <1>2, <1>6, <2>4
    <3>2. CurIn(stack, k) = {} /\ ReloadIn(stack, k) = {} /\ OkIn(stack, k) = TRUE
      BY ONLY <3>1, NoCall
    <3>3. QED BY <2>1, <2>3, <3>2 DEF SameCalls
  <2>5. Elsewhere({Tier})
    BY <1>1, <2>1, <2>4 DEF Elsewhere
  <2>6. ReturnsToNone
    BY <1>2, <1>6, <2>1, <2>2, <2>3, <2>5 DEF ReturnsToNone
  <2>7. QED BY <1>1, <1>2, <1>5, <2>6 DEF KeepsCode
<1>7. CASE n # 1
  <2>1. /\ stack' = Append(SubSeq(stack, 1, Len(stack) - 2),
                           [stack[Len(stack) - 1] EXCEPT !.reload = NoInterval])
        /\ allPlaced' = allPlaced
    BY <1>2, <1>7 DEF Return
  <2>2. unhandled' = IF stack[Len(stack) - 1].reload = NoInterval THEN unhandled
                     ELSE [unhandled EXCEPT ![stack[Len(stack) - 1].tier] =
                             AddUnhandled(@, stack[Len(stack) - 1].reload)]
    BY <1>2, <1>7 DEF Return
  <2>3. PICK c \in FrameType :
           /\ c = stack[Len(stack) - 1] /\ c.tier \in Tiers /\ c.tier \in Nat /\ Tier = c.tier + 1
           /\ CurIn(stack, c.tier) = {c.cur} \ {NoInterval}
           /\ ReloadIn(stack, c.tier) = {c.reload} \ {NoInterval}
           /\ CurIn(stack', c.tier) = CurIn(stack, c.tier) /\ ReloadIn(stack', c.tier) = {}
           /\ (OkIn(stack', c.tier) <=> OkIn(stack, c.tier))
           /\ CurIn(stack', Tier) = {} /\ ReloadIn(stack', Tier) = {} /\ OkIn(stack', Tier) = TRUE
           /\ \A j : j # Tier /\ j # c.tier => SameCalls(stack, stack', j)
           /\ Len(stack') = Len(stack) - 1 /\ stack'[Len(stack) - 1].reload = NoInterval
           /\ stack'[1].tier = stack[1].tier /\ stack' # << >>
    BY <1>1, <1>2, <1>7, <2>1, TopReturns
  <2>4. PICK k \in Tiers : k = c.tier /\ k \in Nat /\ Tier = k + 1
    BY <2>3
  <2>5. k # Tier
    BY <2>4
  <2>6. unhandled \in [Tiers -> Seq(IntervalType)]
    BY DEF ScanInv, QueuesTyped
  <2>7. /\ unhandled'[Tier] = unhandled[Tier]
        /\ \A j \in Tiers : j # k => unhandled'[j] = unhandled[j]
    BY <1>2, <2>2, <2>3, <2>4, <2>5, <2>6
  <2>8. \/ ReloadIn(stack, k) = {} /\ unhandled'[k] = unhandled[k]
        \/ \E iv \in IntervalType : /\ ReloadIn(stack, k) = {iv}
                                    /\ unhandled'[k] = AddUnhandled(unhandled[k], iv)
    <3>1. CASE c.reload = NoInterval
      BY <2>2, <2>3, <2>4, <3>1
    <3>2. CASE c.reload # NoInterval
      <4>1. PICK iv \in IntervalType : iv = c.reload
        BY <3>2 DEF FrameType
      <4>2. unhandled' = [unhandled EXCEPT ![k] = AddUnhandled(@, iv)]
        BY <2>2, <2>3, <2>4, <3>2, <4>1
      <4>3. unhandled'[k] = AddUnhandled(unhandled[k], iv)
        BY <2>6, <4>2
      <4>4. ReloadIn(stack, k) = {iv}
        BY <2>3, <2>4, <3>2, <4>1
      <4>5. QED BY <4>3, <4>4
    <3>3. QED BY <3>1, <3>2
  <2>9. Elsewhere({k, Tier})
    BY <1>1, <2>3, <2>4, <2>7 DEF Elsewhere
  <2>10. SameTop /\ stack'[Len(stack')].reload = NoInterval
    BY <2>3 DEF SameTop
  <2>11. ReturnsTo(k)
    BY <2>1, <2>3, <2>4, <2>7, <2>8, <2>9, <2>10 DEF ReturnsTo
  <2>12. QED BY <1>1, <1>2, <1>5, <2>4, <2>11 DEF KeepsCode
<1>8. QED BY <1>6, <1>7

(* An eviction: what of the victim stays, what is spilled and what comes    *)
(* back.                                                                    *)
Cut(x, a, now) ==
  /\ x.id = a.id /\ x.start = a.start /\ x.size = a.size /\ x.mem = a.mem /\ x.home = a.home
  /\ x.offset = a.offset /\ x.end = now /\ x.uses = UsesBefore(a.uses, now)

Comes(a, next, uses) == next < a.end /\ uses # {}

Spills(k, v, i, a, c, x, next, uses, n) ==
  /\ i = First(k, v) /\ i \in Active(k) /\ i \in DOMAIN placed[k] /\ a = placed[k][i]
  /\ a.id = v /\ v \notin Top.excluded /\ Sound(a)
  /\ c = Cur /\ c.mem # NoMem /\ a.mem # NoMem /\ Sound(c)
  /\ next = NextUse(a) /\ uses = {u \in a.uses : u >= next}
  /\ n = Len(memrefs)
  /\ DOMAIN placed'[k] = DOMAIN placed[k] /\ placed'[k][i] = x /\ Cut(x, a, c.start)
  /\ \A j \in DOMAIN placed[k] : j # i => placed'[k][j] = placed[k][j]
  /\ unhandled'[k] = unhandled[k]
  /\ unhandled'[k + 1] = AddUnhandled(unhandled[k + 1], Part(a, c.start, next, {}, n + 1))
  /\ placed'[k + 1] = placed[k + 1]
  /\ CurIn(stack, k) = {c} /\ CurIn(stack', k) = {c}
  /\ ReloadIn(stack', k) = IF Comes(a, next, uses) THEN {Part(a, next, a.end, uses, n + 2)} ELSE {}
  /\ (OkIn(stack', k) <=> OkIn(stack, k))
  /\ SameCalls(stack, stack', k + 1)
  /\ Elsewhere({k, k + 1})
  /\ Len(memrefs') = n + (IF Comes(a, next, uses) THEN 2 ELSE 1)
  /\ \A m \in 1 .. n : memrefs'[m] = memrefs[m]
  /\ memrefs'[n + 1] = Unplaced(v.buf)
  /\ Comes(a, next, uses) => memrefs'[n + 2] = Unplaced(v.buf)
  /\ evictedFor' = evictedFor \cup {<<k, c.mem, a.mem>>}
  /\ code' = LET spilled == CopyBefore(code, DefPos(code, c.mem), a.mem, n + 1)
                 reloaded == CopyBefore(spilled, TimePos(spilled, Min(uses)), n + 1, n + 2)
             IN IF Comes(a, next, uses) THEN Replaced(reloaded, uses, a.mem, n + 2) ELSE spilled

LEMMA SpillDoes ==
  ASSUME ScanInv, Spill
  PROVE  /\ prog' = prog /\ phase' = phase /\ phase = "alloc" /\ level' = level /\ allPlaced' = allPlaced
         /\ handled' = handled /\ taken' = taken /\ plan' = plan /\ SameTop
         /\ stack # << >> /\ Tier \in Tiers /\ Tier \in Nat /\ Tier + 1 \in Tiers /\ Tier < Bottom
         /\ stack'[Len(stack')].reload = NoInterval /\ SureRoom = {} /\ Cur # NoInterval
         /\ \E v \in Ids, i \in Nat, a, c, x \in IntervalType, next \in Int, uses \in SUBSET Nat, n \in Nat :
              v \in Victims /\ Spills(Tier, v, i, a, c, x, next, uses, n)
<1>1. /\ prog' = prog /\ plan' = plan /\ phase' = phase /\ phase = "alloc" /\ level' = level
      /\ allPlaced' = allPlaced /\ handled' = handled /\ taken' = taken
      /\ stack # << >> /\ Cur # NoInterval /\ Tier < Bottom /\ SureRoom = {}
  BY DEF Spill, Placing, Calling, CanSpill
<1>2. PICK v \in Victims :
        LET i == First(Tier, v)
            a == placed[Tier][i]
            next == NextUse(a)
            uses == {u \in a.uses : u >= next}
            reloads == next < a.end /\ uses # {}
        IN /\ Evicts(v, i, a, next, uses, reloads) /\ Rewrites(v, a, uses, reloads)
           /\ evictedFor' = evictedFor \cup {<<Tier, Cur.mem, a.mem>>}
  BY DEF Spill, Evicts, Rewrites
<1>3. PICK k \in Tiers : k = Tier /\ k \in Nat
  BY <1>1, TopTyped
<1>4. k + 1 \in Tiers
  <2>1. Tiers = 0 .. Bottom /\ Bottom \in Nat
    BY TargetTyped DEF ScanInv
  <2>2. QED BY <1>1, <1>3, <2>1
<1>5. PICK i \in DOMAIN placed[k] : i = First(k, v) /\ i \in Active(k) /\ i \in Nat
  <2>1. First(k, v) \in DOMAIN placed[k] /\ First(k, v) \in Active(k)
    BY <1>1, <1>3, VictimIsActive
  <2>2. DOMAIN placed[k] \subseteq Nat
    BY <1>1, <1>3, TopTyped
  <2>3. QED BY <2>1, <2>2
<1>6. PICK a \in IntervalType : a = placed[k][i] /\ Sound(a) /\ a.id = v /\ v \in Ids /\ v \notin Top.excluded
  BY <1>1, <1>3, <1>5, VictimIsActive
<1>7. PICK next \in Int : next = NextUse(a)
  BY NextUseTyped
<1>8. PICK uses \in SUBSET Nat : uses = {u \in a.uses : u >= next}
  BY DEF IntervalType
<1>9. PICK n \in Nat : n = Len(memrefs)
  BY DEF ScanInv, MemrefsTyped
<1>10. PICK c \in IntervalType : c = Cur /\ Sound(c)
  BY <1>1, TopTyped
<1>11. PICK comes \in BOOLEAN : comes = Comes(a, next, uses)
  BY DEF Comes
<1>12. /\ Evicts(v, i, a, next, uses, comes) /\ Rewrites(v, a, uses, comes)
       /\ evictedFor' = evictedFor \cup {<<k, c.mem, a.mem>>}
  BY <1>2, <1>3, <1>5, <1>6, <1>7, <1>8, <1>10, <1>11 DEF Comes
<1>13. PICK sp \in IntervalType : sp = Part(a, c.start, next, {}, n + 1)
  <2>1. c.start \in Int /\ n + 1 \in Nat /\ {} \in SUBSET Nat
    BY DEF IntervalType
  <2>2. QED BY <2>1, PartTyped
<1>14. PICK R \in IntervalType : R = Part(a, next, a.end, uses, n + 2)
  <2>1. a.end \in Int /\ n + 2 \in Nat
    BY DEF IntervalType
  <2>2. QED BY <2>1, PartTyped
<1>15. PICK reload \in IntervalType \cup {NoInterval} : reload = IF comes THEN R ELSE NoInterval
  OBVIOUS
<1>16. PICK t \in FrameType : t = Top /\ t.tier = k /\ t.cur = c
  BY <1>1, <1>3, <1>10, TopTyped DEF Tier, Cur
<1>17. PICK f : f = [t EXCEPT !.excluded = @ \cup {v}, !.reload = reload]
  OBVIOUS
<1>18. f \in FrameType /\ f.tier = k /\ f.cur = c /\ f.reload = reload /\ (f.ok <=> t.ok)
  BY <1>6, <1>16, <1>17 DEF FrameType
<1>19. stack' = Append(SetTop(f), Frame(k + 1))
  <2>1. reload = IF ~ comes THEN NoInterval
                 ELSE [a EXCEPT !.start = next, !.uses = uses, !.home = 0,
                                !.mem = Len(memrefs) + 2, !.offset = NoOffset]
    <3>1. R = [a EXCEPT !.start = next, !.uses = uses, !.home = 0,
                        !.mem = Len(memrefs) + 2, !.offset = NoOffset]
      BY <1>9, <1>14 DEF Part, IntervalType
    <3>2. QED BY <1>15, <3>1
  <2>2. QED BY <1>3, <1>12, <1>16, <1>17, <2>1 DEF Evicts
<1>20. /\ CurIn(stack, k) = {t.cur} \ {NoInterval}
       /\ (OkIn(stack, k) <=> t.ok)
       /\ CurIn(stack', k) = {f.cur} \ {NoInterval} /\ ReloadIn(stack', k) = {f.reload} \ {NoInterval}
       /\ (OkIn(stack', k) <=> f.ok)
       /\ \A j : j # k => SameCalls(stack, stack', j)
       /\ Len(stack') = Len(stack) + 1 /\ stack'[Len(stack) + 1] = Frame(k + 1)
       /\ stack'[1].tier = stack[1].tier /\ stack' # << >>
  BY <1>1, <1>3, <1>16, <1>18, <1>19, TopCalls
<1>21. c # NoInterval /\ R # NoInterval
  BY NoIntervalIsNone
<1>22. /\ CurIn(stack, k) = {c} /\ CurIn(stack', k) = {c} /\ (OkIn(stack', k) <=> OkIn(stack, k))
       /\ ReloadIn(stack', k) = IF comes THEN {R} ELSE {}
  BY <1>15, <1>16, <1>18, <1>20, <1>21
<1>23. /\ placed' \in [Tiers -> Seq(IntervalType)]
       /\ \A j \in Tiers : DOMAIN placed'[j] = DOMAIN placed[j]
       /\ \A j \in Tiers : j # k => placed'[j] = placed[j]
       /\ \A j \in DOMAIN placed[k] : j # i => placed'[k][j] = placed[k][j]
       /\ placed'[k][i] = [a EXCEPT !.end = c.start, !.uses = UsesBefore(@, c.start)]
  BY <1>1, <1>3, <1>5, <1>6, <1>10, <1>12, Truncated DEF Evicts
<1>24. PICK x \in IntervalType : x = placed'[k][i] /\ Cut(x, a, c.start)
  <2>1. PICK y : y = [a EXCEPT !.end = c.start, !.uses = UsesBefore(@, c.start)]
    OBVIOUS
  <2>2. y \in IntervalType /\ Cut(y, a, c.start)
    <3>1. PICK now \in Int : now = c.start
      BY DEF IntervalType
    <3>2. y = [a EXCEPT !.end = now, !.uses = UsesBefore(@, now)]
      BY <2>1, <3>1
    <3>3. UsesBefore(a.uses, now) \in SUBSET Nat
      BY DEF UsesBefore, IntervalType
    <3>4. y \in IntervalType /\ Cut(y, a, now)
      BY <3>2, <3>3 DEF IntervalType, Cut
    <3>5. QED BY <3>1, <3>4
  <2>3. QED BY <1>23, <2>1, <2>2
<1>25. /\ unhandled'[k + 1] = AddUnhandled(unhandled[k + 1], sp)
       /\ \A j \in Tiers : j # k + 1 => unhandled'[j] = unhandled[j]
  <2>1. unhandled \in [Tiers -> Seq(IntervalType)]
    BY DEF ScanInv, QueuesTyped
  <2>2. sp = [a EXCEPT !.start = c.start, !.end = next, !.uses = {}, !.home = 0,
                       !.mem = Len(memrefs) + 1, !.offset = NoOffset]
    BY <1>9, <1>13 DEF Part
  <2>3. unhandled' = [unhandled EXCEPT ![k + 1] = AddUnhandled(@, sp)]
    BY <1>3, <1>10, <1>12, <2>2 DEF Evicts
  <2>4. QED BY <1>4, <2>1, <2>3
<1>26. k # k + 1
  BY <1>3
<1>27. Elsewhere({k, k + 1})
  BY <1>1, <1>20, <1>23, <1>25 DEF Elsewhere
<1>28. PICK w \in Nat : w = IF comes THEN 2 ELSE 1
  OBVIOUS
<1>29. PICK s \in Seq(MemrefType) : s = memrefs
  BY DEF ScanInv, MemrefsTyped
<1>30. Unplaced(v.buf) \in MemrefType
  <2>1. v.buf \in Bufs(prog)
    BY <1>6 DEF Sound
  <2>2. QED BY <2>1 DEF Unplaced, MemrefType, NoOffset
<1>31. PICK added \in Seq(MemrefType) :
         /\ added = [j \in 1 .. w |-> Unplaced(v.buf)] /\ Len(added) = w
         /\ \A j \in 1 .. w : added[j] = Unplaced(v.buf)
  <2>1. [j \in 1 .. w |-> Unplaced(v.buf)] \in [1 .. w -> MemrefType]
    BY <1>30
  <2>2. PICK g : g = [j \in 1 .. w |-> Unplaced(v.buf)]
    OBVIOUS
  <2>3. g \in Seq(MemrefType) /\ Len(g) = w
    BY ONLY w \in Nat, <2>1, <2>2, FunctionIsSeq
  <2>4. \A j \in 1 .. w : g[j] = Unplaced(v.buf)
    BY <2>2
  <2>5. QED BY <2>2, <2>3, <2>4
<1>32. memrefs' = s \o added
  BY <1>12, <1>28, <1>29, <1>31 DEF Evicts
<1>33. /\ Len(memrefs') = n + w /\ \A m \in 1 .. n : memrefs'[m] = memrefs[m]
       /\ \A j \in 1 .. w : memrefs'[n + j] = Unplaced(v.buf)
  <2>1. /\ Len(s \o added) = Len(s) + Len(added)
        /\ \A m \in 1 .. Len(s) + Len(added) :
             (s \o added)[m] = IF m <= Len(s) THEN s[m] ELSE added[m - Len(s)]
    BY ConcatProperties
  <2>2. \A m \in 1 .. n : m \in 1 .. n + w /\ m <= n
    OBVIOUS
  <2>3. \A j \in 1 .. w : n + j \in 1 .. n + w /\ ~ (n + j <= n) /\ n + j - n = j
    OBVIOUS
  <2>4. QED BY <1>9, <1>29, <1>31, <1>32, <2>1, <2>2, <2>3
<1>34. /\ Len(memrefs') = n + (IF comes THEN 2 ELSE 1) /\ memrefs'[n + 1] = Unplaced(v.buf)
       /\ comes => memrefs'[n + 2] = Unplaced(v.buf)
  <2>1. 1 \in 1 .. w /\ (comes => 2 \in 1 .. w)
    BY <1>28
  <2>2. QED BY <1>28, <1>33, <2>1
<1>35. code' = LET spilled == CopyBefore(code, DefPos(code, c.mem), a.mem, n + 1)
                   reloaded == CopyBefore(spilled, TimePos(spilled, Min(uses)), n + 1, n + 2)
               IN IF comes THEN Replaced(reloaded, uses, a.mem, n + 2) ELSE spilled
  BY <1>9, <1>10, <1>12 DEF Rewrites
<1>36. c.mem # NoMem /\ a.mem # NoMem
  BY <1>10, <1>12 DEF Evicts
<1>37. SameCalls(stack, stack', k + 1)
  BY <1>20, <1>26
<1>38. Spills(k, v, i, a, c, x, next, uses, n)
  <2>1. /\ i = First(k, v) /\ i \in Active(k) /\ i \in DOMAIN placed[k] /\ a = placed[k][i]
        /\ a.id = v /\ v \notin Top.excluded /\ Sound(a)
        /\ c = Cur /\ c.mem # NoMem /\ a.mem # NoMem /\ Sound(c)
        /\ next = NextUse(a) /\ uses = {u \in a.uses : u >= next}
        /\ n = Len(memrefs)
    BY <1>5, <1>6, <1>7, <1>8, <1>9, <1>10, <1>36
  <2>2. /\ DOMAIN placed'[k] = DOMAIN placed[k] /\ placed'[k][i] = x /\ Cut(x, a, c.start)
        /\ \A j \in DOMAIN placed[k] : j # i => placed'[k][j] = placed[k][j]
        /\ unhandled'[k] = unhandled[k]
        /\ unhandled'[k + 1] = AddUnhandled(unhandled[k + 1], Part(a, c.start, next, {}, n + 1))
        /\ placed'[k + 1] = placed[k + 1]
    BY <1>4, <1>13, <1>23, <1>24, <1>25, <1>26
  <2>3. QED BY <1>11, <1>12, <1>14, <1>22, <1>27, <1>33, <1>34, <1>35, <1>37, <2>1, <2>2 DEF Spills
<1>39. SameTop /\ stack'[Len(stack')].reload = NoInterval
  <2>1. Frame(k + 1).reload = NoInterval
    BY DEF Frame
  <2>2. QED BY <1>20, <2>1 DEF SameTop
<1>40. \E vv \in Ids, ii \in Nat, aa, cc, xx \in IntervalType, nn \in Int, uu \in SUBSET Nat, mm \in Nat :
         vv \in Victims /\ Spills(Tier, vv, ii, aa, cc, xx, nn, uu, mm)
  BY <1>3, <1>5, <1>6, <1>38
<1>41. QED BY <1>1, <1>3, <1>4, <1>39, <1>40

-----------------------------------------------------------------------------
(* The pieces a step leaves, but for an eviction, are those it found: some  *)
(* change hands, get an offset or are dropped.                              *)
KeepsPieces == \A k \in Tiers : \A y \in Pieces(k)' : \E z \in Pieces(k) : SamePiece(y, z)

LEMMA PiecesTyped ==
  ASSUME ScanInv, NEW k \in Tiers, NEW iv \in Pieces(k)
  PROVE  iv \in IntervalType /\ Sound(iv)
<1>1. PICK q, d \in Seq(IntervalType) : q = unhandled[k] /\ d = placed[k]
  BY DEF ScanInv, QueuesTyped
<1>2. CASE iv \in Range(q) \cup Range(d)
  <2>1. Sound(iv)
    BY <1>1, <1>2 DEF ScanInv, QueuesTyped
  <2>2. iv \in IntervalType
    BY <1>2, InRange
  <2>3. QED BY <2>1, <2>2
<1>3. CASE iv \in CurIn(stack, k) \cup ReloadIn(stack, k)
  <2>1. PICK i \in DOMAIN stack : (iv = stack[i].cur \/ iv = stack[i].reload) /\ iv # NoInterval
    BY <1>3 DEF CurIn, ReloadIn, CallsIn
  <2>2. stack[i] \in FrameType
    BY TiersApart
  <2>3. iv \in IntervalType
    BY <2>1, <2>2 DEF FrameType
  <2>4. Sound(iv)
    BY <2>1 DEF ScanInv, StackTyped
  <2>5. QED BY <2>3, <2>4
<1>4. QED BY <1>1, <1>2, <1>3 DEF Pieces

LEMMA PiecesAlone ==
  ASSUME NEW k, unhandled'[k] = unhandled[k], placed'[k] = placed[k], SameCalls(stack, stack', k)
  PROVE  Pieces(k)' = Pieces(k)
BY DEF Pieces, SameCalls

LEMMA SamePieces ==
  ASSUME NEW k, Pieces(k)' \subseteq Pieces(k)
  PROVE  \A y \in Pieces(k)' : \E z \in Pieces(k) : SamePiece(y, z)
BY DEF SamePiece

(* What is left to show of a step in the tiers S. *)
LEMMA PiecesElsewhere ==
  ASSUME NEW S, Elsewhere(S),
         \A k \in Tiers \cap S : \A y \in Pieces(k)' : \E z \in Pieces(k) : SamePiece(y, z)
  PROVE  KeepsPieces
<1>1. ASSUME NEW k \in Tiers \ S PROVE Pieces(k)' = Pieces(k)
  BY PiecesAlone DEF Elsewhere
<1>2. \A k \in Tiers \ S : \A y \in Pieces(k)' : \E z \in Pieces(k) : SamePiece(y, z)
  BY <1>1, SamePieces
<1>3. QED BY <1>2 DEF KeepsPieces

LEMMA PiecesTake == ScanInv /\ GuardInv /\ Take => KeepsPieces
<1> SUFFICES ASSUME ScanInv, GuardInv, Take PROVE KeepsPieces
  OBVIOUS
<1>1. placed' = placed /\ Tier \in Tiers
  BY TakeDoes
<1>2. PICK k : k = Tier
  OBVIOUS
<1>3. PICK q, r \in Seq(IntervalType), iv \in IntervalType : Takes(k, q, r, iv)
  BY <1>2, TakeDoes
<1>4. Pieces(k)' \subseteq Pieces(k)
  <2>1. Range(r) \subseteq Range(q) /\ iv \in Range(q)
    BY <1>3 DEF Takes
  <2>2. CurIn(stack', k) \subseteq {iv} /\ ReloadIn(stack', k) = ReloadIn(stack, k)
    BY <1>3 DEF Takes
  <2>3. unhandled[k] = q /\ unhandled'[k] = r
    BY <1>3 DEF Takes
  <2>4. QED BY <1>1, <2>1, <2>2, <2>3 DEF Pieces
<1>5. Elsewhere({k})
  BY <1>3 DEF Takes
<1>6. QED BY <1>4, <1>5, SamePieces, PiecesElsewhere

LEMMA PiecesPlace == ScanInv /\ Place => KeepsPieces
<1> SUFFICES ASSUME ScanInv, Place PROVE KeepsPieces
  OBVIOUS
<1>1. unhandled' = unhandled /\ Tier \in Tiers
  BY PlaceDoes
<1>2. PICK k : k = Tier
  OBVIOUS
<1>3. PICK d, e \in Seq(IntervalType), x, c \in IntervalType, o \in Nat : Places(k, d, e, x, c, o)
  BY <1>2, PlaceDoes
<1>4. ASSUME NEW y \in Pieces(k)' PROVE \E z \in Pieces(k) : SamePiece(y, z)
  <2>1. CASE y = c
    <3>1. x \in Pieces(k) /\ SamePiece(c, x)
      BY <1>3 DEF Places, Pieces
    <3>2. QED BY <2>1, <3>1
  <2>2. CASE y # c
    <3>1. y \in Pieces(k)
      BY <1>1, <1>3, <1>4, <2>2 DEF Places, Pieces
    <3>2. QED BY <3>1 DEF SamePiece
  <2>3. QED BY <2>1, <2>2
<1>5. Elsewhere({k})
  BY <1>3 DEF Places
<1>6. QED BY <1>4, <1>5, PiecesElsewhere

LEMMA PiecesReturn == ScanInv /\ Return => KeepsPieces
<1> SUFFICES ASSUME ScanInv, Return PROVE KeepsPieces
  OBVIOUS
<1>1. placed' = placed /\ Tier \in Tiers
  BY ReturnDoes
<1>2. CASE ReturnsToNone
  <2>1. PICK k : k = Tier
    OBVIOUS
  <2>2. Pieces(k)' \subseteq Pieces(k)
    BY <1>1, <1>2, <2>1 DEF ReturnsToNone, Pieces
  <2>3. Elsewhere({k})
    BY <1>2, <2>1 DEF ReturnsToNone
  <2>4. QED BY <2>2, <2>3, SamePieces, PiecesElsewhere
<1>3. ASSUME NEW k \in Tiers, ReturnsTo(k) PROVE KeepsPieces
  <2>1. PICK l : l = Tier
    OBVIOUS
  <2>2. Pieces(l)' \subseteq Pieces(l)
    BY <1>1, <1>3, <2>1 DEF ReturnsTo, Pieces
  <2>3. Pieces(k)' \subseteq Pieces(k)
    <3>1. CASE ReloadIn(stack, k) = {} /\ unhandled'[k] = unhandled[k]
      BY <1>1, <1>3, <3>1 DEF ReturnsTo, Pieces
    <3>2. ASSUME NEW iv \in IntervalType, ReloadIn(stack, k) = {iv},
                 unhandled'[k] = AddUnhandled(unhandled[k], iv)
          PROVE  Pieces(k)' \subseteq Pieces(k)
      <4>1. PICK q \in Seq(IntervalType) : q = unhandled[k]
        BY DEF ScanInv, QueuesTyped
      <4>2. Range(unhandled'[k]) = Range(q) \cup {iv}
        BY <3>2, <4>1, AddUnhandledElements
      <4>3. QED BY <1>1, <1>3, <3>2, <4>1, <4>2 DEF ReturnsTo, Pieces
    <3>3. QED BY <1>3, <3>1, <3>2 DEF ReturnsTo
  <2>4. Elsewhere({k, l})
    BY <1>3, <2>1 DEF ReturnsTo
  <2>5. \A j \in Tiers \cap {k, l} : \A y \in Pieces(j)' : \E z \in Pieces(j) : SamePiece(y, z)
    BY <2>2, <2>3, SamePieces
  <2>6. QED BY ONLY <2>4, <2>5, PiecesElsewhere
<1>4. QED BY <1>2, <1>3, ReturnDoes

LEMMA PiecesGiveUp == ScanInv /\ GiveUp => KeepsPieces
<1> SUFFICES ASSUME ScanInv, GiveUp PROVE KeepsPieces
  OBVIOUS
<1>1. PICK k : k = Tier
  OBVIOUS
<1>2. Pieces(k)' \subseteq Pieces(k)
  BY <1>1, GiveUpDoes DEF Pieces
<1>3. Elsewhere({k})
  BY <1>1, GiveUpDoes
<1>4. QED BY <1>2, <1>3, SamePieces, PiecesElsewhere

LEMMA PiecesRest ==
  ScanInv /\ (StartTier \/ SpillOfNothing \/ Scanned \/ EmitChain \/ Finish \/ Execute \/ UNCHANGED vars)
    => /\ prog' = prog /\ unhandled' = unhandled /\ placed' = placed /\ handled' = handled
       /\ taken' = taken /\ evictedFor' = evictedFor /\ allPlaced' = allPlaced
       /\ \A k : SameCalls(stack, stack', k)
       /\ KeepsPieces
<1> SUFFICES ASSUME ScanInv, StartTier \/ SpillOfNothing \/ Scanned \/ EmitChain \/ Finish \/ Execute
                                \/ UNCHANGED vars
             PROVE  /\ prog' = prog /\ unhandled' = unhandled /\ placed' = placed /\ handled' = handled
                    /\ taken' = taken /\ evictedFor' = evictedFor /\ allPlaced' = allPlaced
                    /\ \A k : SameCalls(stack, stack', k)
                    /\ KeepsPieces
  OBVIOUS
<1>1. /\ prog' = prog /\ unhandled' = unhandled /\ placed' = placed /\ handled' = handled
      /\ taken' = taken /\ evictedFor' = evictedFor /\ allPlaced' = allPlaced
  BY DEF StartTier, SpillOfNothing, Scanned, EmitChain, Finish, Execute, vars, tiersState, outState
<1>2. ASSUME NEW k PROVE SameCalls(stack, stack', k)
  <2>1. CASE StartTier
    BY <2>1, StartTierDoes
  <2>2. CASE ~ StartTier
    <3>1. stack' = stack
      BY <2>2 DEF SpillOfNothing, Scanned, EmitChain, Finish, Execute, vars
    <3>2. QED BY <3>1 DEF SameCalls
  <2>3. QED BY <2>1, <2>2
<1>3. \A k : Pieces(k)' = Pieces(k)
  BY <1>1, <1>2 DEF Pieces, SameCalls
<1>4. KeepsPieces
  BY <1>3, SamePieces DEF KeepsPieces
<1>5. QED BY <1>1, <1>2, <1>4

(* An eviction cuts its victim and makes one or two pieces of it more.      *)
LEMMA PiecesSpill ==
  ASSUME ScanInv, NEW k \in Tiers, NEW v, NEW i \in Nat, NEW a \in IntervalType, NEW c \in IntervalType,
         NEW x, NEW next, NEW uses, NEW n, Spills(k, v, i, a, c, x, next, uses, n), k + 1 \in Tiers,
         k + 1 # k
  PROVE  /\ a \in Pieces(k) /\ c \in Pieces(k)
         /\ \A y \in Pieces(k)' : \/ y \in Pieces(k) \/ y = x
                                  \/ Comes(a, next, uses) /\ y = Part(a, next, a.end, uses, n + 2)
         /\ \A y \in Pieces(k + 1)' : y \in Pieces(k + 1) \/ y = Part(a, c.start, next, {}, n + 1)
         /\ \A j \in Tiers \ {k, k + 1} : Pieces(j)' = Pieces(j)
<1>1. PICK d \in Seq(IntervalType) : d = placed[k]
  BY DEF ScanInv, QueuesTyped
<1>2. PICK e : e = placed'[k] /\ DOMAIN e = DOMAIN d /\ \A j \in DOMAIN d : e[j] = d[j] \/ e[j] = x
  BY <1>1, SMTT(30) DEF Spills
<1>3. Range(e) \subseteq Range(d) \cup {x}
  BY <1>2, InRange
<1>4. a \in Range(d)
  BY <1>1, InRange DEF Spills
<1>5. CurIn(stack, k) = {c} /\ CurIn(stack', k) = {c} /\ unhandled'[k] = unhandled[k]
      /\ ReloadIn(stack', k) = IF Comes(a, next, uses) THEN {Part(a, next, a.end, uses, n + 2)} ELSE {}
  BY DEF Spills
<1>6. a \in Pieces(k) /\ c \in Pieces(k)
  BY <1>1, <1>4, <1>5 DEF Pieces
<1>7. \A y \in Pieces(k)' : \/ y \in Pieces(k) \/ y = x
                            \/ Comes(a, next, uses) /\ y = Part(a, next, a.end, uses, n + 2)
  BY <1>1, <1>2, <1>3, <1>5 DEF Pieces
<1>8. PICK l \in Tiers : l = k + 1
  OBVIOUS
<1>9. ASSUME NEW y \in Pieces(l)' PROVE y \in Pieces(l) \/ y = Part(a, c.start, next, {}, n + 1)
  <2>1. PICK q \in Seq(IntervalType) : q = unhandled[l]
    BY DEF ScanInv, QueuesTyped
  <2>2. PICK p : p = Part(a, c.start, next, {}, n + 1)
    OBVIOUS
  <2>3. /\ unhandled'[l] = AddUnhandled(q, p) /\ placed'[l] = placed[l] /\ SameCalls(stack, stack', l)
    BY <1>8, <2>1, <2>2 DEF Spills
  <2>4. p \in IntervalType
    <3>1. n = Len(memrefs) /\ next = NextUse(a)
      BY DEF Spills
    <3>2. n + 1 \in Nat
      BY <3>1 DEF ScanInv, MemrefsTyped
    <3>3. c.start \in Int /\ next \in Int /\ {} \in SUBSET Nat
      BY <3>1, NextUseTyped DEF IntervalType
    <3>4. QED BY <2>2, <3>2, <3>3, PartTyped
  <2>5. Range(unhandled'[l]) = Range(q) \cup {p}
    BY <2>3, <2>4, AddUnhandledElements
  <2>6. QED BY <1>9, <2>1, <2>2, <2>3, <2>5 DEF Pieces, SameCalls
<1>10. Elsewhere({k, k + 1})
  BY DEF Spills
<1>11. \A j \in Tiers \ {k, k + 1} : Pieces(j)' = Pieces(j)
  BY <1>10, PiecesAlone DEF Elsewhere
<1>12. QED BY <1>6, <1>7, <1>8, <1>9, <1>11
-----------------------------------------------------------------------------
(* The course of the pass: the tiers are opened one after the other, what   *)
(* is on top of the calls has queued its reload, tier 0 comes last and is   *)
(* drained, and the chains are emitted after it.                            *)
Course ==
  /\ stack # << >> => Top.reload = NoInterval /\ stack[1].tier = level + 1
  /\ phase \in {"emit", "run"} => stack = << >> /\ level < 0 /\ allPlaced
  /\ phase = "run" => plan = {}
  /\ level < 0 /\ stack = << >> => unhandled[0] = << >>

LEMMA CourseInit == Init => Course
<1> SUFFICES ASSUME Init PROVE Course
  OBVIOUS
<1>1. prog \in Programs /\ stack = << >> /\ phase = "alloc" /\ level = Bottom
  BY DEF Init
<1>2. ~ (level < 0)
  BY <1>1, TargetTyped
<1>3. QED BY <1>1, <1>2 DEF Course

LEMMA CourseStays ==
  ASSUME Course, phase' = phase, phase = "alloc", level' = level, stack # << >>, SameTop,
         stack'[Len(stack')].reload = NoInterval
  PROVE  Course'
<1>1. Top' = stack'[Len(stack')]
  BY DEF Top
<1>2. QED BY <1>1 DEF Course, SameTop

LEMMA CourseStep == ScanInv /\ GuardInv /\ Course /\ [Next]_vars => Course'
<1> SUFFICES ASSUME ScanInv, GuardInv, Course, [Next]_vars PROVE Course'
  OBVIOUS
<1>1. stack # << >> => Top.reload = NoInterval
  BY DEF Course
<1>2. CASE StartTier
  <2>1. /\ phase' = "alloc" /\ stack' # << >> /\ level' = level - 1 /\ stack'[1].tier = level
        /\ Top'.reload = NoInterval /\ level \in Int
    BY <1>2, StartTierDoes, TargetTyped DEF Top, ScanInv
  <2>2. level = level' + 1
    BY <2>1
  <2>3. QED BY <2>1, <2>2 DEF Course
<1>3. CASE Take
  BY <1>1, <1>3, TakeDoes, CourseStays
<1>4. CASE Place
  BY <1>1, <1>4, PlaceDoes, CourseStays
<1>5. CASE GiveUp
  BY <1>1, <1>5, GiveUpDoes, CourseStays
<1>6. CASE Spill
  BY <1>6, SpillDoes, CourseStays
<1>7. CASE Return
  <2>1. /\ phase' = phase /\ phase = "alloc" /\ level' = level /\ stack # << >>
        /\ ReturnsToNone \/ \E k \in Tiers : k \in Nat /\ ReturnsTo(k)
        /\ unhandled[Tier] = << >> /\ Tier \in Nat
    BY <1>7, ReturnDoes
  <2>2. CASE ReturnsToNone
    <3>1. stack' = << >> /\ unhandled' = unhandled /\ stack[1].tier = Tier
      BY <2>2 DEF ReturnsToNone
    <3>2. level < 0 => Tier = 0
      <4>1. level \in Int /\ level >= -1 /\ Tier = level + 1
        BY <2>1, <3>1, TargetTyped DEF Course, ScanInv
      <4>2. QED BY <4>1
    <3>3. QED BY <2>1, <3>1, <3>2 DEF Course
  <2>3. CASE ~ ReturnsToNone
    <3>1. SameTop /\ stack'[Len(stack')].reload = NoInterval
      BY <2>1, <2>3 DEF ReturnsTo
    <3>2. QED BY <2>1, <3>1, CourseStays
  <2>4. QED BY <2>2, <2>3
<1>8. CASE SpillOfNothing \/ Scanned \/ EmitChain \/ Finish \/ Execute \/ UNCHANGED vars
  <2>1. stack' = stack /\ level' = level /\ unhandled' = unhandled /\ allPlaced' = allPlaced
    BY <1>8 DEF SpillOfNothing, Scanned, EmitChain, Finish, Execute, vars, tiersState, outState
  <2>2. Top' = Top
    BY <2>1 DEF Top
  <2>3. phase' \in {"emit", "run"} => stack = << >> /\ level < 0 /\ allPlaced
    BY <1>8 DEF SpillOfNothing, Scanned, EmitChain, Finish, Execute, vars, Course
  <2>4. phase' = "run" => plan' = {}
    BY <1>8 DEF SpillOfNothing, Scanned, EmitChain, Finish, Execute, vars, Course
  <2>5. QED BY <2>1, <2>2, <2>3, <2>4 DEF Course
<1>9. QED BY <1>2, <1>3, <1>4, <1>5, <1>6, <1>7, <1>8 DEF Next

LEMMA CourseInvariant == Spec => []Course
BY CourseInit, CourseStep, ScanWellFormed, GuardInvariant, PTL DEF Spec
-----------------------------------------------------------------------------
(* Where the pieces come from: tier 0 is no resident's home, what is there  *)
(* of a buffer itself starts with the buffer, no memref is of two tiers     *)
(* when one of them is tier 0, and, as long as no resident was evicted,     *)
(* only the residents have uses in a lower tier.                            *)
NoResidents == Bottom > 0 => \A iv \in Pieces(0) : iv.mem # NoMem => HomeOf(prog, iv.id.buf) = 0

Origins ==
  \A iv \in Pieces(0) : iv.mem \in Bufs(prog) => iv.id.buf = iv.mem /\ iv.start = DefTime(prog, iv.mem)

OfOneTier == \A k \in Tiers : k # 0 => \A y \in Pieces(0), z \in Pieces(k) : y.mem = z.mem => y.mem = NoMem

MayUse(iv, k) ==
  \/ iv.mem \in Bufs(prog) /\ HomeOf(prog, iv.mem) > 0
  \/ k = 0 /\ HomeOf(prog, iv.id.buf) = 0

UsesHeld == ResidentsStay => \A k \in Tiers : \A iv \in Pieces(k) : iv.uses # {} => MayUse(iv, k)

FreshAtHome == \A e \in evictedFor : e[1] = 0 /\ e[3] \in Bufs(prog) => HomeOf(prog, e[3]) = 0

Homes == NoResidents /\ Origins /\ OfOneTier /\ UsesHeld /\ FreshAtHome

(* The queues the scan starts with: all the intervals of a tier, by start.  *)
LEMMA FirstPieces ==
  ASSUME Init
  PROVE  /\ 0 \in Tiers /\ prog \in Programs
         /\ \A k \in Tiers : /\ unhandled[k] \in Seq(IntervalType)
                             /\ Pieces(k) = {iv \in Intervals(prog) : EntryTier(prog, iv) = k}
                             /\ Range(unhandled[k]) = Pieces(k)
                             /\ placed[k] = << >> /\ taken[k] = << >>
                             /\ CurIn(stack, k) = {} /\ ReloadIn(stack, k) = {}
         /\ \A i, j \in DOMAIN unhandled[0] :
              i < j => unhandled[0][i] # unhandled[0][j] /\ unhandled[0][i].start <= unhandled[0][j].start
<1>1. /\ prog \in Programs /\ unhandled \in FirstQueues(prog) /\ stack = << >>
      /\ placed = [k \in Tiers |-> << >>] /\ taken = [k \in Tiers |-> << >>]
  BY DEF Init
<1>2. 0 \in Tiers
  BY <1>1, TargetTyped
<1>3. ASSUME NEW k \in Tiers
      PROVE  /\ unhandled[k] \in Seq(IntervalType)
             /\ Range(unhandled[k]) = {iv \in Intervals(prog) : EntryTier(prog, iv) = k}
             /\ \A i, j \in DOMAIN unhandled[k] :
                  i < j => unhandled[k][i] # unhandled[k][j] /\ unhandled[k][i].start <= unhandled[k][j].start
  <2>1. unhandled[k] \in Seq(IntervalType)
    BY <1>1, QueuesTypedAtFirst DEF Tiers
  <2>2. PICK S : S = {iv \in Intervals(prog) : EntryTier(prog, iv) = k}
    OBVIOUS
  <2>3. PICK q : q = unhandled[k] /\ q \in Queues(S)
    BY <1>1, <2>2 DEF FirstQueues, Tiers
  <2>4. PICK c \in Nat : c = Cardinality(S) /\ IsFiniteSet(S)
    BY <1>1, <2>2, IntervalsFinite, FS_Subset, FS_CardinalityType
  <2>5. q \in [1 .. c -> S] /\ DOMAIN q = 1 .. c
        /\ \A i, j \in DOMAIN q : i < j => q[i] # q[j] /\ q[i].start <= q[j].start
    BY <2>3, <2>4 DEF Queues
  <2>6. \A i, j \in 1 .. c : q[i] = q[j] => i = j
    BY <2>5
  <2>7. q \in Injection(1 .. c, S)
    BY <2>5, <2>6 DEF Injection, IsInjective
  <2>8. Cardinality(1 .. c) = c
    <3>1. 1 \in Int /\ c \in Int /\ (IF 1 > c THEN 0 ELSE c - 1 + 1) = c
      OBVIOUS
    <3>2. QED BY ONLY <3>1, FS_Interval
  <2>9. q \in Surjection(1 .. c, S)
    BY <2>4, <2>7, <2>8, FS_Injection
  <2>10. \A x \in S : x \in Range(q)
    BY <2>5, <2>9, InRange DEF Surjection
  <2>11. \A x \in Range(q) : x \in S
    BY <2>5, InRange
  <2>12. QED BY <2>1, <2>2, <2>3, <2>5, <2>10, <2>11
<1>4. ASSUME NEW k \in Tiers
      PROVE  /\ placed[k] = << >> /\ taken[k] = << >> /\ Range(placed[k]) = {}
             /\ CurIn(stack, k) = {} /\ ReloadIn(stack, k) = {}
  <2>1. placed[k] = << >> /\ taken[k] = << >>
    BY <1>1
  <2>2. Range(placed[k]) = {}
    BY <2>1 DEF Range
  <2>3. \A i \in DOMAIN stack : stack[i].tier # k
    BY <1>1
  <2>4. CurIn(stack, k) = {} /\ ReloadIn(stack, k) = {}
    BY ONLY <2>3, NoCall
  <2>5. QED BY <2>1, <2>2, <2>4
<1>5. \A k \in Tiers : Pieces(k) = Range(unhandled[k])
  BY <1>4 DEF Pieces
<1>6. QED BY <1>1, <1>2, <1>3, <1>4, <1>5

(* An interval of the function stands for a buffer or is a stage.           *)
LEMMA IntervalIs ==
  ASSUME prog \in Programs, NEW iv \in Intervals(prog)
  PROVE  /\ EntryTier(prog, iv) = 0 /\ Bottom > 0 => iv.home = 0
         /\ iv.home = 0 => EntryTier(prog, iv) = 0
         /\ \/ \E b \in Bufs(prog) :
                 /\ iv = BufInterval(prog, b) /\ iv.id = IdOf(b) /\ iv.id.buf = b /\ iv.mem = b
                 /\ iv.home = HomeOf(prog, b)
                 /\ iv.start = DefTime(prog, b) /\ iv.start \in Times(prog) /\ b # NoMem
            \/ \E b \in Bufs(prog), t \in Times(prog), k \in Nat :
                 /\ iv = Stage(prog, b, t, k) /\ iv.id = [buf |-> b, stage |-> k, use |-> t]
                 /\ iv.start = t /\ iv.mem = NoMem /\ iv.uses = {}
<1>1. Bottom \in Nat /\ Bottom = Cardinality(DOMAIN prog.caps) - 1
  BY TargetTyped DEF Bottom, Tiers
<1>2. CASE \E b \in Bufs(prog) : iv = BufInterval(prog, b)
  <2>1. PICK b \in Bufs(prog) : iv = BufInterval(prog, b)
    BY <1>2
  <2>2. /\ iv.id = IdOf(b) /\ iv.mem = b /\ iv.home = HomeOf(prog, b) /\ iv.start = DefTime(prog, b)
    BY <2>1 DEF BufInterval
  <2>3. iv.id.buf = b /\ iv.start \in Times(prog) /\ iv.home \in Nat /\ b # NoMem
    BY <2>2, DefinedFirst, HomeTyped, FunctionTyped DEF IdOf, NoMem
  <2>4. QED BY <1>1, <2>1, <2>2, <2>3 DEF EntryTier
<1>3. CASE ~ \E b \in Bufs(prog) : iv = BufInterval(prog, b)
  <2>1. PICK b \in Bufs(prog) : \E t \in UsesOf(prog, b), k \in 0 .. HomeOf(prog, b) - 1 : iv = Stage(prog, b, t, k)
    BY <1>3 DEF Intervals
  <2> DEFINE below == 0 .. HomeOf(prog, b) - 1
  <2>2. PICK t \in UsesOf(prog, b), k \in below : iv = Stage(prog, b, t, k)
    BY <2>1
  <2>3. /\ iv.id = [buf |-> b, stage |-> k, use |-> t] /\ iv.start = t /\ iv.mem = NoMem /\ iv.uses = {}
        /\ iv.home = k
    BY <2>2 DEF Stage
  <2>4. t \in Times(prog) /\ k \in Nat
    BY HomeTyped DEF UsesOf
  <2>5. QED BY <1>1, <2>3, <2>4, <2>2 DEF EntryTier
<1>4. QED BY <1>2, <1>3

LEMMA HomesInit == Init => Homes
<1> SUFFICES ASSUME Init PROVE Homes
  OBVIOUS
<1>1. /\ 0 \in Tiers /\ prog \in Programs /\ evictedFor = {}
      /\ \A k \in Tiers : \A iv \in Pieces(k) : iv \in Intervals(prog) /\ EntryTier(prog, iv) = k
  BY FirstPieces DEF Init
<1>2. Bottom \in Nat
  BY <1>1, TargetTyped
<1>3. NoResidents
  <2>1. SUFFICES ASSUME Bottom > 0, NEW iv \in Pieces(0), iv.mem # NoMem PROVE HomeOf(prog, iv.id.buf) = 0
    BY DEF NoResidents
  <2>2. iv \in Intervals(prog) /\ iv.home = 0
    BY <1>1, <2>1, IntervalIs
  <2>3. QED BY <1>1, <2>1, <2>2, IntervalIs
<1>4. Origins
  <2>1. SUFFICES ASSUME NEW iv \in Pieces(0), iv.mem \in Bufs(prog)
                 PROVE  iv.id.buf = iv.mem /\ iv.start = DefTime(prog, iv.mem)
    BY DEF Origins
  <2>2. iv.mem # NoMem
    BY <1>1, <2>1, FunctionTyped DEF NoMem
  <2>3. QED BY <1>1, <2>1, <2>2, IntervalIs
<1>5. OfOneTier
  <2>1. SUFFICES ASSUME NEW k \in Tiers, k # 0, NEW y \in Pieces(0), NEW z \in Pieces(k), y.mem = z.mem,
                        y.mem # NoMem
                 PROVE  FALSE
    BY DEF OfOneTier
  <2>2. PICK b \in Bufs(prog) : y = BufInterval(prog, b) /\ y.mem = b
    BY <1>1, <2>1, IntervalIs
  <2>3. PICK e \in Bufs(prog) : z = BufInterval(prog, e) /\ z.mem = e
    BY <1>1, <2>1, IntervalIs
  <2>4. y = z
    BY <2>1, <2>2, <2>3
  <2>5. QED BY <1>1, <2>1, <2>4
<1>6. UsesHeld
  <2>1. SUFFICES ASSUME NEW k \in Tiers, NEW iv \in Pieces(k), iv.uses # {} PROVE MayUse(iv, k)
    BY DEF UsesHeld
  <2>2. PICK b \in Bufs(prog) : iv.id.buf = b /\ iv.mem = b /\ iv.home = HomeOf(prog, b)
    BY <1>1, <2>1, IntervalIs
  <2>3. HomeOf(prog, b) \in Nat
    BY <1>1, HomeTyped
  <2>4. HomeOf(prog, b) = 0 => k = 0
    BY <1>1, <2>2, IntervalIs
  <2>5. QED BY <2>2, <2>3, <2>4 DEF MayUse
<1>7. FreshAtHome
  BY <1>1 DEF FreshAtHome
<1>8. QED BY <1>3, <1>4, <1>5, <1>6, <1>7 DEF Homes

LEMMA HomesStay ==
  ASSUME Homes, prog \in Programs, prog' = prog, evictedFor' = evictedFor, KeepsPieces
  PROVE  Homes'
<1>1. /\ Tiers' = Tiers /\ Bottom' = Bottom /\ 0 \in Tiers
      /\ \A k \in Tiers : \A y \in Pieces(k)' : \E z \in Pieces(k) : SamePiece(y, z)
  BY TargetTyped DEF Tiers, Bottom, KeepsPieces
<1>2. NoResidents'
  BY <1>1 DEF Homes, NoResidents, SamePiece
<1>3. Origins'
  BY <1>1 DEF Homes, Origins, SamePiece
<1>4. OfOneTier'
  <2>1. SUFFICES ASSUME NEW k \in Tiers, k # 0, NEW y \in Pieces(0)', NEW z \in Pieces(k)', y.mem = z.mem
                 PROVE  y.mem = NoMem
    BY <1>1 DEF OfOneTier
  <2>2. PICK yy \in Pieces(0) : SamePiece(y, yy)
    BY <1>1
  <2>3. PICK zz \in Pieces(k) : SamePiece(z, zz)
    BY <1>1
  <2>4. QED BY <2>1, <2>2, <2>3 DEF Homes, OfOneTier, SamePiece
<1>5. UsesHeld'
  <2>1. SUFFICES ASSUME ResidentsStay', NEW k \in Tiers, NEW y \in Pieces(k)', y.uses # {}
                 PROVE  MayUse(y, k)'
    BY <1>1 DEF UsesHeld
  <2>2. PICK z \in Pieces(k) : SamePiece(y, z)
    BY <1>1
  <2>3. ResidentsStay
    BY <2>1 DEF ResidentsStay
  <2>4. MayUse(z, k)
    BY <2>1, <2>2, <2>3 DEF Homes, UsesHeld, SamePiece
  <2>5. QED BY <2>2, <2>4 DEF MayUse, SamePiece
<1>6. FreshAtHome'
  BY DEF Homes, FreshAtHome
<1>7. QED BY <1>2, <1>3, <1>4, <1>5, <1>6 DEF Homes
(* What an eviction makes of the pieces. *)
Makes(k, v, i, a, c, x, next, uses, n) ==
  /\ v \in Victims /\ Spills(k, v, i, a, c, x, next, uses, n) /\ Cut(x, a, c.start)
  /\ a \in Pieces(k) /\ c \in Pieces(k) /\ Sound(a) /\ Sound(c)
  /\ a.mem \in 1 .. n /\ c.mem \in 1 .. n /\ Len(prog.size) <= n
  /\ \A j \in Tiers : \A y \in Pieces(j) : y.mem \in 0 .. n
  /\ \A j \in Tiers : \A y \in Pieces(j)' :
       \/ y \in Pieces(j)
       \/ j = k /\ y = x
       \/ /\ j = k /\ Comes(a, next, uses) /\ y = Part(a, next, a.end, uses, n + 2)
          /\ y.id = a.id /\ y.mem = n + 2 /\ y.uses = uses
       \/ j = k + 1 /\ y.id = a.id /\ y.mem = n + 1 /\ y.uses = {}

LEMMA SpillMakes ==
  ASSUME ScanInv, Spill
  PROVE  /\ prog' = prog /\ phase' = phase /\ phase = "alloc" /\ allPlaced' = allPlaced /\ plan' = plan
         /\ handled' = handled /\ taken' = taken /\ stack # << >> /\ Cur # NoInterval /\ SureRoom = {}
         /\ \E k \in Tiers, v \in Ids, i \in Nat, a, c, x \in IntervalType, next \in Int, uses \in SUBSET Nat,
              n \in Nat :
              /\ k = Tier /\ k \in Nat /\ k + 1 \in Tiers /\ k < Bottom
              /\ Makes(k, v, i, a, c, x, next, uses, n)
<1>1. /\ prog' = prog /\ phase' = phase /\ phase = "alloc" /\ allPlaced' = allPlaced /\ plan' = plan
      /\ handled' = handled /\ taken' = taken /\ stack # << >> /\ Cur # NoInterval /\ SureRoom = {}
  BY SpillDoes
<1>2. PICK k \in Tiers : k = Tier /\ k \in Nat /\ k + 1 \in Tiers /\ k < Bottom
  BY SpillDoes
<1>3. PICK v \in Ids, i \in Nat, a, c, x \in IntervalType, next \in Int, uses \in SUBSET Nat, n \in Nat :
        v \in Victims /\ Spills(k, v, i, a, c, x, next, uses, n)
  BY <1>2, SpillDoes
<1>4. k + 1 # k
  BY <1>2
<1>5. /\ a \in Pieces(k) /\ c \in Pieces(k)
      /\ \A y \in Pieces(k)' : \/ y \in Pieces(k) \/ y = x
                               \/ Comes(a, next, uses) /\ y = Part(a, next, a.end, uses, n + 2)
      /\ \A y \in Pieces(k + 1)' : y \in Pieces(k + 1) \/ y = Part(a, c.start, next, {}, n + 1)
      /\ \A j \in Tiers \ {k, k + 1} : Pieces(j)' = Pieces(j)
  <2>1. Spills(k, v, i, a, c, x, next, uses, n)
    BY <1>3
  <2>2. k \in Tiers /\ k \in Nat /\ k + 1 \in Tiers /\ k + 1 # k
    BY <1>2, <1>4
  <2>3. QED BY ONLY ScanInv, k \in Tiers, v \in Ids, i \in Nat, a \in IntervalType, c \in IntervalType,
                    x \in IntervalType, next \in Int, uses \in SUBSET Nat, n \in Nat,
                    <2>1, <2>2, PiecesSpill
<1>6. n = Len(memrefs) /\ Len(prog.size) <= n
  BY <1>3 DEF Spills, ScanInv, MemrefsTyped
<1>7. \A j \in Tiers : \A y \in Pieces(j) : y.mem \in 0 .. n
  BY <1>6, PiecesTyped DEF Sound
<1>8. a.mem \in 1 .. n /\ c.mem \in 1 .. n
  <2>1. a.mem # 0 /\ c.mem # 0
    BY <1>3 DEF Spills, NoMem
  <2>2. a.mem \in 0 .. n /\ c.mem \in 0 .. n
    BY <1>5, <1>7
  <2>3. QED BY <2>1, <2>2
<1>9. PICK R \in IntervalType : /\ R = Part(a, next, a.end, uses, n + 2) /\ R.id = a.id /\ R.mem = n + 2
                                /\ R.uses = uses
  <2>1. n + 2 \in Nat /\ a.end \in Int
    BY DEF IntervalType
  <2>2. QED BY <2>1, PartTyped
<1>10. PICK S \in IntervalType : S = Part(a, c.start, next, {}, n + 1) /\ S.id = a.id /\ S.mem = n + 1 /\ S.uses = {}
  <2>1. n + 1 \in Nat /\ c.start \in Int /\ {} \in SUBSET Nat
    BY DEF IntervalType
  <2>2. QED BY <2>1, PartTyped
<1>11. ASSUME NEW j \in Tiers, NEW y \in Pieces(j)'
       PROVE  \/ y \in Pieces(j)
              \/ j = k /\ y = x
              \/ /\ j = k /\ Comes(a, next, uses) /\ y = Part(a, next, a.end, uses, n + 2)
                 /\ y.id = a.id /\ y.mem = n + 2 /\ y.uses = uses
              \/ j = k + 1 /\ y.id = a.id /\ y.mem = n + 1 /\ y.uses = {}
  <2>1. CASE j = k
    BY <1>5, <1>9, <1>11, <2>1
  <2>2. CASE j = k + 1
    BY <1>5, <1>10, <1>11, <2>2
  <2>3. CASE j \notin {k, k + 1}
    BY <1>5, <1>11, <2>3
  <2>4. QED BY <2>1, <2>2, <2>3
<1>12. Makes(k, v, i, a, c, x, next, uses, n)
  <2>1. Sound(a) /\ Sound(c) /\ Cut(x, a, c.start)
    BY <1>3 DEF Spills
  <2>2. QED BY <1>3, <1>5, <1>6, <1>7, <1>8, <1>11, <2>1 DEF Makes
<1>13. QED BY <1>1, <1>2, <1>12

LEMMA HomesSpill == ScanInv /\ Homes /\ Spill => Homes'
<1> SUFFICES ASSUME ScanInv, Homes, Spill PROVE Homes'
  OBVIOUS
<1>1. prog' = prog /\ Tiers' = Tiers /\ Bottom' = Bottom /\ prog \in Programs /\ 0 \in Tiers
  BY SpillMakes, TargetTyped DEF Tiers, Bottom, ScanInv
<1>2. PICK k \in Tiers, v \in Ids, i \in Nat, a, c, x \in IntervalType, next \in Int, uses \in SUBSET Nat,
           n \in Nat :
        k = Tier /\ k \in Nat /\ k + 1 \in Tiers /\ k < Bottom /\ Makes(k, v, i, a, c, x, next, uses, n)
  BY SpillMakes
<1>3. /\ x.id = a.id /\ x.start = a.start /\ x.mem = a.mem /\ (x.uses # {} => a.uses # {})
      /\ (uses # {} => a.uses # {}) /\ a \in Pieces(k) /\ a.mem \in 1 .. n /\ a.mem # NoMem
      /\ evictedFor' = evictedFor \cup {<<k, c.mem, a.mem>>}
  BY <1>2 DEF Makes, Cut, UsesBefore, Spills, NoMem
<1>4. /\ \A j \in Tiers : \A y \in Pieces(j) : y.mem \in 0 .. n
      /\ \A j \in Tiers : \A y \in Pieces(j)' :
           \/ y \in Pieces(j)
           \/ j = k /\ y = x
           \/ j = k /\ y.id = a.id /\ y.mem = n + 2 /\ y.uses = uses
           \/ j = k + 1 /\ y.id = a.id /\ y.mem = n + 1 /\ y.uses = {}
  BY <1>2 DEF Makes
<1>5. k + 1 # 0 /\ Bottom > 0
  BY <1>1, <1>2, TargetTyped
<1>6. n + 1 \notin Bufs(prog) /\ n + 2 \notin Bufs(prog) /\ n + 1 \notin 0 .. n /\ n + 2 \notin 0 .. n
  <2>1. Bufs(prog) = 1 .. Len(prog.size) /\ Len(prog.size) \in Nat /\ Len(prog.size) <= n
    BY <1>1, <1>2, FunctionTyped DEF Makes
  <2>2. QED BY <2>1
<1>7. NoResidents'
  <2>1. SUFFICES ASSUME NEW y \in Pieces(0)', y.mem # NoMem PROVE HomeOf(prog, y.id.buf) = 0
    BY <1>1 DEF NoResidents
  <2>2. k = 0 => HomeOf(prog, a.id.buf) = 0
    BY <1>3, <1>5 DEF Homes, NoResidents
  <2>3. \A z \in Pieces(0) : z.mem # NoMem => HomeOf(prog, z.id.buf) = 0
    BY <1>5 DEF Homes, NoResidents
  <2>4. QED BY <1>1, <1>3, <1>4, <1>5, <2>1, <2>2, <2>3
<1>8. Origins'
  <2>1. SUFFICES ASSUME NEW y \in Pieces(0)', y.mem \in Bufs(prog)
                 PROVE  y.id.buf = y.mem /\ y.start = DefTime(prog, y.mem)
    BY <1>1 DEF Origins
  <2>2. y \in Pieces(0) \/ (k = 0 /\ y = x)
    BY <1>1, <1>4, <1>5, <1>6, <2>1
  <2>3. QED BY <1>3, <2>1, <2>2 DEF Homes, Origins
<1>9. OfOneTier'
  <2>1. SUFFICES ASSUME NEW j \in Tiers, j # 0, NEW y \in Pieces(0)', NEW z \in Pieces(j)', y.mem = z.mem,
                        y.mem # NoMem
                 PROVE  FALSE
    BY <1>1 DEF OfOneTier
  <2>2. \/ \E w \in Pieces(0) : w.mem = y.mem
        \/ k = 0 /\ y.mem = n + 2
    BY <1>1, <1>3, <1>4, <1>5, <2>1
  <2>3. \/ \E w \in Pieces(j) : w.mem = z.mem
        \/ j = k /\ z.mem = n + 2
        \/ z.mem = n + 1
    BY <1>3, <1>4, <2>1
  <2>4. n + 1 # n + 2
    OBVIOUS
  <2>5. QED BY <1>1, <1>4, <1>6, <2>1, <2>2, <2>3, <2>4 DEF Homes, OfOneTier
<1>10. UsesHeld'
  <2>1. SUFFICES ASSUME ResidentsStay', NEW j \in Tiers, NEW y \in Pieces(j)', y.uses # {}
                 PROVE  MayUse(y, j)'
    BY <1>1 DEF UsesHeld
  <2>2. ResidentsStay
    BY <1>1, <1>3, <2>1 DEF ResidentsStay
  <2>3. \A l \in Tiers : \A w \in Pieces(l) : w.uses # {} => MayUse(w, l)
    BY <2>2 DEF Homes, UsesHeld
  <2>4. a.mem \in Bufs(prog) => HomeOf(prog, a.mem) = 0
    <3>1. <<k, c.mem, a.mem>> \in evictedFor'
      BY <1>3
    <3>2. QED BY <1>1, <2>1, <3>1 DEF ResidentsStay
  <2>5. a.uses # {} => k = 0 /\ HomeOf(prog, a.id.buf) = 0
    BY <1>3, <2>3, <2>4 DEF MayUse
  <2>6. MayUse(y, j)
    <3>1. CASE y \in Pieces(j)
      BY <2>1, <2>3, <3>1
    <3>2. CASE y \notin Pieces(j)
      <4>1. j = k /\ a.uses # {} /\ y.id = a.id
        BY <1>3, <1>4, <2>1, <3>2
      <4>2. QED BY <2>5, <4>1 DEF MayUse
    <3>3. QED BY <3>1, <3>2
  <2>7. QED BY <1>1, <2>6 DEF MayUse
<1>11. FreshAtHome'
  <2>1. SUFFICES ASSUME NEW e \in evictedFor', e[1] = 0, e[3] \in Bufs(prog) PROVE HomeOf(prog, e[3]) = 0
    BY <1>1 DEF FreshAtHome
  <2>2. CASE e \in evictedFor
    BY <2>1, <2>2 DEF Homes, FreshAtHome
  <2>3. CASE e = <<k, c.mem, a.mem>>
    <3>1. k = 0 /\ e[3] = a.mem
      BY <2>1, <2>3
    <3>2. HomeOf(prog, a.id.buf) = 0 /\ a.id.buf = a.mem
      BY <1>3, <1>5, <2>1, <3>1 DEF Homes, NoResidents, Origins
    <3>3. QED BY <3>1, <3>2
  <2>4. QED BY <1>3, <2>1, <2>2, <2>3
<1>12. QED BY <1>7, <1>8, <1>9, <1>10, <1>11 DEF Homes

LEMMA HomesStep == ScanInv /\ GuardInv /\ Homes /\ [Next]_vars => Homes'
<1> SUFFICES ASSUME ScanInv, GuardInv, Homes, [Next]_vars PROVE Homes'
  OBVIOUS
<1>1. CASE Spill
  BY <1>1, HomesSpill
<1>2. CASE ~ Spill
  <2>1. /\ KeepsPieces /\ prog' = prog /\ evictedFor' = evictedFor
    <3>1. CASE Take
      BY <3>1, PiecesTake, TakeDoes DEF KeepsCode
    <3>2. CASE Place
      BY <3>2, PiecesPlace, PlaceDoes
    <3>3. CASE Return
      BY <3>3, PiecesReturn, ReturnDoes DEF KeepsCode
    <3>4. CASE GiveUp
      BY <3>4, PiecesGiveUp, GiveUpDoes DEF KeepsCode
    <3>5. QED BY <1>2, <3>1, <3>2, <3>3, <3>4, PiecesRest DEF Next
  <2>2. QED BY <2>1, HomesStay DEF ScanInv
<1>3. QED BY <1>1, <1>2

LEMMA HomesInvariant == Spec => []Homes
BY HomesInit, HomesStep, ScanWellFormed, GuardInvariant, PTL DEF Spec

(* Evictions of fresh buffers from tier 0 leave the residents at home.      *)
LEMMA FreshLeaveResidents ==
  ASSUME Homes, FreshEvictionsOnly
  PROVE  ResidentsStay
BY DEF Homes, FreshAtHome, FreshEvictionsOnly, ResidentsStay
-----------------------------------------------------------------------------
(* Once an allocation of tier 0 has failed, or is bound to fail, the pass   *)
(* will: an interval cannot have a place there when every offset is held by *)
(* a buffer that started before it and ended less than a guard ago, because *)
(* truncating those for it does not shorten the guard.                      *)
Blocks(a, c, o) ==
  a.start <= c.start /\ a.start <= a.end /\ c.start < a.end + prog.guard /\ ~ Apart(a, c, o)

Stuck ==
  prog.guard > 0 /\ \E c \in CurIn(stack, 0) : \A o \in 0 .. prog.caps[0] - c.size :
    o % prog.align = 0 => \E j \in Active(0) : Blocks(placed[0][j], c, o)

Lost == ~ allPlaced \/ ~ OkIn(stack, 0) \/ Stuck

(* What of tier 0 a step of another tier leaves alone. *)
ZeroAlone ==
  /\ unhandled'[0] = unhandled[0] /\ placed'[0] = placed[0] /\ handled'[0] = handled[0]
  /\ taken'[0] = taken[0] /\ SameCalls(stack, stack', 0)

LEMMA LostAlone ==
  ASSUME prog' = prog, ZeroAlone, allPlaced' => allPlaced, Lost
  PROVE  Lost'
<1>1. /\ placed'[0] = placed[0] /\ handled'[0] = handled[0] /\ CurIn(stack', 0) = CurIn(stack, 0)
      /\ (OkIn(stack', 0) <=> OkIn(stack, 0))
  BY DEF ZeroAlone, SameCalls
<1>2. Active(0)' = Active(0)
  BY <1>1 DEF Active
<1>3. Stuck => Stuck'
  BY <1>1, <1>2 DEF Stuck, Blocks, Apart
<1>4. QED BY <1>1, <1>3 DEF Lost

LEMMA ElsewhereZero ==
  ASSUME NEW S, Elsewhere(S), 0 \notin S, 0 \in Tiers
  PROVE  ZeroAlone
BY DEF Elsewhere, ZeroAlone

(* What is on top holds no reload. *)
LEMMA TopFree ==
  ASSUME ScanInv, Course, stack # << >>, NEW k, k = Tier
  PROVE  ReloadIn(stack, k) = {}
<1>1. /\ Len(stack) \in DOMAIN stack /\ Top = stack[Len(stack)] /\ k = stack[Len(stack)].tier
      /\ \A j \in DOMAIN stack : stack[j].tier = stack[Len(stack)].tier => j = Len(stack)
  BY TiersApart
<1>2. ReloadIn(stack, k) = {stack[Len(stack)].reload} \ {NoInterval}
  BY ONLY <1>1, OneCall
<1>3. QED BY <1>1, <1>2 DEF Course

(* Nothing is placed where everything is blocked. *)
LEMMA NoPlaceWhenStuck == ScanInv /\ GuardInv /\ Place /\ Tier = 0 => ~ Stuck
<1> SUFFICES ASSUME ScanInv, GuardInv, Place, Tier = 0, Stuck PROVE FALSE
  OBVIOUS
<1>1. stack # << >> /\ Cur # NoInterval
  BY PlaceDoes
<1>2. PICK d, e \in Seq(IntervalType), x, c \in IntervalType, o \in Nat : Places(0, d, e, x, c, o)
  BY PlaceDoes
<1>3. x = Cur /\ CurIn(stack, 0) = {x} /\ o \in Room /\ d = placed[0]
  BY <1>2 DEF Places
<1>4. o \in 0 .. prog.caps[0] - x.size /\ o % prog.align = 0
  BY <1>3 DEF Room, Offsets
<1>5. PICK j \in Active(0) : Blocks(placed[0][j], x, o)
  BY <1>3, <1>4 DEF Stuck
<1>6. PICK a \in IntervalType : a = d[j] /\ a \in Residents(0)
  BY <1>3 DEF Active, Residents
<1>7. a.start \in Int /\ a.end \in Int /\ x.start \in Int /\ x.end \in Int /\ prog.guard \in Nat
      /\ x.start < x.end /\ prog.guard > 0
  BY <1>1, <1>3, PlacingLast DEF IntervalType, Stuck
<1>8. a.start <= x.start /\ a.start <= a.end /\ x.start < a.end + prog.guard /\ ~ Apart(a, x, o)
  BY <1>3, <1>5, <1>6 DEF Blocks
<1>9. ~ Empty(a) /\ Meets(a, x)
  BY <1>7, <1>8 DEF Empty, Meets
<1>10. Apart(a, x, o)
  BY <1>3, <1>6, <1>9 DEF Room
<1>11. QED BY <1>8, <1>10

LEMMA LostSpill == ScanInv /\ GuardInv /\ Lost /\ Spill => Lost'
<1> SUFFICES ASSUME ScanInv, GuardInv, Lost, Spill PROVE Lost'
  OBVIOUS
<1>1. /\ prog' = prog /\ allPlaced' = allPlaced /\ handled' = handled /\ stack # << >> /\ Cur # NoInterval
      /\ 0 \in Tiers
  BY SpillDoes, TargetTyped DEF ScanInv
<1>2. PICK k \in Tiers : k = Tier /\ k \in Nat /\ k + 1 \in Tiers
  BY SpillDoes
<1>3. PICK v \in Ids, i \in Nat, a, c, x \in IntervalType, next \in Int, uses \in SUBSET Nat, n \in Nat :
        Spills(k, v, i, a, c, x, next, uses, n)
  BY <1>2, SpillDoes
<1>4. CASE k # 0
  <2>1. 0 \notin {k, k + 1} /\ Elsewhere({k, k + 1})
    BY <1>2, <1>3, <1>4 DEF Spills
  <2>2. ZeroAlone
    BY <1>1, <2>1, ElsewhereZero
  <2>3. QED BY <1>1, <2>2, LostAlone
<1>5. CASE k = 0
  <2>1. /\ i \in Active(0) /\ a = placed[0][i] /\ placed'[0][i] = x /\ Cut(x, a, c.start) /\ c = Cur
        /\ DOMAIN placed'[0] = DOMAIN placed[0]
        /\ \A j \in DOMAIN placed[0] : j # i => placed'[0][j] = placed[0][j]
        /\ CurIn(stack, 0) = {c} /\ CurIn(stack', 0) = {c} /\ (OkIn(stack', 0) <=> OkIn(stack, 0))
    BY <1>3, <1>5 DEF Spills
  <2>2. Active(0)' = Active(0) /\ Active(0) \subseteq DOMAIN placed[0]
    BY <1>1, <2>1 DEF Active
  <2>3. prog.guard \in Nat /\ c.start \in Int /\ a.start \in Int
    BY FunctionTyped DEF ScanInv, IntervalType
  <2>4. ASSUME prog.guard > 0, NEW o, Blocks(a, c, o) PROVE Blocks(x, c, o)
    BY <2>1, <2>3, <2>4 DEF Blocks, Apart, Cut
  <2>5. ASSUME prog.guard > 0, NEW o, NEW j \in Active(0), Blocks(placed[0][j], c, o)
        PROVE  Blocks(placed'[0][j], c, o)
    BY <2>1, <2>2, <2>4, <2>5
  <2>6. ASSUME Stuck PROVE Stuck'
    <3>1. prog.guard > 0 /\ \A o \in 0 .. prog.caps[0] - c.size :
            o % prog.align = 0 => \E j \in Active(0) : Blocks(placed[0][j], c, o)
      BY <2>1, <2>6 DEF Stuck
    <3>2. \A o \in 0 .. prog.caps[0] - c.size :
            o % prog.align = 0 => \E j \in Active(0) : Blocks(placed'[0][j], c, o)
      BY <2>5, <3>1
    <3>3. \A o \in 0 .. prog'.caps[0] - c.size :
            o % prog'.align = 0 => \E j \in Active(0)' : Blocks(placed[0][j], c, o)'
      BY <1>1, <2>2, <3>2 DEF Blocks, Apart
    <3>4. QED BY <1>1, <2>1, <3>1, <3>3 DEF Stuck, Blocks, Apart
  <2>7. QED BY <1>1, <2>1, <2>6 DEF Lost
<1>6. QED BY <1>4, <1>5

LEMMA LostStays == ScanInv /\ GuardInv /\ Lost /\ [Next]_vars => Lost'
<1> SUFFICES ASSUME ScanInv, GuardInv, Lost, [Next]_vars PROVE Lost'
  OBVIOUS
<1>1. 0 \in Tiers
  BY TargetTyped DEF ScanInv
<1>2. CASE Spill
  BY <1>2, LostSpill
<1>3. CASE Take
  <2>1. prog' = prog /\ allPlaced' = allPlaced
    BY <1>3, TakeDoes
  <2>2. PICK k : k = Tier
    OBVIOUS
  <2>3. CurIn(stack, k) = {} /\ (OkIn(stack', k) <=> OkIn(stack, k)) /\ Elsewhere({k})
    BY <1>3, <2>2, TakeDoes DEF Takes
  <2>4. CASE k = 0
    BY <2>1, <2>3, <2>4 DEF Lost, Stuck
  <2>5. CASE k # 0
    <3>1. ZeroAlone
      BY <1>1, <2>3, <2>5, ElsewhereZero
    <3>2. QED BY <2>1, <3>1, LostAlone
  <2>6. QED BY <2>4, <2>5
<1>4. CASE Place
  <2>1. prog' = prog /\ allPlaced' = allPlaced
    BY <1>4, PlaceDoes
  <2>2. PICK k : k = Tier
    OBVIOUS
  <2>3. (OkIn(stack', k) <=> OkIn(stack, k)) /\ Elsewhere({k})
    <3>1. PICK d, e \in Seq(IntervalType), x, c \in IntervalType, o \in Nat : Places(k, d, e, x, c, o)
      BY <1>4, <2>2, PlaceDoes
    <3>2. QED BY <3>1 DEF Places
  <2>4. CASE k = 0
    BY <1>4, <2>1, <2>2, <2>3, <2>4, NoPlaceWhenStuck DEF Lost
  <2>5. CASE k # 0
    <3>1. ZeroAlone
      BY <1>1, <2>3, <2>5, ElsewhereZero
    <3>2. QED BY <2>1, <3>1, LostAlone
  <2>6. QED BY <2>4, <2>5
<1>5. CASE GiveUp
  <2>1. prog' = prog /\ allPlaced' = allPlaced
    BY <1>5, GiveUpDoes
  <2>2. PICK k : k = Tier
    OBVIOUS
  <2>3. ~ OkIn(stack', k) /\ Elsewhere({k})
    BY <1>5, <2>2, GiveUpDoes
  <2>4. CASE k = 0
    BY <2>3, <2>4 DEF Lost
  <2>5. CASE k # 0
    <3>1. ZeroAlone
      BY <1>1, <2>3, <2>5, ElsewhereZero
    <3>2. QED BY <2>1, <3>1, LostAlone
  <2>6. QED BY <2>4, <2>5
<1>6. CASE Return
  <2>1. prog' = prog /\ placed' = placed /\ handled' = handled
    BY <1>6, ReturnDoes
  <2>2. PICK l : l = Tier /\ CurIn(stack, l) = {} /\ l \in Nat
    BY <1>6, ReturnDoes
  <2>3. CASE ReturnsToNone
    <3>1. (allPlaced' <=> allPlaced /\ OkIn(stack, l)) /\ Elsewhere({l})
      BY <2>2, <2>3 DEF ReturnsToNone
    <3>2. CASE l = 0
      BY <2>2, <3>1, <3>2 DEF Lost, Stuck
    <3>3. CASE l # 0
      <4>1. ZeroAlone
        BY <1>1, <3>1, <3>3, ElsewhereZero
      <4>2. QED BY <2>1, <3>1, <4>1, LostAlone
    <3>4. QED BY <3>2, <3>3
  <2>4. ASSUME NEW k \in Tiers, k \in Nat, ReturnsTo(k) PROVE Lost'
    <3>1. /\ allPlaced' = allPlaced /\ CurIn(stack', k) = CurIn(stack, k) /\ l = k + 1
          /\ (OkIn(stack', k) <=> OkIn(stack, k)) /\ Elsewhere({k, l})
      BY <2>2, <2>4 DEF ReturnsTo
    <3>2. CASE k = 0
      <4>1. Stuck => Stuck'
        BY <2>1, <3>1, <3>2 DEF Stuck, Blocks, Apart, Active
      <4>2. QED BY <3>1, <3>2, <4>1 DEF Lost
    <3>3. CASE k # 0
      <4>1. 0 \notin {k, l}
        BY <2>4, <3>1, <3>3
      <4>2. ZeroAlone
        BY <1>1, <3>1, <4>1, ElsewhereZero
      <4>3. QED BY <2>1, <3>1, <4>2, LostAlone
    <3>4. QED BY <3>2, <3>3
  <2>5. QED BY <1>6, <2>3, <2>4, ReturnDoes
<1>7. CASE ~ (Spill \/ Take \/ Place \/ GiveUp \/ Return)
  <2>1. /\ prog' = prog /\ unhandled' = unhandled /\ placed' = placed /\ handled' = handled
        /\ taken' = taken /\ allPlaced' = allPlaced /\ SameCalls(stack, stack', 0)
    BY <1>7, PiecesRest DEF Next
  <2>2. ZeroAlone
    BY <2>1 DEF ZeroAlone
  <2>3. QED BY <2>1, <2>2, LostAlone
<1>8. QED BY <1>2, <1>3, <1>4, <1>5, <1>6, <1>7
-----------------------------------------------------------------------------
(* As long as nothing is lost, tier 0 takes its intervals in order, and the *)
(* pieces of one buffer in it follow each other: none waits or is placed    *)
(* while another one is active, unless that one has ended.                  *)
WaitsInZero == Range(unhandled[0]) \cup ReloadIn(stack, 0)

InTurn ==
  /\ \A i, j \in DOMAIN unhandled[0] : i < j => unhandled[0][i].start <= unhandled[0][j].start
  /\ \A iv \in WaitsInZero : Now <= iv.start
  /\ InOrder(0)
  /\ \A j \in Active(0) : placed[0][j].start <= Now /\ placed[0][j].start <= placed[0][j].end

NoTwins ==
  /\ \A i, j \in DOMAIN unhandled[0] : unhandled[0][i].id = unhandled[0][j].id => i = j
  /\ \A iv \in Range(unhandled[0]), x \in CurIn(stack, 0) \cup ReloadIn(stack, 0) : iv.id # x.id
  /\ \A c \in CurIn(stack, 0), r \in ReloadIn(stack, 0) : c.id # r.id
  /\ \A iv \in WaitsInZero, j \in Active(0) :
       placed[0][j].id = iv.id => prog.guard = 0 /\ placed[0][j].end <= Now
  /\ \A c \in CurIn(stack, 0), j \in Active(0) : placed[0][j].id # c.id
  /\ \A i, j \in Active(0) : placed[0][i].id = placed[0][j].id => i = j

(* The memrefs of what tier 0 holds are marked so. *)
MarkedZero ==
  \A j \in DOMAIN placed[0] : placed[0][j].mem # NoMem => memrefs[placed[0][j].mem].tier = 0

ZeroInv == Lost \/ (InTurn /\ NoTwins /\ MarkedZero)

LEMMA NowTyped ==
  ASSUME ScanInv, GuardInv
  PROVE  /\ 0 \in Tiers /\ Now \in Int /\ prog.guard \in Nat
         /\ InOrder(0) => \A n \in DOMAIN taken[0] : taken[0][n] \in Int /\ taken[0][n] <= Now
         /\ \A c \in CurIn(stack, 0) : c \in IntervalType /\ c.start = Now /\ c.start < c.end
         /\ unhandled[0] \in Seq(IntervalType) /\ placed[0] \in Seq(IntervalType)
         /\ taken[0] \in Seq(Int)
<1>1. 0 \in Tiers /\ prog.guard \in Nat
  BY TargetTyped, FunctionTyped DEF ScanInv
<1>2. unhandled[0] \in Seq(IntervalType) /\ placed[0] \in Seq(IntervalType)
  BY <1>1 DEF ScanInv, QueuesTyped
<1>3. PICK t \in Seq(Int) : t = taken[0]
  BY <1>1 DEF GuardInv
<1>4. PICK n \in Nat : n = Len(t) /\ DOMAIN t = 1 .. n /\ \A i \in 1 .. n : t[i] \in Int
  BY LenProperties, ElementOfSeq
<1>5. t # << >> => n \in 1 .. n
  BY <1>4
<1>6. Now \in Int /\ (t # << >> => Now = t[n])
  BY <1>3, <1>4, <1>5 DEF Now
<1>7. InOrder(0) => \A i \in DOMAIN t : t[i] \in Int /\ t[i] <= Now
  <2>1. SUFFICES ASSUME InOrder(0), NEW i \in 1 .. n PROVE t[i] \in Int /\ t[i] <= Now
    BY <1>4
  <2>2. t # << >> /\ n \in 1 .. n
    BY <1>4
  <2>3. CASE i = n
    BY <1>4, <1>6, <2>2, <2>3
  <2>4. CASE i # n
    <3>1. i < n
      BY <2>4
    <3>2. QED BY <1>3, <1>4, <1>6, <2>1, <2>2, <3>1 DEF InOrder
  <2>5. QED BY <2>3, <2>4
<1>8. ASSUME NEW c \in CurIn(stack, 0) PROVE c \in IntervalType /\ c.start = Now /\ c.start < c.end
  <2>1. PICK i \in DOMAIN stack : stack[i].tier = 0 /\ c = stack[i].cur /\ c # NoInterval
    BY <1>8 DEF CurIn, CallsIn
  <2>2. c \in IntervalType
    BY <2>1, TiersApart DEF FrameType
  <2>3. Latest(stack[i])
    BY <2>1 DEF GuardInv
  <2>4. t # << >> /\ c.start = t[Len(t)] /\ c.start < c.end
    BY <1>3, <2>1, <2>3 DEF Latest
  <2>5. QED BY <1>4, <1>6, <2>2, <2>4
<1>9. QED BY <1>1, <1>2, <1>3, <1>6, <1>7, <1>8

LEMMA ZeroInit == Init => ZeroInv
<1> SUFFICES ASSUME Init PROVE InTurn /\ NoTwins /\ MarkedZero
  BY DEF ZeroInv
<1>1. /\ 0 \in Tiers /\ prog \in Programs /\ unhandled[0] \in Seq(IntervalType)
      /\ Range(unhandled[0]) \subseteq Intervals(prog)
      /\ placed[0] = << >> /\ taken[0] = << >> /\ CurIn(stack, 0) = {} /\ ReloadIn(stack, 0) = {}
      /\ \A i, j \in DOMAIN unhandled[0] :
           i < j => unhandled[0][i] # unhandled[0][j] /\ unhandled[0][i].start <= unhandled[0][j].start
  BY FirstPieces
<1>2. Active(0) = {} /\ DOMAIN placed[0] = {} /\ Now = 0
  BY <1>1 DEF Active, Now
<1>3. \A iv \in Intervals(prog) : iv.start \in Nat
  <2>1. Times(prog) \subseteq Nat
    BY <1>1, FunctionTyped
  <2>2. QED BY <1>1, <2>1, IntervalIs
<1>4. \A iv \in WaitsInZero : Now <= iv.start
  BY <1>1, <1>2, <1>3 DEF WaitsInZero
<1>5. InOrder(0)
  BY <1>1 DEF InOrder
<1>6. ASSUME NEW i \in DOMAIN unhandled[0], NEW j \in DOMAIN unhandled[0],
             unhandled[0][i].id = unhandled[0][j].id
      PROVE  i = j
  <2>1. PICK x, y \in Intervals(prog) : x = unhandled[0][i] /\ y = unhandled[0][j] /\ x.id = y.id
    BY <1>1, <1>6, InRange
  <2>2. x = y
    <3>1. CASE \E b \in Bufs(prog) : x = BufInterval(prog, b) /\ x.id = IdOf(b)
      <4>1. PICK b \in Bufs(prog) : x = BufInterval(prog, b) /\ y.id.buf = b /\ y.id.stage = -1
        BY <2>1, <3>1 DEF IdOf
      <4>2. CASE \E d \in Bufs(prog) : y = BufInterval(prog, d) /\ y.id = IdOf(d) /\ y.id.buf = d
        BY <4>1, <4>2
      <4>3. CASE \E d \in Bufs(prog), t \in Times(prog), k \in Nat : y.id = [buf |-> d, stage |-> k, use |-> t]
        <5>1. PICK k \in Nat : y.id.stage = k
          BY <4>3
        <5>2. QED BY <4>1, <5>1
      <4>4. QED BY <1>1, <4>2, <4>3, IntervalIs, ZenonT(60)
    <3>2. CASE \E b \in Bufs(prog), t \in Times(prog), k \in Nat :
                 x = Stage(prog, b, t, k) /\ x.id = [buf |-> b, stage |-> k, use |-> t]
      <4>1. PICK b \in Bufs(prog), t \in Times(prog), k \in Nat :
                   x = Stage(prog, b, t, k) /\ y.id = [buf |-> b, stage |-> k, use |-> t]
        BY <2>1, <3>2
      <4>2. y.id.buf = b /\ y.id.stage = k /\ y.id.use = t
        BY <4>1
      <4>3. CASE \E d \in Bufs(prog) : y.id = IdOf(d)
        <5>1. y.id.stage = -1
          BY <4>3 DEF IdOf
        <5>2. QED BY <4>2, <5>1
      <4>4. CASE \E d \in Bufs(prog), s \in Times(prog), l \in Nat :
                   y = Stage(prog, d, s, l) /\ y.id = [buf |-> d, stage |-> l, use |-> s]
        <5>1. PICK d \in Bufs(prog), s \in Times(prog), l \in Nat :
                y = Stage(prog, d, s, l) /\ y.id = [buf |-> d, stage |-> l, use |-> s]
          BY <4>4
        <5>2. y.id.buf = d /\ y.id.stage = l /\ y.id.use = s
          BY <5>1
        <5>3. QED BY <4>1, <4>2, <5>1, <5>2
      <4>5. QED BY <1>1, <4>3, <4>4, IntervalIs, ZenonT(60)
    <3>3. QED BY <1>1, <3>1, <3>2, IntervalIs
  <2>3. DOMAIN unhandled[0] \subseteq Nat
    BY <1>1
  <2>4. ~ (i < j) /\ ~ (j < i)
    BY <1>1, <2>1, <2>2
  <2>5. QED BY <2>3, <2>4
<1>7. InTurn
  BY <1>1, <1>2, <1>4, <1>5 DEF InTurn
<1>8. NoTwins
  BY <1>1, <1>2, <1>6 DEF NoTwins
<1>9. MarkedZero
  BY <1>2 DEF MarkedZero
<1>10. QED BY <1>7, <1>8, <1>9

(* A step of another tier. *)
LEMMA TurnAlone ==
  ASSUME prog' = prog, ZeroAlone, InTurn, NoTwins
  PROVE  InTurn' /\ NoTwins'
<1>1. /\ Now' = Now /\ Active(0)' = Active(0) /\ WaitsInZero' = WaitsInZero
      /\ (InOrder(0)' <=> InOrder(0))
  BY DEF ZeroAlone, SameCalls, Now, Active, WaitsInZero, InOrder
<1>2. InTurn'
  BY <1>1 DEF ZeroAlone, InTurn
<1>3. NoTwins'
  BY <1>1 DEF ZeroAlone, SameCalls, NoTwins
<1>4. QED BY <1>2, <1>3

LEMMA TurnTake ==
  ASSUME ScanInv, GuardInv, Course, InTurn, NoTwins, Take, Tier = 0
  PROVE  InTurn' /\ NoTwins'
<1>1. prog' = prog /\ placed' = placed /\ stack # << >>
  BY TakeDoes
<1>2. PICK q, r \in Seq(IntervalType), iv \in IntervalType : Takes(0, q, r, iv)
  BY TakeDoes
<1>3. /\ q = unhandled[0] /\ unhandled'[0] = r /\ 1 \in DOMAIN q /\ q[1] = iv
      /\ Range(q) = Range(r) \cup {iv}
      /\ \A j \in DOMAIN r : j \in Nat /\ j > 0 /\ j + 1 \in DOMAIN q /\ r[j] = q[j + 1]
      /\ handled'[0] = handled[0] \cup {j \in Active(0) : Expired(placed[0][j], iv.start)}
      /\ taken'[0] = Append(taken[0], iv.start)
      /\ CurIn(stack, 0) = {} /\ CurIn(stack', 0) \subseteq {iv}
      /\ ReloadIn(stack', 0) = ReloadIn(stack, 0)
  BY <1>2 DEF Takes
<1>4. ReloadIn(stack, 0) = {} /\ ReloadIn(stack', 0) = {}
  BY <1>1, <1>3, TopFree
<1>5. /\ Now \in Int /\ prog.guard \in Nat /\ taken[0] \in Seq(Int) /\ placed[0] \in Seq(IntervalType)
      /\ InOrder(0) /\ \A n \in DOMAIN taken[0] : taken[0][n] \in Int /\ taken[0][n] <= Now
  BY NowTyped DEF InTurn
<1>6. Active(0)' = Active(0) \ {j \in Active(0) : Expired(placed[0][j], iv.start)}
  BY <1>1, <1>3 DEF Active
<1>7. iv \in Range(q) /\ iv.start \in Int /\ Now <= iv.start
  BY <1>3 DEF InTurn, WaitsInZero, IntervalType
<1>8. PICK t \in Seq(Int) : t = taken[0] /\ \A n \in DOMAIN t : t[n] <= Now
  BY <1>5
<1>9. PICK u \in Seq(Int) : /\ u = Append(t, iv.start) /\ u = taken'[0]
  BY <1>3, <1>7, <1>8, AppendProperties
<1>10. /\ Len(t) \in Nat /\ DOMAIN t = 1 .. Len(t) /\ Len(u) = Len(t) + 1 /\ DOMAIN u = 1 .. Len(t) + 1
       /\ \A n \in DOMAIN t : u[n] = t[n] /\ t[n] \in Int
       /\ u[Len(t) + 1] = iv.start /\ u # << >>
  <2>1. PICK s \in Int : s = iv.start
    BY <1>7
  <2>2. u = Append(t, s)
    BY <1>9, <2>1
  <2>3. /\ Len(u) = Len(t) + 1 /\ u[Len(t) + 1] = s /\ \A n \in DOMAIN t : u[n] = t[n]
    BY <2>2, Appended
  <2>4. Len(t) \in Nat /\ DOMAIN t = 1 .. Len(t) /\ \A n \in DOMAIN t : t[n] \in Int
    BY LenProperties, ElementOfSeq
  <2>5. DOMAIN u = 1 .. Len(u)
    BY LenProperties
  <2>6. u # << >>
    <3>1. Len(<< >>) = 0
      OBVIOUS
    <3>2. QED BY <2>3, <2>4, <3>1
  <2>7. QED BY <2>1, <2>3, <2>4, <2>5, <2>6
<1>11. Now' = iv.start
  BY <1>9, <1>10 DEF Now
<1>12. InOrder(0)'
  <2>1. SUFFICES ASSUME NEW i \in DOMAIN u, NEW j \in DOMAIN u, i < j PROVE u[i] <= u[j]
    BY <1>9 DEF InOrder
  <2>2. i \in DOMAIN t
    BY <1>10, <2>1
  <2>3. CASE j \in DOMAIN t
    BY <1>5, <1>8, <1>10, <2>1, <2>2, <2>3 DEF InOrder
  <2>4. CASE j \notin DOMAIN t
    <3>1. j = Len(t) + 1
      BY <1>10, <2>1, <2>4
    <3>2. u[i] \in Int /\ u[i] <= Now
      BY <1>8, <1>10, <2>2
    <3>3. QED BY <1>5, <1>7, <1>10, <3>1, <3>2
  <2>5. QED BY <2>3, <2>4
<1>13. \A i, j \in DOMAIN q : i < j => q[i].start <= q[j].start
  BY <1>3 DEF InTurn
<1>14. \A i, j \in DOMAIN r : i < j => r[i].start <= r[j].start
  <2>1. SUFFICES ASSUME NEW i \in DOMAIN r, NEW j \in DOMAIN r, i < j PROVE r[i].start <= r[j].start
    OBVIOUS
  <2>2. /\ i + 1 \in DOMAIN q /\ j + 1 \in DOMAIN q /\ r[i] = q[i + 1] /\ r[j] = q[j + 1]
        /\ i \in Nat /\ j \in Nat /\ i + 1 < j + 1
    BY <1>3, <2>1
  <2>3. QED BY <1>13, <2>2
<1>15. \A w \in Range(r) : iv.start <= w.start
  <2>1. SUFFICES ASSUME NEW j \in DOMAIN r PROVE iv.start <= r[j].start
    BY InRange
  <2>2. j + 1 \in DOMAIN q /\ r[j] = q[j + 1] /\ 1 < j + 1
    BY <1>3, <2>1
  <2>3. QED BY <1>3, <1>13, <2>2
<1>16. InTurn'
  <2>1. \A j \in Active(0)' : placed[0][j].start <= iv.start /\ placed[0][j].start <= placed[0][j].end
    <3>1. SUFFICES ASSUME NEW j \in Active(0)'
                   PROVE  placed[0][j].start <= iv.start /\ placed[0][j].start <= placed[0][j].end
      OBVIOUS
    <3>2. j \in Active(0) /\ j \in DOMAIN placed[0]
      BY <1>6, <3>1 DEF Active
    <3>3. placed[0][j] \in IntervalType
      BY <1>5, <3>2
    <3>4. placed[0][j].start \in Int
      BY <3>3 DEF IntervalType
    <3>5. QED BY <1>5, <1>7, <3>2, <3>4 DEF InTurn
  <2>2. \A w \in WaitsInZero' : iv.start <= w.start
    BY <1>3, <1>4, <1>15 DEF WaitsInZero
  <2>3. QED BY <1>1, <1>3, <1>11, <1>12, <1>14, <2>1, <2>2 DEF InTurn
<1>17. \A i, j \in DOMAIN q : q[i].id = q[j].id => i = j
  BY <1>3 DEF NoTwins
<1>18. \A i, j \in DOMAIN r : r[i].id = r[j].id => i = j
  <2>1. SUFFICES ASSUME NEW i \in DOMAIN r, NEW j \in DOMAIN r, r[i].id = r[j].id PROVE i = j
    OBVIOUS
  <2>2. i + 1 = j + 1 /\ i \in Nat /\ j \in Nat
    BY <1>3, <1>17, <2>1, SMTT(30)
  <2>3. QED BY <2>2
<1>19. \A w \in Range(r) : w.id # iv.id
  <2>1. SUFFICES ASSUME NEW j \in DOMAIN r PROVE r[j].id # iv.id
    BY InRange
  <2>2. j + 1 \in DOMAIN q /\ r[j] = q[j + 1] /\ 1 # j + 1
    BY <1>3, <2>1
  <2>3. QED BY <1>3, <1>17, <2>2
<1>20. ASSUME NEW w \in Range(q), NEW j \in Active(0)', placed[0][j].id = w.id
       PROVE  prog.guard = 0 /\ placed[0][j].end <= iv.start /\ w.id # iv.id
  <2>1. j \in Active(0) /\ j \in DOMAIN placed[0] /\ ~ Expired(placed[0][j], iv.start)
    BY <1>6, <1>20 DEF Active
  <2>2. prog.guard = 0 /\ placed[0][j].end <= Now
    BY <1>3, <1>20, <2>1 DEF NoTwins, WaitsInZero
  <2>3. placed[0][j] \in IntervalType
    BY <1>5, <2>1
  <2>4. placed[0][j].end \in Int
    BY <2>3 DEF IntervalType
  <2>5. placed[0][j].end <= iv.start /\ placed[0][j].end + prog.guard <= iv.start
    BY <1>5, <1>7, <2>2, <2>4
  <2>6. QED BY <2>1, <2>5 DEF Expired
<1>21. \A w \in WaitsInZero' : w \in Range(r) /\ w \in Range(q)
  BY <1>3, <1>4 DEF WaitsInZero
<1>22. \A j \in Active(0)' : placed[0][j].id # iv.id
  BY <1>7, <1>20
<1>23. \A w \in WaitsInZero', j \in Active(0)' :
          placed[0][j].id = w.id => prog.guard = 0 /\ placed[0][j].end <= iv.start
  BY <1>20, <1>21
<1>24. \A i, j \in Active(0)' : placed[0][i].id = placed[0][j].id => i = j
  BY <1>6 DEF NoTwins
<1>25. NoTwins'
  BY <1>1, <1>3, <1>4, <1>11, <1>18, <1>19, <1>22, <1>23, <1>24 DEF NoTwins
<1>26. QED BY <1>16, <1>25

LEMMA TurnPlace ==
  ASSUME ScanInv, GuardInv, Course, InTurn, NoTwins, Place, Tier = 0
  PROVE  InTurn' /\ NoTwins'
<1>1. prog' = prog /\ unhandled' = unhandled /\ handled' = handled /\ taken' = taken /\ stack # << >>
  BY PlaceDoes
<1>2. PICK d, e \in Seq(IntervalType), x, c \in IntervalType, o \in Nat : Places(0, d, e, x, c, o)
  BY PlaceDoes
<1>3. PICK l : /\ d = placed[0] /\ e = placed'[0] /\ DOMAIN e = DOMAIN d \cup {l} /\ l \notin DOMAIN d /\ e[l] = c
               /\ \A j \in DOMAIN d : e[j] = d[j]
               /\ SamePiece(c, x) /\ CurIn(stack, 0) = {x} /\ CurIn(stack', 0) = {}
               /\ ReloadIn(stack', 0) = ReloadIn(stack, 0)
  BY <1>2 DEF Places
<1>4. ReloadIn(stack, 0) = {} /\ ReloadIn(stack', 0) = {}
  BY <1>1, <1>3, TopFree
<1>5. /\ 0 \in Tiers /\ Now \in Int /\ x.start = Now /\ x.start < x.end /\ Now' = Now
  BY <1>1, <1>3, NowTyped DEF Now
<1>6. Active(0) \subseteq DOMAIN d /\ Active(0)' \subseteq Active(0) \cup {l}
  BY <1>1, <1>3 DEF Active
<1>7. c.id = x.id /\ c.start = x.start /\ c.end = x.end
  BY <1>3 DEF SamePiece
<1>8. WaitsInZero' = Range(unhandled[0]) /\ WaitsInZero = Range(unhandled[0])
  BY <1>1, <1>4 DEF WaitsInZero
<1>9. InOrder(0)'
  BY <1>1 DEF InTurn, InOrder
<1>10. \A j \in Active(0)' : e[j].start <= Now /\ e[j].start <= e[j].end
  <2>1. SUFFICES ASSUME NEW j \in Active(0)' PROVE e[j].start <= Now /\ e[j].start <= e[j].end
    OBVIOUS
  <2>2. CASE j = l
    <3>1. c.start \in Int /\ c.end \in Int
      BY DEF IntervalType
    <3>2. QED BY <1>3, <1>5, <1>7, <2>2, <3>1
  <2>3. CASE j # l
    <3>1. j \in Active(0) /\ e[j] = placed[0][j]
      BY <1>3, <1>6, <2>1, <2>3
    <3>2. QED BY <3>1 DEF InTurn
  <2>4. QED BY <2>2, <2>3
<1>11. InTurn'
  BY <1>1, <1>3, <1>5, <1>8, <1>9, <1>10 DEF InTurn
<1>12. \A w \in Range(unhandled[0]) : w.id # c.id
  BY <1>3, <1>7 DEF NoTwins
<1>13. \A j \in Active(0) : e[j] = placed[0][j] /\ placed[0][j].id # c.id
  BY <1>3, <1>6, <1>7 DEF NoTwins
<1>14. \A w \in Range(unhandled[0]), j \in Active(0)' : e[j].id = w.id => prog.guard = 0 /\ e[j].end <= Now
  <2>1. \A w \in Range(unhandled[0]), j \in Active(0) :
          placed[0][j].id = w.id => prog.guard = 0 /\ placed[0][j].end <= Now
    BY <1>8 DEF NoTwins
  <2>2. QED BY <1>3, <1>6, <1>12, <1>13, <2>1
<1>15. \A i, j \in Active(0)' : e[i].id = e[j].id => i = j
  <2>1. \A i, j \in Active(0) : placed[0][i].id = placed[0][j].id => i = j
    BY DEF NoTwins
  <2>2. QED BY <1>3, <1>6, <1>13, <2>1
<1>16. NoTwins'
  BY <1>1, <1>3, <1>4, <1>5, <1>8, <1>14, <1>15 DEF NoTwins
<1>17. QED BY <1>11, <1>16

(* A call of tier 1 returns to the one of tier 0. *)
LEMMA TurnReturn ==
  ASSUME ScanInv, GuardInv, InTurn, NoTwins, prog' = prog, placed' = placed, handled' = handled,
         taken' = taken, ReturnsTo(0)
  PROVE  InTurn' /\ NoTwins'
<1>1. /\ CurIn(stack', 0) = CurIn(stack, 0) /\ ReloadIn(stack', 0) = {}
      /\ \/ ReloadIn(stack, 0) = {} /\ unhandled'[0] = unhandled[0]
         \/ \E iv \in IntervalType : /\ ReloadIn(stack, 0) = {iv}
                                     /\ unhandled'[0] = AddUnhandled(unhandled[0], iv)
  BY DEF ReturnsTo
<1>2. /\ Now' = Now /\ Active(0)' = Active(0) /\ InOrder(0)' = InOrder(0)
  BY DEF Now, Active, InOrder
<1>3. CASE ReloadIn(stack, 0) = {} /\ unhandled'[0] = unhandled[0]
  <2>1. WaitsInZero' = WaitsInZero
    BY <1>1, <1>3 DEF WaitsInZero
  <2>2. QED BY <1>1, <1>2, <1>3, <2>1 DEF InTurn, NoTwins
<1>4. ASSUME NEW iv \in IntervalType, ReloadIn(stack, 0) = {iv},
             unhandled'[0] = AddUnhandled(unhandled[0], iv)
      PROVE  InTurn' /\ NoTwins'
  <2>1. PICK q \in Seq(IntervalType) : q = unhandled[0]
    BY NowTyped
  <2>2. \A i, j \in DOMAIN q : i < j => q[i].start <= q[j].start
    BY <2>1 DEF InTurn
  <2>3. PICK r : r = AddUnhandled(q, iv)
    OBVIOUS
  <2>4. /\ r \in Seq(IntervalType) /\ Range(r) = Range(q) \cup {iv}
        /\ \A i, j \in DOMAIN r : i < j => r[i].start <= r[j].start
        /\ \E p \in DOMAIN r : /\ r[p] = iv
                               /\ \A i \in DOMAIN r : i < p => i \in DOMAIN q /\ r[i] = q[i]
                               /\ \A i \in DOMAIN r : i > p => i - 1 \in DOMAIN q /\ r[i] = q[i - 1]
    <3>1. PICK e \in Seq(IntervalType), x \in IntervalType : e = q /\ x = iv
      OBVIOUS
    <3>2. \A i, j \in DOMAIN e : i < j => e[i].start <= e[j].start
      BY <2>2, <3>1
    <3>3. LET s == AddUnhandled(e, x)
          IN /\ s \in Seq(IntervalType) /\ Range(s) = Range(e) \cup {x}
             /\ \A i, j \in DOMAIN s : i < j => s[i].start <= s[j].start
             /\ \E p \in DOMAIN s : /\ s[p] = x
                                    /\ \A i \in DOMAIN s : i < p => i \in DOMAIN e /\ s[i] = e[i]
                                    /\ \A i \in DOMAIN s : i > p => i - 1 \in DOMAIN e /\ s[i] = e[i - 1]
      BY ONLY e \in Seq(IntervalType), x \in IntervalType, <3>2, QueuedInOrder, ZenonT(30)
    <3>4. PICK s : s = AddUnhandled(e, x)
      OBVIOUS
    <3>5. r = s
      BY <2>3, <3>1, <3>4
    <3>6. QED BY <3>1, <3>3, <3>4, <3>5
  <2>5. unhandled'[0] = r
    BY <1>4, <2>1, <2>3
  <2>6. WaitsInZero' = WaitsInZero /\ WaitsInZero = Range(q) \cup {iv}
    BY <1>1, <1>4, <2>1, <2>4, <2>5 DEF WaitsInZero
  <2>7. InTurn'
    BY <1>2, <2>4, <2>5, <2>6 DEF InTurn
  <2>8. PICK p \in DOMAIN r : /\ r[p] = iv
                              /\ \A i \in DOMAIN r : i < p => i \in DOMAIN q /\ r[i] = q[i]
                              /\ \A i \in DOMAIN r : i > p => i - 1 \in DOMAIN q /\ r[i] = q[i - 1]
    BY <2>4
  <2>9. \A w \in Range(q) : w.id # iv.id
    BY <1>4, <2>1 DEF NoTwins
  <2>10. \A i \in DOMAIN q : q[i].id # iv.id
    BY <2>9, InRange
  <2>11. \A i, j \in DOMAIN q : q[i].id = q[j].id => i = j
    BY <2>1 DEF NoTwins
  <2>12. DOMAIN r \subseteq Nat
    BY <2>4
  <2>13. ASSUME NEW i \in DOMAIN r, NEW j \in DOMAIN r, r[i].id = r[j].id PROVE i = j
    <3>1. i \in Nat /\ j \in Nat /\ p \in Nat
      BY <2>12
    <3>2. \A a \in DOMAIN r : a # p => r[a].id # iv.id
      <4>1. SUFFICES ASSUME NEW a \in DOMAIN r, a # p PROVE r[a].id # iv.id
        OBVIOUS
      <4>2. a < p \/ a > p
        BY <2>12, <3>1, <4>1
      <4>3. QED BY <2>8, <2>10, <4>2
    <3>3. CASE i = p \/ j = p
      BY <2>8, <2>13, <3>2, <3>3
    <3>4. CASE i < p /\ j < p
      BY <2>8, <2>11, <2>13, <3>4
    <3>5. CASE i > p /\ j > p
      <4>1. i - 1 = j - 1
        BY <2>8, <2>11, <2>13, <3>5
      <4>2. QED BY <3>1, <4>1
    <3>6. CASE i < p /\ j > p
      <4>1. i = j - 1
        BY <2>8, <2>11, <2>13, <3>6
      <4>2. QED BY <3>1, <3>6, <4>1
    <3>7. CASE i > p /\ j < p
      <4>1. i - 1 = j
        BY <2>8, <2>11, <2>13, <3>7
      <4>2. QED BY <3>1, <3>7, <4>1
    <3>8. QED BY <3>1, <3>3, <3>4, <3>5, <3>6, <3>7
  <2>14. \A w \in Range(r), c \in CurIn(stack, 0) : w.id # c.id
    BY <1>4, <2>1, <2>4 DEF NoTwins
  <2>15. NoTwins'
    BY <1>1, <1>2, <2>5, <2>6, <2>13, <2>14 DEF NoTwins
  <2>16. QED BY <2>7, <2>15
<1>5. QED BY <1>1, <1>3, <1>4

(* An eviction from tier 0 that loses nothing: there is no guard, and the   *)
(* victim lives on.                                                         *)
LEMMA SpillUnguarded ==
  ASSUME ScanInv, GuardInv, Spill, Tier = 0, ~ Lost, InTurn
  PROVE  prog.guard = 0
<1> SUFFICES ASSUME prog.guard # 0 PROVE FALSE
  OBVIOUS
<1>1. SureRoom = {} /\ stack # << >> /\ Cur # NoInterval
  BY SpillDoes
<1>2. PICK c \in IntervalType : /\ c = Cur /\ CurIn(stack, 0) = {c}
  BY SpillDoes DEF Spills
<1>3. prog.guard \in Nat /\ prog.guard > 0 /\ Now \in Int /\ c.start = Now /\ c.start < c.end
  BY <1>2, NowTyped
<1>4. ASSUME NEW o \in 0 .. prog.caps[0] - c.size, o % prog.align = 0
      PROVE  \E j \in Active(0) : Blocks(placed[0][j], c, o)
  <2>1. o \in Offsets(c)
    BY <1>4 DEF Offsets
  <2>2. \A a \in Residents(0) : ~ Empty(a)
    <3>1. SUFFICES ASSUME NEW j \in Active(0) PROVE ~ Empty(placed[0][j])
      BY DEF Residents
    <3>2. j \in DOMAIN placed[0] /\ placed[0] \in Seq(IntervalType)
      BY NowTyped DEF Active
    <3>3. PICK a \in IntervalType : a = placed[0][j]
      BY <3>2
    <3>4. a.start <= a.end /\ a.start \in Int /\ a.end \in Int
      BY <3>3 DEF InTurn, IntervalType
    <3>5. QED BY <1>3, <3>3, <3>4 DEF Empty
  <2>3. PICK a \in Residents(0) : Meets(a, c) /\ ~ Apart(a, c, o)
    BY <1>1, <1>2, <2>1, <2>2 DEF SureRoom, Room
  <2>4. PICK j \in Active(0) : a = placed[0][j]
    BY <2>3 DEF Residents
  <2>5. a.start <= c.start /\ a.start <= a.end
    BY <1>3, <2>4 DEF InTurn
  <2>6. Blocks(a, c, o)
    BY <2>3, <2>5 DEF Blocks, Meets
  <2>7. QED BY <2>4, <2>6
<1>5. Stuck
  BY <1>2, <1>3, <1>4 DEF Stuck
<1>6. QED BY <1>5 DEF Lost

LEMMA TurnSpill ==
  ASSUME ScanInv, GuardInv, Course, InTurn, NoTwins, Spill, Tier = 0, ~ Lost
  PROVE  InTurn' /\ NoTwins'
<1>1. prog' = prog /\ handled' = handled /\ taken' = taken /\ stack # << >> /\ prog.guard = 0
      /\ Cur # NoInterval
  BY SpillDoes, SpillUnguarded
<1>2. PICK v \in Ids, i \in Nat, a, c, x \in IntervalType, next \in Int, uses \in SUBSET Nat, n \in Nat :
        Spills(0, v, i, a, c, x, next, uses, n)
  BY SpillDoes
<1>3. /\ i \in Active(0) /\ i \in DOMAIN placed[0] /\ a = placed[0][i] /\ a.id = v /\ v \notin Top.excluded
      /\ Sound(a) /\ c = Cur /\ next = NextUse(a) /\ n = Len(memrefs)
      /\ DOMAIN placed'[0] = DOMAIN placed[0] /\ placed'[0][i] = x /\ Cut(x, a, c.start)
      /\ \A j \in DOMAIN placed[0] : j # i => placed'[0][j] = placed[0][j]
      /\ unhandled'[0] = unhandled[0]
      /\ CurIn(stack, 0) = {c} /\ CurIn(stack', 0) = {c}
      /\ ReloadIn(stack', 0) = IF Comes(a, next, uses) THEN {Part(a, next, a.end, uses, n + 2)} ELSE {}
  BY <1>2 DEF Spills
<1>4. ReloadIn(stack, 0) = {}
  BY <1>1, TopFree
<1>5. /\ Now' = Now /\ Active(0)' = Active(0) /\ InOrder(0)' = InOrder(0) /\ Active(0) \subseteq DOMAIN placed[0]
  BY <1>1, <1>3 DEF Now, Active, InOrder
<1>6. Now \in Int /\ c.start = Now /\ a.start \in Int /\ a.end \in Int
  BY <1>3, NowTyped DEF IntervalType
<1>7. a.end > Now
  <2>1. Latest(Top) /\ Top.tier = 0 /\ Top.cur = c
    BY <1>1, <1>3, PlacingLast
  <2>2. ~ (a.end + prog.guard <= c.start)
    BY <1>3, <2>1 DEF Latest, InTurn
  <2>3. QED BY <1>1, <1>6, <2>2
<1>8. Now <= next /\ next \in Int
  <2>1. \A u \in a.uses : u < a.end
    BY <1>3 DEF Sound
  <2>2. PICK now \in Int : now = Now /\ now = Cur.start /\ now < a.end
    BY <1>3, <1>6, <1>7
  <2>3. now <= NextUse(a) /\ NextUse(a) \in Int
    BY <2>1, <2>2, NextUseIsUse
  <2>4. QED BY <1>3, <2>2, <2>3
<1>9. \A r \in ReloadIn(stack', 0) : r.id = a.id /\ r.start = next
  <2>1. n + 2 \in Nat /\ a.end \in Int
    BY <1>6
  <2>2. PICK m \in Nat, e \in Int : m = n + 2 /\ e = a.end
    BY <2>1
  <2>3. PICK r : r = Part(a, next, e, uses, m)
    OBVIOUS
  <2>4. r.id = a.id /\ r.start = next
    BY ONLY a \in IntervalType, <2>3 DEF Part, IntervalType
  <2>5. QED BY <1>3, <2>2, <2>3, <2>4
<1>10. /\ x.id = a.id /\ x.start = a.start /\ x.end = Now
  BY <1>3, <1>6 DEF Cut
<1>11. PICK e : e = placed'[0] /\ e[i] = x /\ \A j \in DOMAIN placed[0] : j # i => e[j] = placed[0][j]
  BY <1>3
<1>12. \A j \in Active(0) : e[j].id = placed[0][j].id
  BY <1>3, <1>5, <1>10, <1>11
<1>13. \A j \in Active(0)' : e[j].start <= Now /\ e[j].start <= e[j].end
  <2>1. SUFFICES ASSUME NEW j \in Active(0) PROVE e[j].start <= Now /\ e[j].start <= e[j].end
    BY <1>5
  <2>2. placed[0][j].start <= Now /\ placed[0][j].start <= placed[0][j].end
    BY DEF InTurn
  <2>3. QED BY <1>3, <1>5, <1>10, <1>11, <2>2
<1>14. \A w \in WaitsInZero' : w \in Range(unhandled[0]) \/ (w.id = a.id /\ w.start = next)
  BY <1>3, <1>9 DEF WaitsInZero
<1>15. \A w \in Range(unhandled[0]) : w \in WaitsInZero /\ w.id # a.id /\ Now <= w.start
  <2>1. \A w \in Range(unhandled[0]) : w \in WaitsInZero
    BY DEF WaitsInZero
  <2>2. \A w \in WaitsInZero : w.id = a.id => a.end <= Now
    BY <1>3 DEF NoTwins
  <2>3. \A w \in WaitsInZero : w.id # a.id
    BY <1>6, <1>7, <2>2
  <2>4. QED BY <2>1, <2>3 DEF InTurn
<1>16. \A w \in WaitsInZero' : Now <= w.start
  BY <1>8, <1>14, <1>15
<1>17. \A j, l \in DOMAIN unhandled[0] : j < l => unhandled[0][j].start <= unhandled[0][l].start
  BY DEF InTurn
<1>18. InOrder(0)
  BY DEF InTurn
<1>19. InTurn'
  BY <1>3, <1>5, <1>11, <1>13, <1>16, <1>17, <1>18 DEF InTurn
<1>20. \A w \in WaitsInZero', j \in Active(0) : e[j].id = w.id => prog.guard = 0 /\ e[j].end <= Now
  <2>1. SUFFICES ASSUME NEW w \in WaitsInZero', NEW j \in Active(0), e[j].id = w.id PROVE e[j].end <= Now
    BY <1>1
  <2>2. CASE j = i
    BY <1>6, <1>10, <1>11, <2>2
  <2>3. CASE j # i
    <3>1. e[j] = placed[0][j] /\ placed[0][j].id # a.id
      BY <1>3, <1>5, <1>11, <2>3 DEF NoTwins
    <3>2. w \in WaitsInZero /\ placed[0][j].id = w.id
      BY <1>14, <1>15, <2>1, <3>1
    <3>3. QED BY <3>1, <3>2 DEF NoTwins
  <2>4. QED BY <2>2, <2>3
<1>21. \A w \in Range(unhandled[0]), y \in {c} \cup ReloadIn(stack', 0) : w.id # y.id
  <2>1. \A w \in Range(unhandled[0]) : w.id # c.id
    BY <1>3 DEF NoTwins
  <2>2. QED BY <1>9, <1>15, <2>1
<1>22. \A r \in ReloadIn(stack', 0) : c.id # r.id
  <2>1. a.id # c.id
    BY <1>3 DEF NoTwins
  <2>2. QED BY <1>9, <2>1
<1>23. \A j \in Active(0) : e[j].id # c.id
  BY <1>3, <1>12 DEF NoTwins
<1>24. \A j, l \in Active(0) : e[j].id = e[l].id => j = l
  BY <1>12 DEF NoTwins
<1>25. \A j, l \in DOMAIN unhandled[0] : unhandled[0][j].id = unhandled[0][l].id => j = l
  BY DEF NoTwins
<1>26. NoTwins'
  <2>1. /\ unhandled'[0] = unhandled[0] /\ CurIn(stack', 0) = {c} /\ placed'[0] = e
        /\ Active(0)' = Active(0) /\ Now' = Now /\ prog' = prog
    BY <1>1, <1>3, <1>5, <1>11
  <2>2. \A w \in Range(unhandled'[0]), y \in CurIn(stack', 0) \cup ReloadIn(stack', 0) : w.id # y.id
    BY <1>21, <2>1
  <2>3. \A y \in CurIn(stack', 0), r \in ReloadIn(stack', 0) : y.id # r.id
    BY <1>22, <2>1
  <2>4. \A y \in CurIn(stack', 0), j \in Active(0) : e[j].id # y.id
    BY <1>23, <2>1
  <2>5. QED BY <1>20, <1>24, <1>25, <2>1, <2>2, <2>3, <2>4 DEF NoTwins
<1>27. QED BY <1>19, <1>26

-----------------------------------------------------------------------------
(* The memrefs of tier 0 keep their mark. *)
LEMMA MarksStay ==
  ASSUME ScanInv, MarkedZero, \A m \in 1 .. Len(memrefs) : memrefs'[m] = memrefs[m],
         DOMAIN placed'[0] = DOMAIN placed[0], \A j \in DOMAIN placed[0] : placed'[0][j].mem = placed[0][j].mem
  PROVE  MarkedZero'
<1>1. 0 \in Tiers
  BY TargetTyped DEF ScanInv
<1>2. PICK n \in Nat : n = Len(memrefs)
  BY DEF ScanInv, MemrefsTyped
<1>3. \A j \in DOMAIN placed[0] : placed[0][j].mem \in 0 .. n
  <2>1. SUFFICES ASSUME NEW j \in DOMAIN placed[0] PROVE placed[0][j].mem \in 0 .. n
    OBVIOUS
  <2>2. placed[0][j] \in Range(placed[0])
    BY InRange
  <2>3. Sound(placed[0][j])
    BY <1>1, <2>2 DEF ScanInv, QueuesTyped
  <2>4. QED BY <1>2, <2>3 DEF Sound
<1>4. \A m \in 0 .. n : m # NoMem => m \in 1 .. n
  BY DEF NoMem
<1>5. QED BY <1>2, <1>3, <1>4 DEF MarkedZero

(* What is annotated is the interval placed or an active one with its id.   *)
LEMMA AnnotatedAt ==
  ASSUME ScanInv, stack # << >>, Cur # NoInterval, NEW k \in Tiers, k = Tier, NEW o
  PROVE  \E y \in Pieces(k) :
           /\ (\A j \in Active(k) : placed[k][j].id # Cur.id) => y = Cur
           /\ \A m \in 1 .. Len(memrefs) :
                /\ Annotated(k, o)[m].buf = memrefs[m].buf
                /\ m # y.mem => Annotated(k, o)[m] = memrefs[m]
                /\ m = y.mem => Annotated(k, o)[m].tier = k
<1>1. PICK c \in IntervalType : c = Cur /\ c \in Pieces(k)
  <2>1. Cur \in IntervalType /\ Len(stack) \in DOMAIN stack /\ stack[Len(stack)].tier = k /\ Cur = stack[Len(stack)].cur
    BY TopTyped DEF Tier, Cur
  <2>2. Cur \in CurIn(stack, k)
    BY <2>1 DEF CurIn, CallsIn
  <2>3. QED BY <2>1, <2>2 DEF Pieces
<1>2. PICK d \in Seq(IntervalType) : d = placed[k]
  BY DEF ScanInv, QueuesTyped
<1>3. PICK same \in SUBSET Nat : same = {j \in Active(k) : placed[k][j].id = Cur.id} /\ same \subseteq DOMAIN d
  <2>1. DOMAIN d \subseteq Nat
    OBVIOUS
  <2>2. QED BY <1>2, <2>1 DEF Active
<1>4. PICK y \in Pieces(k) : y = IF same = {} THEN Cur ELSE placed[k][First(k, Cur.id)]
  <2>1. CASE same = {}
    BY <1>1, <2>1
  <2>2. CASE same # {}
    <3>1. First(k, Cur.id) \in same
      BY <1>3, <2>2, MinIsLeast DEF First
    <3>2. placed[k][First(k, Cur.id)] \in Range(placed[k])
      BY <1>2, <1>3, <3>1, InRange
    <3>3. QED BY <2>2, <3>2 DEF Pieces
  <2>3. QED BY <2>1, <2>2
<1>5. PICK s \in Seq(MemrefType) : s = memrefs
  BY DEF ScanInv, MemrefsTyped
<1>6. PICK w : w = y.mem /\ w = IF same = {} THEN Cur.mem ELSE placed[k][First(k, Cur.id)].mem
  BY <1>4
<1>7. Annotated(k, o) = IF w = NoMem THEN s ELSE [s EXCEPT ![w] = [buf |-> @.buf, tier |-> k, offset |-> o]]
  BY <1>3, <1>5, <1>6 DEF Annotated
<1>8. PICK n \in Nat : n = Len(s) /\ DOMAIN s = 1 .. n
  BY LenProperties
<1>9. ASSUME NEW m \in 1 .. n
      PROVE  /\ Annotated(k, o)[m].buf = s[m].buf
             /\ m # w => Annotated(k, o)[m] = s[m]
             /\ m = w => Annotated(k, o)[m].tier = k
  <2>1. m # NoMem
    BY DEF NoMem
  <2>2. CASE m = w
    <3>1. Annotated(k, o)[m] = [buf |-> s[m].buf, tier |-> k, offset |-> o]
      BY <1>7, <1>8, <2>1, <2>2
    <3>2. QED BY <2>2, <3>1
  <2>3. CASE m # w
    BY <1>7, <1>8, <2>3
  <2>4. QED BY <2>2, <2>3
<1>10. (\A j \in Active(k) : placed[k][j].id # Cur.id) => y = Cur
  BY <1>3, <1>4
<1>11. QED BY <1>5, <1>6, <1>8, <1>9, <1>10, ZenonT(60)

LEMMA MarksPlace ==
  ASSUME ScanInv, Homes, NoTwins, MarkedZero, Place
  PROVE  MarkedZero'
<1>1. /\ stack # << >> /\ Cur # NoInterval /\ 0 \in Tiers /\ unhandled' = unhandled
  BY PlaceDoes, TargetTyped DEF ScanInv
<1>2. PICK k \in Tiers : k = Tier /\ k \in Nat
  BY PlaceDoes
<1>3. PICK d, e \in Seq(IntervalType), x, c \in IntervalType, o \in Nat : Places(k, d, e, x, c, o)
  BY <1>2, PlaceDoes
<1>4. PICK y \in Pieces(k) :
        /\ (\A j \in Active(k) : placed[k][j].id # Cur.id) => y = Cur
        /\ \A m \in 1 .. Len(memrefs) :
             /\ m # y.mem => memrefs'[m] = memrefs[m]
             /\ m = y.mem => memrefs'[m].tier = k
  <2>1. memrefs' = Annotated(k, o)
    BY <1>3 DEF Places
  <2>2. QED BY <1>1, <1>2, <2>1, AnnotatedAt
<1>5. PICK n \in Nat : n = Len(memrefs)
  BY DEF ScanInv, MemrefsTyped
<1>6. \A z \in Pieces(0) : z.mem # NoMem => z.mem \in 1 .. n
  <2>1. \A m \in 0 .. n : m # NoMem => m \in 1 .. n
    BY DEF NoMem
  <2>2. \A z \in Pieces(0) : z.mem \in 0 .. n
    BY <1>1, <1>5, PiecesTyped DEF Sound
  <2>3. QED BY <2>1, <2>2
<1>7. \A j \in DOMAIN placed[0] : placed[0][j] \in Pieces(0)
  BY InRange DEF Pieces
<1>8. CASE k # 0
  <2>1. placed'[0] = placed[0]
    BY <1>1, <1>3, <1>8 DEF Places, Elsewhere
  <2>2. \A z \in Pieces(0) : z.mem # NoMem => memrefs'[z.mem] = memrefs[z.mem]
    BY <1>4, <1>5, <1>6, <1>8 DEF Homes, OfOneTier
  <2>3. QED BY <1>7, <2>1, <2>2 DEF MarkedZero
<1>9. CASE k = 0
  <2>1. PICK l : /\ d = placed[0] /\ e = placed'[0] /\ DOMAIN e = DOMAIN d \cup {l} /\ e[l] = c
                 /\ \A j \in DOMAIN d : e[j] = d[j]
                 /\ c.mem = x.mem /\ x = Cur /\ CurIn(stack, 0) = {x}
    BY <1>3, <1>9 DEF Places, SamePiece
  <2>2. y = x
    BY <1>4, <1>9, <2>1 DEF NoTwins
  <2>3. x \in Pieces(0)
    BY <2>1 DEF Pieces
  <2>4. \A z \in Pieces(0) : z.mem # NoMem /\ (z.mem = x.mem \/ memrefs[z.mem].tier = 0) => memrefs'[z.mem].tier = 0
    BY <1>4, <1>5, <1>6, <1>9, <2>2
  <2>5. ASSUME NEW j \in DOMAIN e, e[j].mem # NoMem PROVE memrefs'[e[j].mem].tier = 0
    <3>1. CASE j \in DOMAIN d
      BY <1>7, <2>1, <2>4, <2>5, <3>1 DEF MarkedZero
    <3>2. CASE j \notin DOMAIN d
      BY <2>1, <2>3, <2>4, <2>5, <3>2
    <3>3. QED BY <3>1, <3>2
  <2>6. QED BY <2>1, <2>5 DEF MarkedZero
<1>10. QED BY <1>8, <1>9

(* The stages of a chain get memrefs of their own, the last of them in tier *)
(* 0, and their consumer is pointed at it.                                  *)
Chained(b, t, h, n) ==
  /\ <<b, t>> \in plan /\ plan' = plan \ {<<b, t>>} /\ h = HomeOf(prog, b) /\ h > 0
  /\ n = Len(memrefs) /\ Len(prog.size) <= n
  /\ memrefs' = memrefs \o StageMemrefs(b, t) /\ Len(memrefs') = n + h
  /\ \A m \in 1 .. n : memrefs'[m] = memrefs[m]
  /\ memrefs'[n + h].buf = b /\ memrefs'[n + h].tier = 0
  /\ code' = Staged(b, t)

LEMMA EmitChainDoes ==
  ASSUME ScanInv, EmitChain
  PROVE  /\ prog' = prog /\ phase' = phase /\ phase = "emit"
         /\ \E b \in Bufs(prog), t \in ExecTimes, h, n \in Nat : Chained(b, t, h, n)
<1>1. prog' = prog /\ phase' = phase /\ phase = "emit"
  BY DEF EmitChain
<1>2. PICK c \in plan : /\ memrefs' = memrefs \o StageMemrefs(c[1], c[2])
                        /\ code' = Staged(c[1], c[2])
                        /\ plan' = plan \ {c}
  BY DEF EmitChain
<1>3. PICK b \in Bufs(prog), t \in ExecTimes : b = c[1] /\ t = c[2] /\ HomeOf(prog, b) > 0 /\ c = <<b, t>>
  <2>1. c[1] \in Bufs(prog) /\ HomeOf(prog, c[1]) > 0 /\ c[2] \in UsesOf(prog, c[1]) /\ c = <<c[1], c[2]>>
    BY DEF ScanInv, Chains
  <2>2. c[2] \in ExecTimes
    BY <2>1 DEF UsesOf, ExecTimes
  <2>3. QED BY <2>1, <2>2
<1>4. PICK h \in Nat : h = HomeOf(prog, b) /\ h > 0
  BY <1>3, HomeTyped DEF ScanInv
<1>5. PICK s \in Seq(MemrefType) : s = memrefs
  BY DEF ScanInv, MemrefsTyped
<1>6. PICK n \in Nat : n = Len(s) /\ Len(prog.size) <= n
  BY <1>5 DEF ScanInv, MemrefsTyped
<1>7. PICK added \in Seq(MemrefType) : added = StageMemrefs(b, t) /\ Len(added) = h
  BY <1>4, StageMemrefsTyped
<1>8. memrefs' = s \o added
  BY <1>2, <1>3, <1>5, <1>7
<1>9. /\ Len(memrefs') = n + h /\ \A m \in 1 .. n : memrefs'[m] = s[m]
      /\ memrefs'[n + h] = added[h]
  <2>1. /\ Len(s \o added) = Len(s) + Len(added)
        /\ \A m \in 1 .. Len(s) + Len(added) :
             (s \o added)[m] = IF m <= Len(s) THEN s[m] ELSE added[m - Len(s)]
    BY ConcatProperties
  <2>2. \A m \in 1 .. n : m \in 1 .. n + h /\ m <= n
    OBVIOUS
  <2>3. n + h \in 1 .. n + h /\ ~ (n + h <= n) /\ n + h - n = h
    BY <1>4
  <2>4. QED BY <1>6, <1>7, <1>8, <2>1, <2>2, <2>3
<1>10. added[h].buf = b /\ added[h].tier = 0
  <2>1. h \in 1 .. h /\ h - h = 0
    BY <1>4
  <2>2. added[h] = [buf |-> b, tier |-> h - h,
                    offset |-> IF Stage(prog, b, t, h - h).id \in DOMAIN memMap
                                 THEN memMap[Stage(prog, b, t, h - h).id] ELSE 0]
    BY <1>4, <1>7, <2>1 DEF StageMemrefs
  <2>3. QED BY <2>1, <2>2
<1>11. Chained(b, t, h, n)
  BY <1>2, <1>3, <1>4, <1>5, <1>6, <1>9, <1>10 DEF Chained
<1>12. QED BY <1>1, <1>11

LEMMA MarksRest ==
  ASSUME ScanInv, MarkedZero, [Next]_vars, ~ Place, ~ Spill
  PROVE  MarkedZero'
<1>1. placed' = placed
  <2>1. CASE Take
    BY <2>1 DEF Take
  <2>2. CASE GiveUp
    BY <2>2, GiveUpDoes
  <2>3. CASE Return
    BY <2>3, ReturnDoes
  <2>4. QED BY <2>1, <2>2, <2>3, PiecesRest DEF Next
<1>2. \A m \in 1 .. Len(memrefs) : memrefs'[m] = memrefs[m]
  <2>1. CASE EmitChain
    BY <2>1, EmitChainDoes DEF Chained
  <2>2. CASE ~ EmitChain
    BY <2>2 DEF Next, StartTier, Take, SpillOfNothing, GiveUp, Return, Scanned, Finish, Execute, vars,
                tiersState, outState
  <2>3. QED BY <2>1, <2>2
<1>3. QED BY <1>1, <1>2, MarksStay

LEMMA MarksSpill ==
  ASSUME ScanInv, MarkedZero, Spill
  PROVE  MarkedZero'
<1>1. 0 \in Tiers
  BY TargetTyped DEF ScanInv
<1>2. PICK k \in Tiers : k = Tier /\ k \in Nat /\ k + 1 \in Tiers
  BY SpillDoes
<1>3. PICK v \in Ids, i \in Nat, a, c, x \in IntervalType, next \in Int, uses \in SUBSET Nat, n \in Nat :
        Spills(k, v, i, a, c, x, next, uses, n)
  BY <1>2, SpillDoes
<1>4. \A m \in 1 .. Len(memrefs) : memrefs'[m] = memrefs[m]
  BY <1>3 DEF Spills
<1>5. CASE k = 0
  <2>1. DOMAIN placed'[0] = DOMAIN placed[0] /\ \A j \in DOMAIN placed[0] : placed'[0][j].mem = placed[0][j].mem
    BY <1>3, <1>5 DEF Spills, Cut
  <2>2. QED BY <1>4, <2>1, MarksStay
<1>6. CASE k # 0
  <2>1. placed'[0] = placed[0]
    <3>1. 0 # k + 1
      BY <1>2
    <3>2. Elsewhere({k, k + 1})
      BY <1>3 DEF Spills
    <3>3. QED BY <1>1, <1>6, <3>1, <3>2 DEF Elsewhere
  <2>2. QED BY <1>4, <2>1, MarksStay
<1>7. QED BY <1>5, <1>6

(* A step of the order in tier 0. *)
LEMMA TurnStep ==
  ASSUME ScanInv, GuardInv, Course, InTurn, NoTwins, ~ Lost, ~ Lost', [Next]_vars
  PROVE  InTurn' /\ NoTwins'
<1>1. 0 \in Tiers
  BY TargetTyped DEF ScanInv
<1>2. CASE Take
  <2>1. prog' = prog
    BY <1>2, TakeDoes
  <2>2. PICK k : k = Tier
    OBVIOUS
  <2>3. Elsewhere({k})
    BY <1>2, <2>2, TakeDoes DEF Takes
  <2>4. k # 0 => ZeroAlone
    BY <1>1, <2>3, ElsewhereZero
  <2>5. QED BY <1>2, <2>1, <2>2, <2>4, TurnTake, TurnAlone
<1>3. CASE Place
  <2>1. prog' = prog
    BY <1>3, PlaceDoes
  <2>2. PICK k : k = Tier
    OBVIOUS
  <2>3. PICK d, e \in Seq(IntervalType), x, c \in IntervalType, o \in Nat : Places(k, d, e, x, c, o)
    BY <1>3, <2>2, PlaceDoes
  <2>4. k # 0 => ZeroAlone
    BY <1>1, <2>3, ElsewhereZero DEF Places
  <2>5. QED BY <1>3, <2>1, <2>2, <2>4, TurnPlace, TurnAlone
<1>4. CASE GiveUp
  <2>1. prog' = prog
    BY <1>4, GiveUpDoes
  <2>2. PICK k : k = Tier
    OBVIOUS
  <2>3. ~ OkIn(stack', k) /\ Elsewhere({k})
    BY <1>4, <2>2, GiveUpDoes
  <2>4. k # 0
    BY <2>3 DEF Lost
  <2>5. ZeroAlone
    BY <1>1, <2>3, <2>4, ElsewhereZero
  <2>6. QED BY <2>1, <2>5, TurnAlone
<1>5. CASE Spill
  <2>1. prog' = prog
    BY <1>5, SpillDoes
  <2>2. PICK k \in Tiers : k = Tier /\ k \in Nat
    BY <1>5, SpillDoes
  <2>3. Elsewhere({k, k + 1})
    <3>1. PICK v \in Ids, i \in Nat, a, c, x \in IntervalType, next \in Int, uses \in SUBSET Nat, n \in Nat :
            Spills(k, v, i, a, c, x, next, uses, n)
      BY <1>5, <2>2, SpillDoes
    <3>2. QED BY <3>1 DEF Spills
  <2>4. k # 0 => ZeroAlone
    BY <1>1, <2>2, <2>3, ElsewhereZero
  <2>5. QED BY <1>5, <2>1, <2>2, <2>4, TurnSpill, TurnAlone
<1>6. CASE Return
  <2>1. prog' = prog /\ placed' = placed /\ handled' = handled /\ taken' = taken /\ stack # << >>
    BY <1>6, ReturnDoes
  <2>2. PICK l : l = Tier /\ CurIn(stack, l) = {} /\ l \in Nat
    BY <1>6, ReturnDoes
  <2>3. CASE ReturnsToNone
    <3>1. /\ CurIn(stack', l) = {} /\ ReloadIn(stack', l) = {} /\ unhandled' = unhandled /\ Elsewhere({l})
      BY <2>2, <2>3 DEF ReturnsToNone
    <3>2. CASE l = 0
      <4>1. /\ Now' = Now /\ Active(0)' = Active(0) /\ InOrder(0)' = InOrder(0)
            /\ WaitsInZero' \subseteq WaitsInZero
        BY <2>1, <3>1, <3>2 DEF Now, Active, InOrder, WaitsInZero
      <4>2. InTurn'
        BY <2>1, <3>1, <4>1 DEF InTurn
      <4>3. NoTwins'
        BY <2>1, <3>1, <3>2, <4>1 DEF NoTwins
      <4>4. QED BY <4>2, <4>3
    <3>3. CASE l # 0
      <4>1. ZeroAlone
        BY <1>1, <3>1, <3>3, ElsewhereZero
      <4>2. QED BY <2>1, <4>1, TurnAlone
    <3>4. QED BY <3>2, <3>3
  <2>4. ASSUME NEW k \in Tiers, k \in Nat, ReturnsTo(k) PROVE InTurn' /\ NoTwins'
    <3>1. CASE k = 0
      BY <2>1, <2>4, <3>1, TurnReturn
    <3>2. CASE k # 0
      <4>1. 0 \notin {k, l} /\ Elsewhere({k, l})
        BY <2>2, <2>4, <3>2 DEF ReturnsTo
      <4>2. ZeroAlone
        BY <1>1, <4>1, ElsewhereZero
      <4>3. QED BY <2>1, <4>2, TurnAlone
    <3>3. QED BY <3>1, <3>2
  <2>5. QED BY <1>6, <2>3, <2>4, ReturnDoes
<1>7. CASE ~ (Spill \/ Take \/ Place \/ GiveUp \/ Return)
  <2>1. /\ prog' = prog /\ unhandled' = unhandled /\ placed' = placed /\ handled' = handled
        /\ taken' = taken /\ SameCalls(stack, stack', 0)
    BY <1>7, PiecesRest DEF Next
  <2>2. ZeroAlone
    BY <2>1 DEF ZeroAlone
  <2>3. QED BY <2>1, <2>2, TurnAlone
<1>8. QED BY <1>2, <1>3, <1>4, <1>5, <1>6, <1>7

LEMMA ZeroStep == ScanInv /\ GuardInv /\ Course /\ Homes /\ ZeroInv /\ [Next]_vars => ZeroInv'
<1> SUFFICES ASSUME ScanInv, GuardInv, Course, Homes, ZeroInv, [Next]_vars PROVE ZeroInv'
  OBVIOUS
<1>1. CASE Lost'
  BY <1>1 DEF ZeroInv
<1>2. CASE ~ Lost'
  <2>1. ~ Lost /\ InTurn /\ NoTwins /\ MarkedZero
    BY <1>2, LostStays DEF ZeroInv
  <2>2. InTurn' /\ NoTwins'
    BY <1>2, <2>1, TurnStep
  <2>3. MarkedZero'
    BY <2>1, MarksPlace, MarksSpill, MarksRest
  <2>4. QED BY <2>2, <2>3 DEF ZeroInv
<1>3. QED BY <1>1, <1>2

LEMMA ZeroInvariant == Spec => []ZeroInv
BY ZeroInit, ZeroStep, ScanWellFormed, GuardInvariant, CourseInvariant, HomesInvariant, PTL DEF Spec
-----------------------------------------------------------------------------
(* Every memref an operation works on is covered.  As long as no resident   *)
(* was evicted, one of a buffer whose home is tier 0 has a place there, or  *)
(* will have one for this use, and one of a resident is replaced by a stage *)
(* of tier 0 or will be; as long as only fresh buffers evict from tier 0,   *)
(* a piece in tier 0 counts each use of a buffer whose home is tier 0.      *)
Execs(c) == {op \in Range(c) : op.kind = "exec"}

Emitting == phase \in {"emit", "run"}

InZero(op, m) ==
  \/ \E y \in Range(placed[0]) : y.mem = m
  \/ \E y \in Pieces(0) : y.mem = m /\ op.time \in y.uses

ToStage(op, m) == m \in Bufs(prog) /\ <<m, op.time>> \in plan

OnStage(m) == Emitting /\ m \notin Bufs(prog) /\ memrefs[m].tier = 0

HomeCovered ==
  ResidentsStay => \A op \in Execs(code) : \A m \in Touched(op) :
    IF HomeOf(prog, memrefs[m].buf) = 0 THEN InZero(op, m) ELSE ToStage(op, m) \/ OnStage(m)

UseCovered ==
  FreshEvictionsOnly => \A op \in Execs(code) : \A m \in Touched(op) :
    HomeOf(prog, memrefs[m].buf) = 0 => \E y \in Pieces(0) : y.mem = m /\ op.time \in y.uses

CoverInv == Lost \/ (HomeCovered /\ UseCovered)

LEMMA CodeInvariant == Spec => []CodeInv
<1>1. ScanInv /\ CodeInv /\ [Next]_vars => CodeInv'
  BY CodeSpill, CodeEmitChain, CodeRest DEF Next
<1>2. QED BY <1>1, CodeInit, ScanWellFormed, PTL DEF Spec

LEMMA TouchedTyped ==
  ASSUME ScanInv, CodeInv
  PROVE  /\ Len(memrefs) \in Nat /\ code \in Seq(CodeType)
         /\ \A op \in Range(code) : \A m \in Touched(op) : m \in 1 .. Len(memrefs)
BY DEF ScanInv, MemrefsTyped, CodeInv, CodeOk

LEMMA CoverInit == Init => CoverInv
<1> SUFFICES ASSUME Init PROVE HomeCovered /\ UseCovered
  BY DEF CoverInv
<1>1. /\ prog \in Programs /\ 0 \in Tiers /\ plan = Chains(prog)
      /\ Pieces(0) = {iv \in Intervals(prog) : EntryTier(prog, iv) = 0}
  BY FirstPieces DEF Init
<1>2. ASSUME NEW op \in Execs(code), NEW m \in Touched(op)
      PROVE  m \in Bufs(prog) /\ op.time \in UsesOf(prog, m) /\ memrefs[m].buf = m
  <2>1. PICK t \in Times(prog) : op.time = t /\ op.kind = prog.ops[t].kind /\ Touched(op) = Touched(prog.ops[t])
    <3>1. code = [t \in Times(prog) |-> [kind |-> prog.ops[t].kind, time |-> t, at |-> t,
                                         reads |-> prog.ops[t].reads, writes |-> prog.ops[t].writes]]
      BY DEF Init
    <3>2. PICK t \in DOMAIN code : op = code[t]
      BY InRange DEF Execs
    <3>3. QED BY <3>1, <3>2 DEF Touched
  <2>2. m \in Bufs(prog)
    BY <1>1, <1>2, <2>1, FunctionTyped
  <2>3. op.time \in UsesOf(prog, m)
    BY <1>2, <2>1 DEF Execs, UsesOf
  <2>4. memrefs[m].buf = m
    BY <2>2 DEF Init, Unplaced
  <2>5. QED BY <2>2, <2>3, <2>4
<1>3. ASSUME NEW op \in Execs(code), NEW m \in Touched(op), HomeOf(prog, memrefs[m].buf) = 0
      PROVE  \E y \in Pieces(0) : y.mem = m /\ op.time \in y.uses
  <2>1. m \in Bufs(prog) /\ op.time \in UsesOf(prog, m) /\ memrefs[m].buf = m
    BY <1>2
  <2>2. PICK y : y = BufInterval(prog, m) /\ y \in Intervals(prog)
    BY <2>1 DEF Intervals
  <2>3. y.home = 0 /\ y.mem = m /\ y.uses = UsesOf(prog, m)
    BY <1>3, <2>1, <2>2 DEF BufInterval
  <2>4. y \in Pieces(0)
    BY <1>1, <2>2, <2>3, IntervalIs
  <2>5. QED BY <2>1, <2>3, <2>4
<1>4. ASSUME NEW op \in Execs(code), NEW m \in Touched(op), HomeOf(prog, memrefs[m].buf) # 0
      PROVE  ToStage(op, m)
  <2>1. m \in Bufs(prog) /\ op.time \in UsesOf(prog, m) /\ memrefs[m].buf = m
    BY <1>2
  <2>2. HomeOf(prog, m) > 0
    BY <1>1, <1>4, <2>1, HomeTyped
  <2>3. op.time \in Times(prog)
    BY <2>1 DEF UsesOf
  <2>4. <<m, op.time>> \in Chains(prog)
    BY <2>1, <2>2, <2>3 DEF Chains
  <2>5. QED BY <1>1, <2>1, <2>4 DEF ToStage
<1>5. QED BY <1>3, <1>4 DEF HomeCovered, UseCovered, InZero

(* What is held of tier 0 for a use, or has a place there, stays.           *)
KeepsZero ==
  /\ \A z \in Pieces(0) : z.uses # {} => \E y \in Pieces(0)' : SamePiece(y, z)
  /\ \A z \in Range(placed[0]) : \E y \in Range(placed'[0]) : y.mem = z.mem

LEMMA KeepsZeroAll ==
  ASSUME Pieces(0) \subseteq Pieces(0)', placed'[0] = placed[0]
  PROVE  KeepsZero
BY DEF KeepsZero, SamePiece

LEMMA KeepsZeroAlone ==
  ASSUME ZeroAlone
  PROVE  KeepsZero
BY PiecesAlone, KeepsZeroAll DEF ZeroAlone

LEMMA KeepsZeroStep ==
  ASSUME ScanInv, GuardInv, Course, ~ Lost', [Next]_vars, ~ Spill
  PROVE  KeepsZero
<1>1. 0 \in Tiers
  BY TargetTyped DEF ScanInv
<1>2. CASE Take
  <2>1. placed' = placed /\ stack # << >>
    BY <1>2, TakeDoes
  <2>2. PICK k : k = Tier
    OBVIOUS
  <2>3. PICK q, r \in Seq(IntervalType), iv \in IntervalType : Takes(k, q, r, iv)
    BY <1>2, <2>2, TakeDoes
  <2>4. CASE k # 0
    BY <1>1, <2>3, <2>4, ElsewhereZero, KeepsZeroAlone DEF Takes
  <2>5. CASE k = 0
    <3>1. /\ unhandled[0] = q /\ unhandled'[0] = r /\ Range(q) = Range(r) \cup {iv}
          /\ CurIn(stack, 0) = {} /\ CurIn(stack', 0) = IF iv.start < iv.end THEN {iv} ELSE {}
          /\ ReloadIn(stack', 0) = ReloadIn(stack, 0)
      BY <2>3, <2>5 DEF Takes
    <3>2. iv \in Pieces(0)
      BY <3>1 DEF Pieces
    <3>3. iv.uses # {} => iv.start < iv.end
      <4>1. Sound(iv) /\ iv \in IntervalType
        BY <1>1, <3>2, PiecesTyped
      <4>2. iv.start \in Int /\ iv.end \in Int /\ iv.uses \subseteq Int
        BY <4>1 DEF IntervalType
      <4>3. \A u \in iv.uses : iv.start <= u /\ u < iv.end
        BY <4>1 DEF Sound
      <4>4. QED BY <4>2, <4>3
    <3>4. \A z \in Pieces(0) : z.uses # {} => z \in Pieces(0)'
      BY <2>1, <3>1, <3>3 DEF Pieces
    <3>5. QED BY <2>1, <3>4 DEF KeepsZero, SamePiece
  <2>6. QED BY <2>4, <2>5
<1>3. CASE Place
  <2>1. unhandled' = unhandled
    BY <1>3, PlaceDoes
  <2>2. PICK k : k = Tier
    OBVIOUS
  <2>3. PICK d, e \in Seq(IntervalType), x, c \in IntervalType, o \in Nat : Places(k, d, e, x, c, o)
    BY <1>3, <2>2, PlaceDoes
  <2>4. CASE k # 0
    BY <1>1, <2>3, <2>4, ElsewhereZero, KeepsZeroAlone DEF Places
  <2>5. CASE k = 0
    <3>1. /\ d = placed[0] /\ e = placed'[0] /\ Range(e) = Range(d) \cup {c} /\ SamePiece(c, x)
          /\ CurIn(stack, 0) = {x} /\ ReloadIn(stack', 0) = ReloadIn(stack, 0)
      BY <2>3, <2>5 DEF Places
    <3>2. \A z \in Pieces(0) : z \in Pieces(0)' \/ z = x
      BY <2>1, <3>1 DEF Pieces
    <3>3. c \in Pieces(0)'
      BY <3>1 DEF Pieces
    <3>4. \A z : SamePiece(z, z)
      BY DEF SamePiece
    <3>5. \A z \in Pieces(0) : \E y \in Pieces(0)' : SamePiece(y, z)
      BY <3>1, <3>2, <3>3, <3>4
    <3>6. \A z \in Range(placed[0]) : z \in Range(placed'[0])
      BY <3>1
    <3>7. QED BY <3>5, <3>6 DEF KeepsZero
  <2>6. QED BY <2>4, <2>5
<1>4. CASE GiveUp
  <2>1. PICK k : k = Tier
    OBVIOUS
  <2>2. ~ OkIn(stack', k) /\ Elsewhere({k})
    BY <1>4, <2>1, GiveUpDoes
  <2>3. k # 0
    BY <2>2 DEF Lost
  <2>4. QED BY <1>1, <2>2, <2>3, ElsewhereZero, KeepsZeroAlone
<1>5. CASE Return
  <2>1. placed' = placed /\ stack # << >>
    BY <1>5, ReturnDoes
  <2>2. PICK l : l = Tier /\ CurIn(stack, l) = {} /\ l \in Nat
    BY <1>5, ReturnDoes
  <2>3. CASE ReturnsToNone
    <3>1. unhandled' = unhandled /\ Elsewhere({l})
      BY <2>2, <2>3 DEF ReturnsToNone
    <3>2. CASE l = 0
      <4>1. ReloadIn(stack, 0) = {}
        BY <2>1, <2>2, <3>2, TopFree
      <4>2. Pieces(0) \subseteq Pieces(0)'
        BY <2>1, <2>2, <3>1, <3>2, <4>1 DEF Pieces
      <4>3. QED BY <2>1, <4>2, KeepsZeroAll
    <3>3. CASE l # 0
      BY <1>1, <3>1, <3>3, ElsewhereZero, KeepsZeroAlone
    <3>4. QED BY <3>2, <3>3
  <2>4. ASSUME NEW k \in Tiers, k \in Nat, ReturnsTo(k) PROVE KeepsZero
    <3>1. CASE k = 0
      <4>1. /\ CurIn(stack', 0) = CurIn(stack, 0) /\ ReloadIn(stack', 0) = {}
            /\ \/ ReloadIn(stack, 0) = {} /\ unhandled'[0] = unhandled[0]
               \/ \E iv \in IntervalType : /\ ReloadIn(stack, 0) = {iv}
                                           /\ unhandled'[0] = AddUnhandled(unhandled[0], iv)
        BY <2>4, <3>1 DEF ReturnsTo
      <4>2. CASE ReloadIn(stack, 0) = {} /\ unhandled'[0] = unhandled[0]
        <5>1. Pieces(0) \subseteq Pieces(0)'
          BY <2>1, <4>1, <4>2 DEF Pieces
        <5>2. QED BY <2>1, <5>1, KeepsZeroAll
      <4>3. ASSUME NEW iv \in IntervalType, ReloadIn(stack, 0) = {iv},
                   unhandled'[0] = AddUnhandled(unhandled[0], iv)
            PROVE  KeepsZero
        <5>1. PICK q \in Seq(IntervalType) : q = unhandled[0]
          BY <1>1 DEF ScanInv, QueuesTyped
        <5>2. Range(unhandled'[0]) = Range(q) \cup {iv}
          BY <4>3, <5>1, AddUnhandledElements
        <5>3. Pieces(0) \subseteq Pieces(0)'
          BY <2>1, <4>1, <4>3, <5>1, <5>2 DEF Pieces
        <5>4. QED BY <2>1, <5>3, KeepsZeroAll
      <4>4. QED BY <4>1, <4>2, <4>3
    <3>2. CASE k # 0
      <4>1. 0 \notin {k, l} /\ Elsewhere({k, l})
        BY <2>2, <2>4, <3>2 DEF ReturnsTo
      <4>2. QED BY <1>1, <4>1, ElsewhereZero, KeepsZeroAlone
    <3>3. QED BY <3>1, <3>2
  <2>5. QED BY <1>5, <2>3, <2>4, ReturnDoes
<1>6. CASE ~ (Spill \/ Take \/ Place \/ GiveUp \/ Return)
  <2>1. ZeroAlone
    BY <1>6, PiecesRest DEF Next, ZeroAlone
  <2>2. QED BY <2>1, KeepsZeroAlone
<1>7. QED BY <1>2, <1>3, <1>4, <1>5, <1>6

(* The operations of c work on in e what they worked on in c, but that the  *)
(* uses of old at the times are on new.                                     *)
Follows(c, e, times, old, new) ==
  \A o \in Execs(e) : \E op \in Execs(c) :
    /\ op.time = o.time
    /\ \A m \in Touched(o) : \/ m \in Touched(op) /\ (m = old => o.time \notin times)
                             \/ m = new /\ old \in Touched(op) /\ o.time \in times

LEMMA FollowsCopies ==
  ASSUME NEW c, NEW d, NEW N, Range(d) \subseteq Range(c) \cup N, \A op \in N : op.kind = "copy",
         NEW old, NEW new
  PROVE  Follows(c, d, {}, old, new)
<1>1. \A o \in Execs(d) : o \in Execs(c)
  BY DEF Execs
<1>2. QED BY <1>1 DEF Follows

LEMMA FollowsReplaced ==
  ASSUME NEW c, NEW d \in Seq(CodeType), NEW N, Range(d) \subseteq Range(c) \cup N,
         \A op \in N : op.kind = "copy", NEW times, NEW old, NEW new
  PROVE  Follows(c, Replaced(d, times, old, new), times, old, new)
<1>1. PICK e : e = Replaced(d, times, old, new)
  OBVIOUS
<1>2. /\ DOMAIN e = DOMAIN d
      /\ \A i \in DOMAIN d : d[i].time \notin times => e[i] = d[i]
      /\ \A i \in DOMAIN d : d[i].time \in times =>
           e[i] = [d[i] EXCEPT !.reads = Renamed(@, old, new), !.writes = Renamed(@, old, new)]
  BY <1>1 DEF Replaced
<1>3. SUFFICES ASSUME NEW o \in Execs(e)
               PROVE  \E op \in Execs(c) :
                        /\ op.time = o.time
                        /\ \A m \in Touched(o) :
                             \/ m \in Touched(op) /\ (m = old => o.time \notin times)
                             \/ m = new /\ old \in Touched(op) /\ o.time \in times
  BY <1>1 DEF Follows
<1>4. o \in Range(e) /\ o.kind = "exec"
  BY DEF Execs
<1>5. PICK i \in DOMAIN d : o = e[i]
  <2>1. PICK i \in DOMAIN e : e[i] = o
    BY <1>4, InRange
  <2>2. DOMAIN e = DOMAIN d
    BY <1>2
  <2>3. QED BY <2>1, <2>2
<1>6. PICK op \in CodeType : op = d[i] /\ op \in Range(d)
  BY InRange
<1>7. CASE op.time \notin times
  <2>1. o = op
    BY <1>2, <1>5, <1>6, <1>7
  <2>2. op \in Execs(c)
    BY <1>4, <1>6, <2>1 DEF Execs
  <2>3. QED BY <1>7, <2>1, <2>2
<1>8. CASE op.time \in times
  <2>1. PICK r, w : r = Renamed(op.reads, old, new) /\ w = Renamed(op.writes, old, new)
    OBVIOUS
  <2>2. o = [op EXCEPT !.reads = r, !.writes = w]
    BY <1>2, <1>5, <1>6, <1>8, <2>1
  <2>3. o.kind = op.kind /\ o.time = op.time /\ o.reads = r /\ o.writes = w
    BY <2>2 DEF CodeType
  <2>4. op \in Execs(c)
    BY <1>4, <1>6, <2>3 DEF Execs
  <2>5. \A S, m : m \in Renamed(S, old, new) => (m \in S /\ m # old) \/ (m = new /\ old \in S)
    BY DEF Renamed
  <2>6. ASSUME NEW m \in Touched(o)
        PROVE  \/ m \in Touched(op) /\ m # old
               \/ m = new /\ old \in Touched(op)
    <3>1. m \in r \/ m \in w
      BY <2>3, <2>6 DEF Touched
    <3>2. CASE m \in r
      BY <2>1, <2>5, <3>2 DEF Touched
    <3>3. CASE m \in w
      BY <2>1, <2>5, <3>3 DEF Touched
    <3>4. QED BY <3>1, <3>2, <3>3
  <2>7. QED BY <1>8, <2>3, <2>4, <2>6
<1>9. QED BY <1>7, <1>8

(* A copy added to the code. *)
LEMMA CopyAdded ==
  ASSUME NEW n \in Nat, NEW c, CodeOk(c, n), NEW p \in 1 .. Len(c), NEW from \in 1 .. n
  PROVE  /\ CodeOk(CopyBefore(c, p, from, n + 1), n + 1)
         /\ \E e : e.kind = "copy" /\ Range(CopyBefore(c, p, from, n + 1)) = Range(c) \cup {e}
<1>1. CodeOk(CopyBefore(c, p, from, n + 1), n + 1)
  BY CodeCopies
<1>2. PICK s \in Seq(CodeType) : s = c
  BY DEF CodeOk
<1>3. PICK e \in CodeType : e = Copy(c[p].at, from, n + 1) /\ e.kind = "copy"
  <2>1. PICK t \in Nat : t = c[p].at
    <3>1. s[p] \in CodeType
      BY <1>2, ElementOfSeq
    <3>2. QED BY <1>2, <3>1 DEF CodeType
  <2>2. n + 1 \in Nat /\ from \in Nat
    OBVIOUS
  <2>3. PICK e : e = Copy(t, from, n + 1)
    OBVIOUS
  <2>4. e \in CodeType /\ e.kind = "copy"
    BY <2>2, <2>3 DEF Copy, CodeType
  <2>5. QED BY <2>1, <2>3, <2>4
<1>4. Range(InsertAt(s, p, e)) = Range(s) \cup {e}
  <2>1. p \in 1 .. Len(s) + 1 /\ Len(s) \in Nat
    BY <1>2
  <2>2. QED BY ONLY s \in Seq(CodeType), e \in CodeType, <2>1, Inserted
<1>5. QED BY <1>1, <1>2, <1>3, <1>4 DEF CopyBefore

(* An eviction points the uses that come back at the reload. *)
LEMMA SpillFollows ==
  ASSUME ScanInv, CodeInv, NEW k \in Tiers, NEW v \in Ids, NEW i \in Nat, NEW a \in IntervalType,
         NEW c \in IntervalType, NEW x \in IntervalType, NEW next \in Int, NEW uses \in SUBSET Nat,
         NEW n \in Nat, Makes(k, v, i, a, c, x, next, uses, n)
  PROVE  Follows(code, code', IF Comes(a, next, uses) THEN uses ELSE {}, a.mem, n + 2)
<1>1. /\ n = Len(memrefs) /\ a.mem \in 1 .. n /\ c.mem \in 1 .. n /\ Sound(a)
      /\ uses = {u \in a.uses : u >= next}
      /\ code' = LET spilled == CopyBefore(code, DefPos(code, c.mem), a.mem, n + 1)
                     reloaded == CopyBefore(spilled, TimePos(spilled, Min(uses)), n + 1, n + 2)
                 IN IF Comes(a, next, uses) THEN Replaced(reloaded, uses, a.mem, n + 2) ELSE spilled
  BY DEF Makes, Spills
<1>2. CodeOk(code, n)
  BY <1>1 DEF CodeInv
<1>3. DefPos(code, c.mem) \in 1 .. Len(code)
  BY <1>1, <1>2, PositionOfDef
<1>4. PICK s : s = CopyBefore(code, DefPos(code, c.mem), a.mem, n + 1)
  OBVIOUS
<1>5. /\ CodeOk(s, n + 1)
      /\ \E e : e.kind = "copy" /\ Range(s) = Range(code) \cup {e}
  <2>1. PICK y : y = code
    OBVIOUS
  <2>2. PICK p \in 1 .. Len(y) : p = DefPos(code, c.mem)
    BY <1>3, <2>1
  <2>3. PICK m \in 1 .. n : m = a.mem
    BY <1>1
  <2>4. CodeOk(y, n)
    BY <1>2, <2>1
  <2>5. /\ CodeOk(CopyBefore(y, p, m, n + 1), n + 1)
        /\ \E e : e.kind = "copy" /\ Range(CopyBefore(y, p, m, n + 1)) = Range(y) \cup {e}
    BY ONLY n \in Nat, <2>4, p \in 1 .. Len(y), m \in 1 .. n, CopyAdded, SMTT(30)
  <2>6. s = CopyBefore(y, p, m, n + 1)
    BY <1>4, <2>1, <2>2, <2>3
  <2>7. QED BY <2>1, <2>5, <2>6
<1>6. PICK e1 : e1.kind = "copy" /\ Range(s) = Range(code) \cup {e1}
  BY <1>5
<1>7. CASE ~ Comes(a, next, uses)
  <2>1. code' = s
    BY <1>1, <1>4, <1>7
  <2>2. PICK N : N = {e1}
    OBVIOUS
  <2>3. Range(s) \subseteq Range(code) \cup N /\ \A op \in N : op.kind = "copy"
    BY <1>6, <2>2
  <2>4. Follows(code, s, {}, a.mem, n + 2)
    BY <2>3, FollowsCopies
  <2>5. QED BY <1>7, <2>1, <2>4
<1>8. CASE Comes(a, next, uses)
  <2>1. Min(uses) \in Times(prog)
    <3>1. Min(uses) \in uses
      BY <1>8, MinIsLeast DEF Comes
    <3>2. QED BY <1>1, <3>1 DEF Sound, ExecTimes
  <2>2. TimePos(s, Min(uses)) \in 1 .. Len(s)
    BY <1>5, <2>1, PositionOfTime
  <2>3. PICK r : r = CopyBefore(s, TimePos(s, Min(uses)), n + 1, n + 2)
    OBVIOUS
  <2>4. /\ CodeOk(r, n + 2)
        /\ \E e : e.kind = "copy" /\ Range(r) = Range(s) \cup {e}
    <3>1. PICK l \in Nat : l = n + 1 /\ l \in 1 .. l
      OBVIOUS
    <3>2. PICK p \in 1 .. Len(s) : p = TimePos(s, Min(uses))
      BY <2>2
    <3>3. CodeOk(s, l)
      BY <1>5, <3>1
    <3>4. /\ CodeOk(CopyBefore(s, p, l, l + 1), l + 1)
          /\ \E e : e.kind = "copy" /\ Range(CopyBefore(s, p, l, l + 1)) = Range(s) \cup {e}
      BY ONLY l \in Nat, <3>1, <3>3, p \in 1 .. Len(s), CopyAdded
    <3>5. l + 1 = n + 2
      BY <3>1
    <3>6. r = CopyBefore(s, p, l, l + 1)
      BY <2>3, <3>1, <3>2, <3>5
    <3>7. QED BY <3>4, <3>5, <3>6
  <2>5. PICK e2 : e2.kind = "copy" /\ Range(r) = Range(s) \cup {e2}
    BY <2>4
  <2>6. PICK N : N = {e1, e2}
    OBVIOUS
  <2>7. Range(r) \subseteq Range(code) \cup N /\ \A op \in N : op.kind = "copy"
    BY <1>6, <2>5, <2>6
  <2>8. PICK d \in Seq(CodeType) : d = r
    BY <2>4 DEF CodeOk
  <2>9. Follows(code, Replaced(d, uses, a.mem, n + 2), uses, a.mem, n + 2)
    BY <2>7, <2>8, FollowsReplaced
  <2>10. code' = Replaced(d, uses, a.mem, n + 2)
    BY <1>1, <1>4, <1>8, <2>3, <2>8
  <2>11. QED BY <1>8, <2>9, <2>10
<1>9. QED BY <1>7, <1>8

(* A chain points its consumer at the last stage. *)
LEMMA ChainFollows ==
  ASSUME ScanInv, CodeInv, NEW b \in Bufs(prog), NEW t \in ExecTimes, NEW h \in Nat, NEW n \in Nat,
         Chained(b, t, h, n)
  PROVE  Follows(code, code', {t}, b, n + h)
<1>1. h = HomeOf(prog, b) /\ n = Len(memrefs) /\ Len(prog.size) <= n /\ code' = Staged(b, t)
  BY DEF Chained
<1>2. CodeOk(code, n)
  BY <1>1 DEF CodeInv
<1>3. PICK s \in Seq(CodeType) : s = code
  BY <1>2 DEF CodeOk
<1>4. PICK cs \in Seq(CodeType) : cs = StageCopies(b, t, n) /\ \A op \in Range(cs) : op.kind = "copy"
  <2>1. b <= n
    <3>1. b \in 1 .. Len(prog.size) /\ Len(prog.size) \in Nat
      BY FunctionTyped DEF ScanInv
    <3>2. QED BY <1>1, <3>1
  <2>2. t \in Nat
    BY FunctionTyped DEF ScanInv, ExecTimes
  <2>3. QED BY <1>1, <2>1, <2>2, StageCopiesTyped DEF ScanInv
<1>5. PICK p \in 1 .. Len(s) + 1 : p = TimePos(code, t)
  <2>1. TimePos(code, t) \in 1 .. Len(s)
    BY <1>2, <1>3, PositionOfTime DEF ExecTimes
  <2>2. Len(s) \in Nat
    OBVIOUS
  <2>3. QED BY <2>1, <2>2
<1>6. PICK d \in Seq(CodeType) : d = WithStages(b, t) /\ Range(d) = Range(s) \cup Range(cs)
  <2>1. Spliced(s, cs, p) \in Seq(CodeType) /\ Range(Spliced(s, cs, p)) = Range(s) \cup Range(cs)
    BY Splice
  <2>2. WithStages(b, t) = Spliced(s, cs, p)
    BY <1>1, <1>3, <1>4, <1>5 DEF WithStages, Spliced
  <2>3. QED BY <2>1, <2>2
<1>7. PICK N : N = Range(cs) /\ Range(d) \subseteq Range(code) \cup N /\ \A op \in N : op.kind = "copy"
  BY <1>3, <1>4, <1>6
<1>8. Follows(code, Replaced(d, {t}, b, n + h), {t}, b, n + h)
  BY <1>7, FollowsReplaced
<1>9. code' = Replaced(d, {t}, b, n + h)
  BY <1>1, <1>6 DEF Staged
<1>10. QED BY <1>8, <1>9

(* A memref stands for the same buffer for good. *)
LEMMA BufsStay ==
  ASSUME ScanInv, [Next]_vars
  PROVE  /\ prog' = prog
         /\ \A m \in 1 .. Len(memrefs) : memrefs'[m].buf = memrefs[m].buf
<1>1. CASE Place
  <2>1. stack # << >> /\ Cur # NoInterval /\ Tier \in Tiers /\ prog' = prog
    BY <1>1, PlaceDoes
  <2>2. PICK o : memrefs' = Annotated(Tier, o)
    BY <1>1 DEF Place
  <2>3. PICK y \in Pieces(Tier) : \A m \in 1 .. Len(memrefs) : Annotated(Tier, o)[m].buf = memrefs[m].buf
    BY <2>1, AnnotatedAt
  <2>4. QED BY <2>1, <2>2, <2>3
<1>2. CASE Spill
  <2>1. PICK k : k = Tier
    OBVIOUS
  <2>2. PICK v \in Ids, i \in Nat, a, c, x \in IntervalType, next \in Int, uses \in SUBSET Nat, n \in Nat :
          Spills(k, v, i, a, c, x, next, uses, n)
    BY <1>2, <2>1, SpillDoes
  <2>3. QED BY <1>2, <2>2, SpillDoes DEF Spills
<1>3. CASE EmitChain
  BY <1>3, EmitChainDoes DEF Chained
<1>4. CASE ~ Place /\ ~ Spill /\ ~ EmitChain
  BY <1>4 DEF Next, StartTier, Take, SpillOfNothing, GiveUp, Return, Scanned, Finish, Execute, vars,
              tiersState, outState
<1>5. QED BY <1>1, <1>2, <1>3, <1>4

LEMMA InZeroStays ==
  ASSUME KeepsZero, NEW op, NEW m, InZero(op, m)
  PROVE  InZero(op, m)'
<1>1. ASSUME NEW z \in Pieces(0), z.mem = m, op.time \in z.uses
      PROVE  \E y \in Pieces(0)' : y.mem = m /\ op.time \in y.uses
  BY <1>1 DEF KeepsZero, SamePiece
<1>2. QED BY <1>1 DEF InZero, KeepsZero

LEMMA CoverRest ==
  ASSUME ScanInv, GuardInv, CodeInv, Course, HomeCovered, UseCovered, ~ Lost', [Next]_vars, ~ Spill, ~ EmitChain
  PROVE  HomeCovered' /\ UseCovered'
<1>1. /\ prog' = prog /\ code' = code /\ plan' = plan /\ evictedFor' = evictedFor
      /\ Emitting => memrefs' = memrefs /\ Emitting'
  <2>1. CASE Place
    BY <2>1, PlaceDoes DEF Emitting
  <2>2. CASE ~ Place
    BY <2>2 DEF Next, StartTier, Take, SpillOfNothing, GiveUp, Return, Scanned, Finish, Execute, vars,
                tiersState, outState, Emitting, Idle, Placing, Calling
  <2>3. QED BY <2>1, <2>2
<1>2. KeepsZero
  BY KeepsZeroStep
<1>3. \A op \in Execs(code) : \A m \in Touched(op) : m \in 1 .. Len(memrefs)
  BY TouchedTyped DEF Execs
<1>4. \A op \in Execs(code) : \A m \in Touched(op) : memrefs'[m].buf = memrefs[m].buf
  BY <1>3, BufsStay
<1>5. HomeCovered'
  <2>1. SUFFICES ASSUME ResidentsStay', NEW op \in Execs(code), NEW m \in Touched(op)
                 PROVE  IF HomeOf(prog, memrefs'[m].buf) = 0 THEN InZero(op, m)'
                        ELSE ToStage(op, m)' \/ OnStage(m)'
    BY <1>1 DEF HomeCovered
  <2>2. ResidentsStay
    BY <1>1, <2>1 DEF ResidentsStay
  <2>3. IF HomeOf(prog, memrefs'[m].buf) = 0 THEN InZero(op, m) ELSE ToStage(op, m) \/ OnStage(m)
    BY <1>4, <2>1, <2>2 DEF HomeCovered
  <2>4. ToStage(op, m)' = ToStage(op, m)
    BY <1>1 DEF ToStage
  <2>5. OnStage(m) => OnStage(m)'
    BY <1>1 DEF OnStage
  <2>6. QED BY <1>2, <2>3, <2>4, <2>5, InZeroStays
<1>6. UseCovered'
  <2>1. SUFFICES ASSUME FreshEvictionsOnly', NEW op \in Execs(code), NEW m \in Touched(op),
                        HomeOf(prog, memrefs'[m].buf) = 0
                 PROVE  \E y \in Pieces(0)' : y.mem = m /\ op.time \in y.uses
    BY <1>1 DEF UseCovered
  <2>2. FreshEvictionsOnly
    BY <1>1, <2>1 DEF FreshEvictionsOnly
  <2>3. PICK z \in Pieces(0) : z.mem = m /\ op.time \in z.uses
    BY <1>4, <2>1, <2>2 DEF UseCovered
  <2>4. QED BY <1>2, <2>3 DEF KeepsZero, SamePiece
<1>7. QED BY <1>5, <1>6

LEMMA CoverChain ==
  ASSUME ScanInv, GuardInv, CodeInv, Course, HomeCovered, UseCovered, ~ Lost', [Next]_vars, EmitChain
  PROVE  HomeCovered' /\ UseCovered'
<1>1. /\ prog' = prog /\ phase = "emit" /\ phase' = "emit" /\ evictedFor' = evictedFor /\ prog \in Programs
  BY DEF EmitChain, ScanInv
<1>2. PICK b \in Bufs(prog), t \in ExecTimes, h, n \in Nat : Chained(b, t, h, n)
  BY EmitChainDoes
<1>3. /\ plan' = plan \ {<<b, t>>} /\ h = HomeOf(prog, b) /\ h > 0 /\ n = Len(memrefs)
      /\ Len(prog.size) <= n /\ \A m \in 1 .. n : memrefs'[m] = memrefs[m]
      /\ memrefs'[n + h].buf = b /\ memrefs'[n + h].tier = 0
  BY <1>2 DEF Chained
<1>4. Follows(code, code', {t}, b, n + h)
  BY <1>2, ChainFollows
<1>5. KeepsZero
  <2>1. ~ Spill
    BY <1>1, SpillDoes
  <2>2. QED BY <2>1, KeepsZeroStep
<1>6. n + h \notin Bufs(prog)
  <2>1. Bufs(prog) = 1 .. Len(prog.size) /\ Len(prog.size) \in Nat
    BY <1>1, FunctionTyped
  <2>2. QED BY <1>3, <2>1
<1>7. ASSUME NEW o \in Execs(code'), NEW m \in Touched(o)
      PROVE  \E op \in Execs(code) :
               /\ op.time = o.time
               /\ \/ m \in Touched(op) /\ (m = b => o.time # t) /\ memrefs'[m] = memrefs[m]
                  \/ m = n + h
  <2>1. PICK op \in Execs(code) :
          /\ op.time = o.time
          /\ \/ m \in Touched(op) /\ (m = b => o.time \notin {t})
             \/ m = n + h
    BY <1>4, <1>7 DEF Follows
  <2>2. m \in Touched(op) => m \in 1 .. n
    BY <1>3, TouchedTyped DEF Execs
  <2>3. QED BY <1>3, <2>1, <2>2
<1>8. HomeCovered'
  <2>1. SUFFICES ASSUME ResidentsStay', NEW o \in Execs(code'), NEW m \in Touched(o)
                 PROVE  IF HomeOf(prog, memrefs'[m].buf) = 0 THEN InZero(o, m)'
                        ELSE ToStage(o, m)' \/ OnStage(m)'
    BY <1>1 DEF HomeCovered
  <2>2. ResidentsStay
    BY <1>1, <2>1 DEF ResidentsStay
  <2>3. CASE m = n + h
    BY <1>1, <1>3, <1>6, <2>3 DEF OnStage, Emitting
  <2>4. ASSUME NEW op \in Execs(code), op.time = o.time, m \in Touched(op), m = b => o.time # t,
               memrefs'[m] = memrefs[m]
        PROVE  IF HomeOf(prog, memrefs'[m].buf) = 0 THEN InZero(o, m)'
               ELSE ToStage(o, m)' \/ OnStage(m)'
    <3>1. IF HomeOf(prog, memrefs[m].buf) = 0 THEN InZero(op, m) ELSE ToStage(op, m) \/ OnStage(m)
      BY <2>2, <2>4 DEF HomeCovered
    <3>2. ToStage(op, m) => ToStage(o, m)'
      <4>1. <<m, o.time>> # <<b, t>>
        BY <2>4
      <4>2. QED BY <1>1, <1>3, <2>4, <4>1 DEF ToStage
    <3>3. OnStage(m) => OnStage(m)'
      BY <1>1, <2>4 DEF OnStage, Emitting
    <3>4. InZero(op, m) => InZero(o, m)
      BY <2>4 DEF InZero
    <3>5. InZero(op, m) => InZero(o, m)'
      BY <1>5, <3>4, InZeroStays
    <3>6. QED BY <2>4, <3>1, <3>2, <3>3, <3>5
  <2>5. QED BY <1>7, <2>3, <2>4
<1>9. UseCovered'
  <2>1. SUFFICES ASSUME FreshEvictionsOnly', NEW o \in Execs(code'), NEW m \in Touched(o),
                        HomeOf(prog, memrefs'[m].buf) = 0
                 PROVE  \E y \in Pieces(0)' : y.mem = m /\ o.time \in y.uses
    BY <1>1 DEF UseCovered
  <2>2. FreshEvictionsOnly
    BY <1>1, <2>1 DEF FreshEvictionsOnly
  <2>3. m # n + h
    BY <1>3, <2>1
  <2>4. PICK op \in Execs(code) : op.time = o.time /\ m \in Touched(op) /\ memrefs'[m] = memrefs[m]
    BY <1>7, <2>3
  <2>5. PICK z \in Pieces(0) : z.mem = m /\ op.time \in z.uses
    BY <2>1, <2>2, <2>4 DEF UseCovered
  <2>6. QED BY <1>5, <2>4, <2>5 DEF KeepsZero, SamePiece
<1>10. QED BY <1>8, <1>9

(* What an eviction leaves in tier 0: all but its victim, and of the victim *)
(* the part before the eviction and, if it comes back, the part after.      *)
ZeroLeft(k, a, x, next, uses, n) ==
  /\ \A z \in Range(placed[0]) : \E y \in Range(placed'[0]) : y.mem = z.mem
  /\ k # 0 => Pieces(0) \subseteq Pieces(0)'
  /\ k = 0 => /\ \A z \in Pieces(0) : z = a \/ z \in Pieces(0)'
              /\ x \in Range(placed'[0]) /\ x \in Pieces(0)'
              /\ Comes(a, next, uses) => \E y \in Pieces(0)' : y.mem = n + 2 /\ y.uses = uses

LEMMA ZeroAfterSpill ==
  ASSUME ScanInv, Course, NEW k \in Tiers, k \in Nat, k = Tier, stack # << >>, NEW v \in Ids, NEW i \in Nat,
         NEW a \in IntervalType, NEW c \in IntervalType, NEW x \in IntervalType, NEW next \in Int,
         NEW uses \in SUBSET Nat, NEW n \in Nat, Makes(k, v, i, a, c, x, next, uses, n)
  PROVE  ZeroLeft(k, a, x, next, uses, n)
<1>1. 0 \in Tiers /\ Spills(k, v, i, a, c, x, next, uses, n)
  BY TargetTyped DEF ScanInv, Makes
<1>2. CASE k # 0
  <2>1. 0 \notin {k, k + 1} /\ Elsewhere({k, k + 1})
    BY <1>1, <1>2 DEF Spills
  <2>2. placed'[0] = placed[0] /\ unhandled'[0] = unhandled[0] /\ SameCalls(stack, stack', 0)
    BY <1>1, <2>1 DEF Elsewhere
  <2>3. Pieces(0)' = Pieces(0)
    BY <2>2, PiecesAlone
  <2>4. QED BY <1>2, <2>2, <2>3 DEF ZeroLeft
<1>3. CASE k = 0
  <2>1. /\ a = placed[0][i] /\ i \in DOMAIN placed[0] /\ DOMAIN placed'[0] = DOMAIN placed[0]
        /\ placed'[0][i] = x /\ x.mem = a.mem
        /\ \A j \in DOMAIN placed[0] : j # i => placed'[0][j] = placed[0][j]
        /\ unhandled'[0] = unhandled[0] /\ CurIn(stack, 0) = {c} /\ CurIn(stack', 0) = {c}
        /\ ReloadIn(stack', 0) = IF Comes(a, next, uses) THEN {Part(a, next, a.end, uses, n + 2)} ELSE {}
    BY <1>1, <1>3 DEF Spills, Cut
  <2>2. ReloadIn(stack, 0) = {}
    BY <1>3, TopFree
  <2>3. PICK d, e : d = placed[0] /\ e = placed'[0]
    OBVIOUS
  <2>4. \A z \in Range(d) : z = a \/ z \in Range(e)
    <3>1. SUFFICES ASSUME NEW j \in DOMAIN d, d[j] # a PROVE d[j] \in Range(e)
      BY InRange
    <3>2. j \in DOMAIN e /\ e[j] = d[j]
      BY <2>1, <2>3, <3>1
    <3>3. QED BY <3>2, InRange
  <2>5. x \in Range(e)
    <3>1. i \in DOMAIN e /\ e[i] = x
      BY <2>1, <2>3
    <3>2. QED BY <3>1, InRange
  <2>6. Comes(a, next, uses) => \E y \in Pieces(0)' : y.mem = n + 2 /\ y.uses = uses
    <3>1. n + 2 \in Nat /\ a.end \in Int
      BY DEF IntervalType
    <3>2. PICK y : y = Part(a, next, a.end, uses, n + 2)
      OBVIOUS
    <3>3. y.mem = n + 2 /\ y.uses = uses
      <4>1. PICK m \in Nat, w \in Int : m = n + 2 /\ w = a.end
        BY <3>1
      <4>2. Part(a, next, w, uses, m).mem = m /\ Part(a, next, w, uses, m).uses = uses
        BY ONLY a \in IntervalType, m \in Nat, next \in Int, w \in Int, uses \in SUBSET Nat, PartTyped
      <4>3. QED BY <3>2, <4>1, <4>2
    <3>4. Comes(a, next, uses) => y \in Pieces(0)'
      BY <2>1, <3>2 DEF Pieces
    <3>5. QED BY <3>3, <3>4
  <2>7. \A z \in Pieces(0) : z = a \/ z \in Pieces(0)'
    BY <2>1, <2>2, <2>3, <2>4 DEF Pieces
  <2>8. x \in Pieces(0)'
    BY <2>3, <2>5 DEF Pieces
  <2>9. \A z \in Range(placed[0]) : \E y \in Range(placed'[0]) : y.mem = z.mem
    BY <2>1, <2>3, <2>4, <2>5
  <2>10. QED BY <1>3, <2>3, <2>5, <2>6, <2>7, <2>8, <2>9 DEF ZeroLeft
<1>4. QED BY <1>2, <1>3

(* The evicted buffer is cut at an operation that is none of its uses: each *)
(* of them is before it, and stays, or after it, and comes back.            *)
LEMMA UsesSplit ==
  ASSUME ScanInv, Homes, stack # << >>, NEW v \in Ids, NEW i \in Nat,
         NEW a \in IntervalType, NEW c \in IntervalType, NEW x \in IntervalType, NEW next \in Int,
         NEW uses \in SUBSET Nat, NEW n \in Nat, Makes(0, v, i, a, c, x, next, uses, n),
         c.mem \in Bufs(prog), NEW u \in a.uses, u \notin x.uses
  PROVE  Comes(a, next, uses) /\ u \in uses
<1>1. /\ c \in Pieces(0) /\ Sound(a) /\ c = Cur /\ next = NextUse(a) /\ uses = {w \in a.uses : w >= next}
      /\ x.uses = {w \in a.uses : w < c.start}
  BY DEF Makes, Spills, Cut, UsesBefore
<1>2. c.start = DefTime(prog, c.mem)
  BY <1>1 DEF Homes, Origins
<1>3. u \in ExecTimes /\ \A w \in a.uses : w < a.end
  BY <1>1 DEF Sound
<1>4. u # c.start
  <2>1. prog.ops[DefTime(prog, c.mem)].kind \in {"alloc", "global"}
    BY DefinedFirst DEF ScanInv
  <2>2. prog.ops[u].kind = "exec"
    BY <1>3 DEF ExecTimes
  <2>3. QED BY <1>2, <2>1, <2>2
<1>5. u \in Nat /\ c.start \in Int /\ a.uses \in SUBSET Nat
  BY DEF IntervalType
<1>6. u > c.start
  BY <1>1, <1>4, <1>5
<1>7. PICK later \in SUBSET Nat : later = {w \in a.uses : w > c.start} /\ u \in later
  BY <1>5, <1>6
<1>8. next = Min(later)
  BY <1>1, <1>7 DEF NextUse
<1>9. next \in later /\ next <= u
  BY <1>7, <1>8, MinIsLeast
<1>10. u \in uses
  BY <1>1, <1>5, <1>9
<1>11. next < a.end
  BY <1>3, <1>7, <1>9
<1>12. QED BY <1>10, <1>11 DEF Comes

LEMMA CoverSpill ==
  ASSUME ScanInv, CodeInv, Course, Homes, HomeCovered, UseCovered, Spill
  PROVE  HomeCovered' /\ UseCovered'
<1>1. /\ prog' = prog /\ prog \in Programs /\ phase = "alloc" /\ plan' = plan /\ stack # << >> /\ 0 \in Tiers
  BY SpillMakes, TargetTyped DEF ScanInv
<1>2. PICK k \in Tiers, v \in Ids, i \in Nat, a, c, x \in IntervalType, next \in Int, uses \in SUBSET Nat,
           n \in Nat :
        k = Tier /\ k \in Nat /\ k + 1 \in Tiers /\ k < Bottom /\ Makes(k, v, i, a, c, x, next, uses, n)
  BY SpillMakes
<1>3. /\ a \in Pieces(k) /\ c \in Pieces(k) /\ a.mem \in 1 .. n /\ a.mem # NoMem /\ a.id = v
      /\ n = Len(memrefs) /\ x.mem = a.mem
      /\ evictedFor' = evictedFor \cup {<<k, c.mem, a.mem>>}
      /\ \A m \in 1 .. n : memrefs'[m] = memrefs[m]
      /\ Comes(a, next, uses) => memrefs'[n + 2] = Unplaced(v.buf)
      /\ (uses # {} => a.uses # {})
  BY <1>2 DEF Makes, Spills, Cut, NoMem
<1>4. PICK times : times = IF Comes(a, next, uses) THEN uses ELSE {}
  OBVIOUS
<1>5. Follows(code, code', times, a.mem, n + 2)
  BY <1>2, <1>4, SpillFollows
<1>6. /\ \A z \in Range(placed[0]) : \E y \in Range(placed'[0]) : y.mem = z.mem
      /\ k # 0 => Pieces(0) \subseteq Pieces(0)'
      /\ k = 0 => /\ \A z \in Pieces(0) : z = a \/ z \in Pieces(0)'
                  /\ x \in Range(placed'[0]) /\ x \in Pieces(0)'
                  /\ Comes(a, next, uses) => \E y \in Pieces(0)' : y.mem = n + 2 /\ y.uses = uses
  <2>1. Makes(k, v, i, a, c, x, next, uses, n)
    BY <1>2
  <2>2. k \in Nat /\ k = Tier /\ stack # << >>
    BY <1>1, <1>2
  <2>3. ZeroLeft(k, a, x, next, uses, n)
    BY <2>1, <2>2, ZeroAfterSpill
  <2>4. QED BY <2>3 DEF ZeroLeft
<1>7. ASSUME NEW o \in Execs(code'), NEW m \in Touched(o)
      PROVE  \E op \in Execs(code) :
               /\ op.time = o.time
               /\ \/ m \in Touched(op) /\ (m = a.mem => o.time \notin times) /\ memrefs'[m] = memrefs[m]
                  \/ m = n + 2 /\ a.mem \in Touched(op) /\ o.time \in times
  <2>1. PICK op \in Execs(code) :
          /\ op.time = o.time
          /\ \/ m \in Touched(op) /\ (m = a.mem => o.time \notin times)
             \/ m = n + 2 /\ a.mem \in Touched(op) /\ o.time \in times
    BY <1>5, <1>7 DEF Follows
  <2>2. m \in Touched(op) => m \in 1 .. n
    BY <1>3, TouchedTyped DEF Execs
  <2>3. QED BY <1>3, <2>1, <2>2
<1>8. Bottom > 0
  BY <1>1, <1>2, TargetTyped
<1>9. HomeCovered'
  <2>1. SUFFICES ASSUME ResidentsStay', NEW o \in Execs(code'), NEW m \in Touched(o)
                 PROVE  IF HomeOf(prog, memrefs'[m].buf) = 0 THEN InZero(o, m)'
                        ELSE ToStage(o, m)' \/ OnStage(m)'
    BY <1>1 DEF HomeCovered
  <2>2. ResidentsStay
    BY <1>1, <1>3, <2>1 DEF ResidentsStay
  <2>3. PICK op \in Execs(code) :
          /\ op.time = o.time
          /\ \/ m \in Touched(op) /\ (m = a.mem => o.time \notin times) /\ memrefs'[m] = memrefs[m]
             \/ m = n + 2 /\ a.mem \in Touched(op) /\ o.time \in times
    BY <1>7
  <2>4. CASE m \in Touched(op) /\ memrefs'[m] = memrefs[m]
    <3>1. IF HomeOf(prog, memrefs[m].buf) = 0 THEN InZero(op, m) ELSE ToStage(op, m) \/ OnStage(m)
      BY <2>2, <2>4 DEF HomeCovered
    <3>2. ~ OnStage(m) /\ (ToStage(op, m) => ToStage(o, m)')
      BY <1>1, <2>3 DEF OnStage, Emitting, ToStage
    <3>3. InZero(op, m) => InZero(o, m)'
      <4>1. CASE \E y \in Range(placed[0]) : y.mem = m
        BY <1>6, <4>1 DEF InZero
      <4>2. ASSUME NEW y \in Pieces(0), y.mem = m, op.time \in y.uses PROVE InZero(o, m)'
        <5>1. CASE y \in Pieces(0)'
          BY <2>3, <4>2, <5>1 DEF InZero
        <5>2. CASE y \notin Pieces(0)'
          <6>1. k = 0 /\ y = a
            BY <1>6, <5>2
          <6>2. x \in Range(placed'[0]) /\ x.mem = m
            BY <1>3, <1>6, <4>2, <6>1
          <6>3. QED BY <6>2 DEF InZero
        <5>3. QED BY <5>1, <5>2
      <4>3. QED BY <4>1, <4>2 DEF InZero
    <3>4. QED BY <2>4, <3>1, <3>2, <3>3
  <2>5. CASE m = n + 2 /\ o.time \in times
    <3>1. Comes(a, next, uses) /\ o.time \in uses /\ a.uses # {}
      BY <1>3, <1>4, <2>5
    <3>2. memrefs'[m].buf = a.id.buf
      BY <1>3, <2>5, <3>1 DEF Unplaced
    <3>3. CASE k = 0
      <4>1. HomeOf(prog, a.id.buf) = 0
        BY <1>3, <1>8, <3>3 DEF Homes, NoResidents
      <4>2. InZero(o, m)'
        BY <1>6, <2>5, <3>1, <3>3 DEF InZero
      <4>3. QED BY <3>2, <4>1, <4>2
    <3>4. CASE k # 0
      <4>1. MayUse(a, k)
        BY <1>3, <2>2, <3>1 DEF Homes, UsesHeld
      <4>2. a.mem \in Bufs(prog) /\ HomeOf(prog, a.mem) > 0
        BY <3>4, <4>1 DEF MayUse
      <4>3. <<k, c.mem, a.mem>> \in evictedFor'
        BY <1>3
      <4>4. HomeOf(prog, a.mem) = 0
        BY <1>1, <2>1, <4>2, <4>3 DEF ResidentsStay
      <4>5. QED BY <4>2, <4>4
    <3>5. QED BY <3>3, <3>4
  <2>6. QED BY <2>3, <2>4, <2>5
<1>10. UseCovered'
  <2>1. SUFFICES ASSUME FreshEvictionsOnly', NEW o \in Execs(code'), NEW m \in Touched(o),
                        HomeOf(prog, memrefs'[m].buf) = 0
                 PROVE  \E y \in Pieces(0)' : y.mem = m /\ o.time \in y.uses
    BY <1>1 DEF UseCovered
  <2>2. FreshEvictionsOnly
    BY <1>1, <1>3, <2>1 DEF FreshEvictionsOnly
  <2>3. k = 0 /\ c.mem \in Bufs(prog)
    <3>1. PICK e \in evictedFor' : e = <<k, c.mem, a.mem>>
      BY <1>3
    <3>2. e[1] = 0 /\ e[2] \in Bufs(prog)
      BY <1>1, <2>1 DEF FreshEvictionsOnly
    <3>3. QED BY <3>1, <3>2
  <2>4. PICK op \in Execs(code) :
          /\ op.time = o.time
          /\ \/ m \in Touched(op) /\ (m = a.mem => o.time \notin times) /\ memrefs'[m] = memrefs[m]
             \/ m = n + 2 /\ a.mem \in Touched(op) /\ o.time \in times
    BY <1>7
  <2>5. CASE m \in Touched(op) /\ (m = a.mem => o.time \notin times) /\ memrefs'[m] = memrefs[m]
    <3>1. PICK z \in Pieces(0) : z.mem = m /\ o.time \in z.uses
      BY <2>1, <2>2, <2>4, <2>5 DEF UseCovered
    <3>2. CASE z \in Pieces(0)'
      BY <3>1, <3>2
    <3>3. CASE z = a
      <4>1. o.time \notin times
        BY <2>5, <3>1, <3>3
      <4>2. ~ (Comes(a, next, uses) /\ o.time \in uses)
        BY <1>4, <4>1
      <4>3. PICK u \in a.uses : u = o.time
        BY <3>1, <3>3
      <4>4. Makes(0, v, i, a, c, x, next, uses, n)
        BY <1>2, <2>3
      <4>5. u \in x.uses
        BY ONLY ScanInv, Homes, <1>1, v \in Ids, i \in Nat, a \in IntervalType, c \in IntervalType,
                x \in IntervalType, next \in Int, uses \in SUBSET Nat, n \in Nat, <4>4, <2>3, u \in a.uses,
                <4>2, <4>3, UsesSplit
      <4>6. QED BY <1>3, <1>6, <2>3, <3>1, <3>3, <4>3, <4>5
    <3>4. QED BY <1>6, <2>3, <3>2, <3>3
  <2>6. CASE m = n + 2 /\ o.time \in times
    BY <1>4, <1>6, <2>3, <2>6
  <2>7. QED BY <2>4, <2>5, <2>6
<1>11. QED BY <1>9, <1>10

LEMMA CoverStep ==
  ScanInv /\ GuardInv /\ CodeInv /\ Course /\ Homes /\ CoverInv /\ [Next]_vars => CoverInv'
<1> SUFFICES ASSUME ScanInv, GuardInv, CodeInv, Course, Homes, CoverInv, [Next]_vars PROVE CoverInv'
  OBVIOUS
<1>1. CASE Lost'
  BY <1>1 DEF CoverInv
<1>2. CASE ~ Lost'
  <2>1. ~ Lost /\ HomeCovered /\ UseCovered
    BY <1>2, LostStays DEF CoverInv
  <2>2. HomeCovered' /\ UseCovered'
    BY <1>2, <2>1, CoverSpill, CoverChain, CoverRest
  <2>3. QED BY <2>2 DEF CoverInv
<1>3. QED BY <1>1, <1>2

LEMMA CoverInvariant == Spec => []CoverInv
BY CoverInit, CoverStep, ScanWellFormed, GuardInvariant, CodeInvariant, CourseInvariant, HomesInvariant, PTL
   DEF Spec
-----------------------------------------------------------------------------
(* While the code runs nothing is pending: tier 0 is what was placed in it, *)
(* nothing was lost and every chain has been emitted.                       *)
LEMMA AtRun ==
  ASSUME ScanInv, GuardInv, Course, ZeroInv, CoverInv, phase = "run"
  PROVE  /\ Pieces(0) = Range(placed[0]) /\ plan = {} /\ MarkedZero /\ HomeCovered /\ UseCovered /\ 0 \in Tiers
         /\ ~ Lost
<1>1. stack = << >> /\ allPlaced /\ plan = {} /\ unhandled[0] = << >>
  BY DEF Course
<1>2. CurIn(stack, 0) = {} /\ ReloadIn(stack, 0) = {} /\ OkIn(stack, 0)
  <2>1. PICK s : s = stack
    OBVIOUS
  <2>2. \A i \in DOMAIN s : s[i].tier # 0
    BY <1>1, <2>1
  <2>3. CurIn(s, 0) = {} /\ ReloadIn(s, 0) = {} /\ OkIn(s, 0) = TRUE
    BY ONLY <2>2, NoCall
  <2>4. QED BY <2>1, <2>3
<1>3. Pieces(0) = Range(placed[0])
  <2>1. Range(unhandled[0]) = {}
    BY <1>1, InRange
  <2>2. QED BY <1>2, <2>1 DEF Pieces
<1>4. ~ Stuck
  BY <1>2 DEF Stuck
<1>5. ~ Lost
  BY <1>1, <1>2, <1>4 DEF Lost
<1>6. 0 \in Tiers
  BY TargetTyped DEF ScanInv
<1>7. QED BY <1>1, <1>3, <1>5, <1>6 DEF ZeroInv, CoverInv

LEMMA MarkedAtRun ==
  ASSUME ScanInv, MarkedZero, NEW y \in Range(placed[0]), y.mem # NoMem
  PROVE  memrefs[y.mem].tier = 0
<1>1. PICK j \in DOMAIN placed[0] : y = placed[0][j]
  BY InRange
<1>2. QED BY <1>1 DEF MarkedZero

(* Whatever the functions, the capacities and the guard, and whatever was   *)
(* spilled on the way: unless a resident was evicted from its home, every   *)
(* operand of every operation of the emitted code is in the tier arithmetic *)
(* works on (allocSuccess, handleSpill and emitStagingChains together).     *)
THEOREM OperandsInTierZero == Spec => []ComputesInTierZero
<1>1. ScanInv /\ GuardInv /\ CodeInv /\ Course /\ ZeroInv /\ CoverInv => ComputesInTierZero
  <2>1. SUFFICES ASSUME ScanInv, GuardInv, CodeInv, Course, ZeroInv, CoverInv, Running("exec"), ResidentsStay,
                        NEW m \in Touched(code[pc])
                 PROVE  memrefs[m].tier = 0
    BY DEF ComputesInTierZero
  <2>2. phase = "run" /\ code[pc].kind = "exec" /\ pc \in DOMAIN code
    BY <2>1 DEF Running
  <2>3. PICK op : op = code[pc]
    OBVIOUS
  <2>4. op \in Range(code) /\ op \in Execs(code) /\ m \in Touched(op)
    BY <2>1, <2>2, <2>3, InRange DEF Execs
  <2>5. m \in 1 .. Len(memrefs) /\ Len(memrefs) \in Nat
    BY <2>1, <2>4, TouchedTyped
  <2>6. m # NoMem
    BY <2>5 DEF NoMem
  <2>7. Pieces(0) = Range(placed[0]) /\ plan = {} /\ MarkedZero /\ HomeCovered
    BY <2>1, <2>2, AtRun
  <2>8. \/ \E y \in Range(placed[0]) : y.mem = m
        \/ ToStage(op, m) \/ OnStage(m)
    BY <2>1, <2>4, <2>7 DEF HomeCovered, InZero
  <2>9. ~ ToStage(op, m)
    BY <2>7 DEF ToStage
  <2>10. QED BY <2>1, <2>6, <2>7, <2>8, <2>9, MarkedAtRun DEF OnStage
<1>2. QED BY <1>1, ScanWellFormed, GuardInvariant, CodeInvariant, CourseInvariant, ZeroInvariant, CoverInvariant,
             PTL

(* Whatever the functions and the target: as long as only fresh buffers     *)
(* evicted others, the memref each operation of the emitted code works on   *)
(* is one the scan holds a place for at that operation, or a stage of a     *)
(* resident: truncation, reloads and the renaming of uses agree.            *)
THEOREM UsesStayCovered == Spec => []UsesCovered
<1>1. ScanInv /\ GuardInv /\ CodeInv /\ Course /\ Homes /\ ZeroInv /\ CoverInv => UsesCovered
  <2>1. SUFFICES ASSUME ScanInv, GuardInv, CodeInv, Course, Homes, ZeroInv, CoverInv, Running("exec"),
                        FreshEvictionsOnly, NEW m \in Touched(code[pc])
                 PROVE  \/ m > Cardinality(Bufs(prog)) /\ HomeOf(prog, memrefs[m].buf) > 0
                        \/ \E k \in Tiers : \E a \in Range(placed[k]) :
                             a.mem = m /\ a.start <= code[pc].time /\ code[pc].time < a.end
    BY DEF UsesCovered
  <2>2. phase = "run" /\ code[pc].kind = "exec" /\ pc \in DOMAIN code
    BY <2>1 DEF Running
  <2>3. PICK op : op = code[pc]
    OBVIOUS
  <2>4. op \in Range(code) /\ op \in Execs(code) /\ m \in Touched(op)
    BY <2>1, <2>2, <2>3, InRange DEF Execs
  <2>5. m \in 1 .. Len(memrefs) /\ Len(memrefs) \in Nat
    BY <2>1, <2>4, TouchedTyped
  <2>6. Pieces(0) = Range(placed[0]) /\ plan = {} /\ HomeCovered /\ UseCovered /\ 0 \in Tiers
    BY <2>1, <2>2, AtRun
  <2>7. CASE HomeOf(prog, memrefs[m].buf) = 0
    <3>1. PICK y \in Range(placed[0]) : y.mem = m /\ op.time \in y.uses
      BY <2>1, <2>4, <2>6, <2>7 DEF UseCovered
    <3>2. Sound(y)
      BY <2>1, <2>6, PiecesTyped
    <3>3. y.start <= op.time /\ op.time < y.end
      BY <3>1, <3>2 DEF Sound
    <3>4. QED BY <2>3, <2>6, <3>1, <3>3
  <2>8. CASE HomeOf(prog, memrefs[m].buf) # 0
    <3>1. ResidentsStay
      BY <2>1, FreshLeaveResidents
    <3>2. m \notin Bufs(prog)
      BY <2>4, <2>6, <2>8, <3>1 DEF HomeCovered, ToStage, OnStage
    <3>3. m > Cardinality(Bufs(prog))
      <4>1. Bufs(prog) = 1 .. Len(prog.size) /\ Len(prog.size) \in Nat
        BY <2>1, FunctionTyped DEF ScanInv
      <4>2. Cardinality(1 .. Len(prog.size)) = Len(prog.size)
        BY <4>1, FS_Interval
      <4>3. QED BY <2>5, <3>2, <4>1, <4>2
    <3>4. HomeOf(prog, memrefs[m].buf) > 0
      <4>1. memrefs[m].buf \in Bufs(prog)
        <5>1. PICK s \in Seq(MemrefType) : s = memrefs
          BY <2>1 DEF ScanInv, MemrefsTyped
        <5>2. s[m] \in MemrefType
          BY <2>5, <5>1, ElementOfSeq
        <5>3. QED BY <5>1, <5>2 DEF MemrefType
      <4>2. HomeOf(prog, memrefs[m].buf) \in Nat
        BY <2>1, <4>1, HomeTyped DEF ScanInv
      <4>3. QED BY <2>8, <4>2
    <3>5. QED BY <3>3, <3>4
  <2>9. QED BY <2>7, <2>8
<1>2. QED BY <1>1, ScanWellFormed, GuardInvariant, CodeInvariant, CourseInvariant, HomesInvariant, ZeroInvariant,
             CoverInvariant, PTL

-----------------------------------------------------------------------------
(* What holds of every scan.  No memref is of two intervals, and no stage   *)
(* is there twice.                                                          *)
Twin(x, y) == x.mem = y.mem /\ (x.mem = NoMem => x.id = y.id)

Distinct(q) == \A i, j \in DOMAIN q : Twin(q[i], q[j]) => i = j
Foreign(S, T) == \A x \in S, y \in T : ~ Twin(x, y)

SoleIn(k) ==
  /\ Distinct(unhandled[k]) /\ Distinct(placed[k])
  /\ Foreign(Range(unhandled[k]), CurIn(stack, k)) /\ Foreign(Range(unhandled[k]), ReloadIn(stack, k))
  /\ Foreign(Range(unhandled[k]), Range(placed[k]))
  /\ Foreign(CurIn(stack, k), ReloadIn(stack, k)) /\ Foreign(CurIn(stack, k), Range(placed[k]))
  /\ Foreign(ReloadIn(stack, k), Range(placed[k]))

Sole ==
  /\ \A k \in Tiers : SoleIn(k)
  /\ \A k, l \in Tiers : k # l => Foreign(Pieces(k), Pieces(l))

(* A stage has no memref, and what has one is of the buffer of its memref.  *)
Labelled ==
  /\ \A b \in Bufs(prog) : memrefs[b].buf = b
  /\ \A k \in Tiers : \A y \in Pieces(k) :
       /\ y.mem = NoMem <=> y.id.stage # -1
       /\ y.mem # NoMem => memrefs[y.mem].buf = y.id.buf /\ y.id = IdOf(y.id.buf)

(* What is placed is inside its tier, and memMap has the places of the      *)
(* stages.                                                                  *)
Seated ==
  \A k \in Tiers : \A y \in Range(placed[k]) :
    /\ 0 <= y.offset /\ y.offset + y.size <= prog.caps[k]
    /\ y.mem = NoMem => y.id \in DOMAIN memMap /\ memMap[y.id] = y.offset

(* The tiers below the one in progress are done with. *)
Drained ==
  \A k \in Tiers : k > (IF stack = << >> THEN level ELSE Tier) => unhandled[k] = << >>

(* What a well-formed function says: the capacities are numbers, a buffer   *)
(* has one definition, and a dealloc writes nothing.                        *)
LEMMA CapsTyped ==
  ASSUME prog \in Programs, NEW k \in Tiers
  PROVE  prog.caps[k] \in Nat
<1>1. WellFormed(prog)
  BY ProgramsAssumption
<1>2. prog.caps \in [0 .. Cardinality(DOMAIN prog.caps) - 1 -> Nat]
  BY <1>1 DEF WellFormed
<1>3. PICK n : prog.caps \in [0 .. n -> Nat]
  BY <1>2
<1>4. k \in 0 .. n
  BY <1>3 DEF Tiers
<1>5. QED BY <1>3, <1>4

LEMMA OneDefinition ==
  ASSUME prog \in Programs, NEW b \in Bufs(prog), NEW t \in Times(prog),
         b \in prog.ops[t].writes, prog.ops[t].kind \in {"alloc", "global"}
  PROVE  t = DefTime(prog, b)
<1>1. WellFormed(prog)
  BY ProgramsAssumption
<1>2. PICK d \in Times(prog) : \A u \in Times(prog) :
        b \in prog.ops[u].writes /\ prog.ops[u].kind \in {"alloc", "global"} => u = d
  BY <1>1 DEF WellFormed
<1>3. t = d
  BY <1>2
<1>4. DefTime(prog, b) \in Times(prog) /\ prog.ops[DefTime(prog, b)].kind \in {"alloc", "global"}
      /\ prog.ops[DefTime(prog, b)].writes = {b}
  BY DefinedFirst
<1>5. DefTime(prog, b) = d
  BY <1>2, <1>4
<1>6. QED BY <1>3, <1>5

LEMMA DeallocWritesNothing ==
  ASSUME prog \in Programs, NEW t \in Times(prog), prog.ops[t].kind = "dealloc"
  PROVE  prog.ops[t].writes = {}
<1>1. WellFormed(prog)
  BY ProgramsAssumption
<1>2. QED BY <1>1 DEF WellFormed

-----------------------------------------------------------------------------
(* Where the elements of a splice come from. *)
LEMMA SpliceAt ==
  ASSUME NEW S, NEW s \in Seq(S), NEW c \in Seq(S), NEW p \in 1 .. Len(s) + 1
  PROVE  /\ Spliced(s, c, p) \in Seq(S) /\ Len(Spliced(s, c, p)) = Len(s) + Len(c)
         /\ Len(s) \in Nat /\ Len(c) \in Nat
         /\ \A i \in 1 .. Len(s) + Len(c) :
              Spliced(s, c, p)[i] = IF i < p THEN s[i]
                                    ELSE IF i < p + Len(c) THEN c[i - p + 1] ELSE s[i - Len(c)]
<1>1. PICK n, m \in Nat : n = Len(s) /\ m = Len(c) /\ DOMAIN s = 1 .. n
  BY LenProperties
<1>2. PICK a \in Seq(S) : a = SubSeq(s, 1, p - 1) /\ Len(a) = p - 1 /\ \A i \in 1 .. p - 1 : a[i] = s[i]
  <2>1. p - 1 \in Nat /\ p - 1 <= Len(s)
    BY <1>1
  <2>2. PICK q \in Nat : q = p - 1 /\ q <= Len(s)
    BY <2>1
  <2>3. /\ SubSeq(s, 1, q) \in Seq(S) /\ Len(SubSeq(s, 1, q)) = q
        /\ \A i \in 1 .. q : SubSeq(s, 1, q)[i] = s[i]
    BY ONLY s \in Seq(S), <2>2, Shortened
  <2>4. QED BY <2>2, <2>3
<1>3. PICK b \in Seq(S) : /\ b = SubSeq(s, p, n) /\ Len(b) = n - p + 1
                         /\ \A i \in 1 .. n - p + 1 : b[i] = s[p + i - 1]
  <2>1. SubSeq(s, p, n) \in Seq(S)
    <3>1. \A i \in p .. n : s[i] \in S
      BY <1>1
    <3>2. QED BY <3>1, SubSeqProperties
  <2>2. Len(SubSeq(s, p, n)) = n - p + 1 /\ \A i \in 1 .. n - p + 1 : SubSeq(s, p, n)[i] = s[p + i - 1]
    BY <1>1
  <2>3. QED BY <2>1, <2>2
<1>4. PICK d \in Seq(S) : /\ d = a \o c /\ Len(d) = p - 1 + m
                         /\ \A i \in 1 .. p - 1 + m : d[i] = IF i < p THEN s[i] ELSE c[i - p + 1]
  <2>1. /\ a \o c \in Seq(S) /\ Len(a \o c) = Len(a) + Len(c)
        /\ \A i \in 1 .. Len(a) + Len(c) : (a \o c)[i] = IF i <= Len(a) THEN a[i] ELSE c[i - Len(a)]
    BY ConcatProperties
  <2>2. PICK d \in Seq(S) : d = a \o c
    BY <2>1
  <2>3. Len(d) = p - 1 + m /\ \A i \in 1 .. p - 1 + m : d[i] = IF i <= p - 1 THEN a[i] ELSE c[i - (p - 1)]
    BY <1>1, <1>2, <2>1, <2>2
  <2>4. ASSUME NEW i \in 1 .. p - 1 + m PROVE d[i] = IF i < p THEN s[i] ELSE c[i - p + 1]
    <3>1. (i <= p - 1 <=> i < p) /\ i - (p - 1) = i - p + 1 /\ (i < p => i \in 1 .. p - 1)
      OBVIOUS
    <3>2. QED BY <1>2, <2>3, <3>1
  <2>5. QED BY <2>2, <2>3, <2>4
<1>5. PICK r \in Seq(S) : /\ r = Spliced(s, c, p) /\ Len(r) = n + m
                         /\ \A i \in 1 .. n + m : r[i] = IF i <= p - 1 + m THEN d[i] ELSE b[i - (p - 1 + m)]
  <2>1. /\ d \o b \in Seq(S) /\ Len(d \o b) = Len(d) + Len(b)
        /\ \A i \in 1 .. Len(d) + Len(b) : (d \o b)[i] = IF i <= Len(d) THEN d[i] ELSE b[i - Len(d)]
    BY ConcatProperties
  <2>2. Len(d) + Len(b) = n + m
    BY <1>1, <1>3, <1>4
  <2>3. Spliced(s, c, p) = d \o b
    BY <1>1, <1>2, <1>3, <1>4 DEF Spliced
  <2>4. PICK r \in Seq(S) : r = d \o b
    BY <2>1
  <2>5. Len(r) = n + m
    BY <2>1, <2>2, <2>4
  <2>6. \A i \in 1 .. n + m : r[i] = IF i <= p - 1 + m THEN d[i] ELSE b[i - (p - 1 + m)]
    BY <1>4, <2>1, <2>2, <2>4
  <2>7. QED BY <2>3, <2>4, <2>5, <2>6
<1>6. ASSUME NEW i \in 1 .. n + m
      PROVE  r[i] = IF i < p THEN s[i] ELSE IF i < p + m THEN c[i - p + 1] ELSE s[i - m]
  <2>1. CASE i <= p - 1 + m
    <3>1. i \in 1 .. p - 1 + m /\ (i < p \/ i < p + m)
      BY <2>1
    <3>2. QED BY <1>4, <1>5, <2>1, <3>1
  <2>2. CASE ~ (i <= p - 1 + m)
    <3>1. /\ i - (p - 1 + m) \in 1 .. n - p + 1 /\ p + (i - (p - 1 + m)) - 1 = i - m
          /\ ~ (i < p) /\ ~ (i < p + m)
      BY <2>2
    <3>2. QED BY <1>3, <1>5, <2>2, <3>1
  <2>3. QED BY <2>1, <2>2
<1>7. QED BY <1>1, <1>5, <1>6

(* r is q with x put in at p. *)
PutAt(r, q, p, x) ==
  /\ p \in DOMAIN r /\ r[p] = x
  /\ \A i \in DOMAIN r : /\ i < p => i \in DOMAIN q /\ r[i] = q[i]
                         /\ i > p => i - 1 \in DOMAIN q /\ r[i] = q[i - 1]

LEMMA InsertedAt ==
  ASSUME NEW S, NEW q \in Seq(S), NEW x \in S, NEW p \in 1 .. Len(q) + 1, NEW r, r = InsertAt(q, p, x)
  PROVE  /\ r \in Seq(S) /\ Range(r) = Range(q) \cup {x} /\ PutAt(r, q, p, x)
         /\ Len(r) = Len(q) + 1 /\ Len(q) \in Nat
<1>1. PICK n \in Nat : n = Len(q) /\ DOMAIN q = 1 .. n
  BY LenProperties
<1>2. PICK c \in Seq(S) : c = <<x>> /\ Len(c) = 1 /\ c[1] = x
  <2>1. <<x>> \in Seq(S) /\ Len(<<x>>) = 1 /\ <<x>>[1] = x
    OBVIOUS
  <2>2. QED BY <2>1
<1>3. r = Spliced(q, c, p)
  <2>1. r = SubSeq(q, 1, p - 1) \o <<x>> \o SubSeq(q, p, Len(q))
    BY DEF InsertAt
  <2>2. QED BY <1>2, <2>1 DEF Spliced
<1>4. /\ r \in Seq(S) /\ Len(r) = n + 1
      /\ \A i \in 1 .. n + 1 : r[i] = IF i < p THEN q[i] ELSE IF i < p + 1 THEN c[i - p + 1] ELSE q[i - 1]
  <2>1. /\ Spliced(q, c, p) \in Seq(S) /\ Len(Spliced(q, c, p)) = Len(q) + Len(c)
        /\ \A i \in 1 .. Len(q) + Len(c) :
             Spliced(q, c, p)[i] = IF i < p THEN q[i]
                                   ELSE IF i < p + Len(c) THEN c[i - p + 1] ELSE q[i - Len(c)]
    BY SpliceAt
  <2>2. Len(q) = n /\ Len(c) = 1
    BY <1>1, <1>2
  <2>3. QED BY <1>3, <2>1, <2>2
<1>5. DOMAIN r = 1 .. n + 1
  BY <1>4
<1>6. r[p] = x
  <2>1. p \in 1 .. n + 1 /\ ~ (p < p) /\ p < p + 1 /\ p - p + 1 = 1
    BY <1>1
  <2>2. QED BY <1>2, <1>4, <2>1
<1>7. ASSUME NEW i \in 1 .. n + 1
      PROVE  (i < p => i \in 1 .. n /\ r[i] = q[i]) /\ (i > p => i - 1 \in 1 .. n /\ r[i] = q[i - 1])
  <2>1. p \in 1 .. n + 1
    BY <1>1
  <2>2. (i < p => i \in 1 .. n) /\ (i > p => i - 1 \in 1 .. n /\ ~ (i < p) /\ ~ (i < p + 1))
    BY <2>1
  <2>3. QED BY <1>4, <2>2
<1>8. Range(r) = Range(q) \cup {x}
  BY Inserted
<1>9. p \in 1 .. n + 1
  BY <1>1
<1>10. PutAt(r, q, p, x)
  BY <1>1, <1>5, <1>6, <1>7, <1>9 DEF PutAt
<1>11. QED BY <1>1, <1>4, <1>8, <1>10

(* An interval put into a queue. *)
LEMMA QueuedAt ==
  ASSUME NEW q \in Seq(IntervalType), NEW iv \in IntervalType, NEW r, r = AddUnhandled(q, iv)
  PROVE  /\ r \in Seq(IntervalType) /\ Range(r) = Range(q) \cup {iv} /\ DOMAIN r \subseteq Nat
         /\ \E p \in Nat : PutAt(r, q, p, iv)
<1>1. PICK n \in Nat : n = Len(q) /\ DOMAIN q = 1 .. n
  BY LenProperties
<1>2. PICK E : E = {i \in 1 .. n : q[i].start < iv.start}
  OBVIOUS
<1>3. Cardinality(E) \in Nat /\ Cardinality(E) <= n
  <2>1. IsFiniteSet(1 .. n) /\ Cardinality(1 .. n) = n
    <3>1. n \in Int /\ 1 \in Int /\ (IF 1 > n THEN 0 ELSE n - 1 + 1) = n
      OBVIOUS
    <3>2. QED BY <3>1, FS_Interval
  <2>2. E \subseteq 1 .. n
    BY <1>2
  <2>3. IsFiniteSet(E) /\ Cardinality(E) <= n /\ Cardinality(E) \in Nat
    BY <2>1, <2>2, FS_Subset, FS_CardinalityType
  <2>4. QED BY <2>3
<1>4. PICK p \in 1 .. n + 1 : p = Cardinality(E) + 1
  BY <1>3
<1>5. r = InsertAt(q, p, iv)
  BY <1>1, <1>2, <1>4 DEF AddUnhandled
<1>6. p \in 1 .. Len(q) + 1
  BY <1>1
<1>7. r \in Seq(IntervalType) /\ Range(r) = Range(q) \cup {iv} /\ PutAt(r, q, p, iv)
  BY <1>5, <1>6, InsertedAt
<1>8. DOMAIN r \subseteq Nat /\ p \in Nat
  BY <1>7
<1>9. QED BY <1>7, <1>8

-----------------------------------------------------------------------------
(* No memref is of two intervals.                                           *)
LEMMA TwinSame ==
  ASSUME NEW x, NEW y, NEW v, NEW w, SamePiece(x, v), SamePiece(y, w)
  PROVE  Twin(x, y) <=> Twin(v, w)
BY DEF SamePiece, Twin

LEMMA TwinTurns ==
  ASSUME NEW x, NEW y
  PROVE  Twin(x, y) <=> Twin(y, x)
BY DEF Twin

(* What is left to show of a step in the tiers S that makes no pieces. *)
LEMMA SoleElsewhere ==
  ASSUME Sole, prog' = prog, NEW S, Elsewhere(S), KeepsPieces, \A k \in Tiers \cap S : SoleIn(k)'
  PROVE  Sole'
<1>1. ASSUME NEW k \in Tiers PROVE SoleIn(k)'
  <2>1. CASE k \in S
    BY <2>1
  <2>2. CASE k \notin S
    <3>1. /\ unhandled'[k] = unhandled[k] /\ placed'[k] = placed[k]
          /\ CurIn(stack', k) = CurIn(stack, k) /\ ReloadIn(stack', k) = ReloadIn(stack, k)
      BY <2>2 DEF Elsewhere, SameCalls
    <3>2. SoleIn(k)
      BY DEF Sole
    <3>3. QED BY <3>1, <3>2 DEF SoleIn
  <2>3. QED BY <2>1, <2>2
<1>2. ASSUME NEW k \in Tiers, NEW l \in Tiers, k # l PROVE Foreign(Pieces(k), Pieces(l))'
  <2>1. SUFFICES ASSUME NEW y \in Pieces(k)', NEW z \in Pieces(l)' PROVE ~ Twin(y, z)
    BY DEF Foreign
  <2>2. PICK v \in Pieces(k) : SamePiece(y, v)
    BY DEF KeepsPieces
  <2>3. PICK w \in Pieces(l) : SamePiece(z, w)
    BY DEF KeepsPieces
  <2>4. ~ Twin(v, w)
    BY <1>2 DEF Sole, Foreign
  <2>5. QED BY <2>2, <2>3, <2>4, TwinSame
<1>3. Tiers' = Tiers
  BY DEF Tiers
<1>4. QED BY <1>1, <1>2, <1>3 DEF Sole

LEMMA SoleTake == ScanInv /\ GuardInv /\ Sole /\ Take => Sole'
<1> SUFFICES ASSUME ScanInv, GuardInv, Sole, Take PROVE Sole'
  OBVIOUS
<1>1. placed' = placed /\ prog' = prog
  BY TakeDoes
<1>2. PICK k \in Tiers : k = Tier
  BY TakeDoes
<1>3. PICK q, r \in Seq(IntervalType), iv \in IntervalType : Takes(k, q, r, iv)
  BY <1>2, TakeDoes
<1>4. /\ unhandled[k] = q /\ unhandled'[k] = r /\ 1 \in DOMAIN q /\ q[1] = iv /\ Range(q) = Range(r) \cup {iv}
      /\ \A j \in DOMAIN r : j \in Nat /\ j > 0 /\ j + 1 \in DOMAIN q /\ r[j] = q[j + 1]
      /\ CurIn(stack', k) \subseteq {iv} /\ ReloadIn(stack', k) = ReloadIn(stack, k) /\ Elsewhere({k})
  BY <1>3 DEF Takes
<1>5. /\ Distinct(q) /\ Distinct(placed[k]) /\ Foreign(Range(q), ReloadIn(stack, k))
      /\ Foreign(Range(q), Range(placed[k])) /\ Foreign(ReloadIn(stack, k), Range(placed[k]))
  BY <1>4 DEF Sole, SoleIn
<1>6. Distinct(r)
  <2>1. SUFFICES ASSUME NEW i \in DOMAIN r, NEW j \in DOMAIN r, Twin(r[i], r[j]) PROVE i = j
    BY DEF Distinct
  <2>2. i + 1 = j + 1 /\ i \in Nat /\ j \in Nat
    BY <1>4, <1>5, <2>1 DEF Distinct
  <2>3. QED BY <2>2
<1>7. Foreign(Range(r), {iv})
  <2>1. SUFFICES ASSUME NEW j \in DOMAIN r PROVE ~ Twin(r[j], iv)
    BY InRange DEF Foreign
  <2>2. j + 1 \in DOMAIN q /\ r[j] = q[j + 1] /\ 1 # j + 1
    BY <1>4, <2>1
  <2>3. QED BY <1>4, <1>5, <2>2 DEF Distinct
<1>8. SoleIn(k)'
  <2>1. \A S, T, U, V : Foreign(S, T) /\ U \subseteq S /\ V \subseteq T => Foreign(U, V)
    BY DEF Foreign
  <2>2. Range(r) \subseteq Range(q) /\ CurIn(stack', k) \subseteq Range(q)
    BY <1>4
  <2>3. /\ Foreign(Range(r), CurIn(stack', k)) /\ Foreign(Range(r), ReloadIn(stack', k))
        /\ Foreign(Range(r), Range(placed[k])) /\ Foreign(CurIn(stack', k), ReloadIn(stack', k))
        /\ Foreign(CurIn(stack', k), Range(placed[k])) /\ Foreign(ReloadIn(stack', k), Range(placed[k]))
    BY <1>4, <1>5, <1>7, <2>2 DEF Foreign
  <2>4. QED BY <1>1, <1>4, <1>5, <1>6, <2>3 DEF SoleIn
<1>9. QED BY <1>1, <1>4, <1>8, PiecesTake, SoleElsewhere

LEMMA SolePlace == ScanInv /\ Sole /\ Place => Sole'
<1> SUFFICES ASSUME ScanInv, Sole, Place PROVE Sole'
  OBVIOUS
<1>1. unhandled' = unhandled /\ prog' = prog
  BY PlaceDoes
<1>2. PICK k \in Tiers : k = Tier
  BY PlaceDoes
<1>3. PICK d, e \in Seq(IntervalType), x, c \in IntervalType, o \in Nat : Places(k, d, e, x, c, o)
  BY <1>2, PlaceDoes
<1>4. PICK l : /\ d = placed[k] /\ e = placed'[k] /\ DOMAIN e = DOMAIN d \cup {l} /\ e[l] = c
               /\ \A j \in DOMAIN d : e[j] = d[j]
               /\ Range(e) = Range(d) \cup {c}
               /\ SamePiece(c, x) /\ CurIn(stack, k) = {x} /\ CurIn(stack', k) = {}
               /\ ReloadIn(stack', k) = ReloadIn(stack, k) /\ Elsewhere({k})
  BY <1>3 DEF Places
<1>5. /\ Distinct(unhandled[k]) /\ Distinct(d) /\ Foreign(Range(unhandled[k]), {x})
      /\ Foreign(Range(unhandled[k]), ReloadIn(stack, k)) /\ Foreign(Range(unhandled[k]), Range(d))
      /\ Foreign({x}, ReloadIn(stack, k)) /\ Foreign({x}, Range(d)) /\ Foreign(ReloadIn(stack, k), Range(d))
  BY <1>4 DEF Sole, SoleIn
<1>6. \A y : (Twin(y, c) <=> Twin(y, x)) /\ (Twin(c, y) <=> Twin(x, y)) /\ (Twin(y, x) <=> Twin(x, y))
  BY <1>4 DEF Twin, SamePiece
<1>7. Distinct(e)
  <2>1. \A j \in DOMAIN d : ~ Twin(x, d[j])
    BY <1>5, InRange DEF Foreign
  <2>2. QED BY <1>4, <1>5, <1>6, <2>1 DEF Distinct
<1>8. Foreign(Range(unhandled[k]), Range(e)) /\ Foreign(ReloadIn(stack, k), Range(e))
  BY <1>4, <1>5, <1>6 DEF Foreign
<1>9. SoleIn(k)'
  <2>1. \A S : Foreign({}, S) /\ Foreign(S, {})
    BY DEF Foreign
  <2>2. QED BY <1>1, <1>4, <1>5, <1>7, <1>8, <2>1 DEF SoleIn
<1>10. QED BY <1>1, <1>4, <1>9, PiecesPlace, SoleElsewhere

(* A queue stays one without twins when what comes into it is foreign. *)
LEMMA DistinctQueue ==
  ASSUME NEW q \in Seq(IntervalType), Distinct(q), NEW iv \in IntervalType, Foreign(Range(q), {iv}),
         NEW r, r = AddUnhandled(q, iv)
  PROVE  Distinct(r)
<1>1. \A i \in DOMAIN q : ~ Twin(q[i], iv) /\ ~ Twin(iv, q[i])
  BY InRange, TwinTurns DEF Foreign
<1>2. DOMAIN r \subseteq Nat /\ \E p \in Nat : PutAt(r, q, p, iv)
  BY QueuedAt
<1>12. PICK p \in Nat : PutAt(r, q, p, iv)
  BY <1>2
<1>3. /\ p \in DOMAIN r /\ r[p] = iv
      /\ \A i \in DOMAIN r : /\ i < p => i \in DOMAIN q /\ r[i] = q[i]
                             /\ i > p => i - 1 \in DOMAIN q /\ r[i] = q[i - 1]
  BY <1>12 DEF PutAt
<1>4. SUFFICES ASSUME NEW i \in DOMAIN r, NEW j \in DOMAIN r, Twin(r[i], r[j]) PROVE i = j
  BY DEF Distinct
<1>5. i \in Nat /\ j \in Nat
  BY <1>2
<1>6. CASE i = p \/ j = p
  <2>1. \A m \in DOMAIN r : m # p => ~ Twin(r[m], iv) /\ ~ Twin(iv, r[m])
    <3>1. SUFFICES ASSUME NEW m \in DOMAIN r, m # p PROVE ~ Twin(r[m], iv) /\ ~ Twin(iv, r[m])
      OBVIOUS
    <3>2. m < p \/ m > p
      BY <1>2, <3>1
    <3>3. QED BY <1>1, <1>3, <3>2
  <2>2. QED BY <1>3, <1>4, <1>6, <2>1
<1>7. CASE i < p /\ j < p
  BY <1>3, <1>4, <1>7 DEF Distinct
<1>8. CASE i > p /\ j > p
  <2>1. i - 1 = j - 1
    BY <1>3, <1>4, <1>8 DEF Distinct
  <2>2. QED BY <1>5, <2>1
<1>9. CASE i < p /\ j > p
  <2>1. i = j - 1
    BY <1>3, <1>4, <1>9 DEF Distinct
  <2>2. QED BY <1>5, <1>9, <2>1
<1>10. CASE i > p /\ j < p
  <2>1. i - 1 = j
    BY <1>3, <1>4, <1>10 DEF Distinct
  <2>2. QED BY <1>5, <1>10, <2>1
<1>11. QED BY <1>5, <1>6, <1>7, <1>8, <1>9, <1>10

LEMMA SoleReturn == ScanInv /\ Sole /\ Return => Sole'
<1> SUFFICES ASSUME ScanInv, Sole, Return PROVE Sole'
  OBVIOUS
<1>1. placed' = placed /\ prog' = prog /\ KeepsPieces
  BY ReturnDoes, PiecesReturn
<1>2. PICK l \in Tiers : l = Tier
  BY ReturnDoes
<1>3. \A S : Foreign({}, S) /\ Foreign(S, {})
  BY DEF Foreign
<1>4. CASE ReturnsToNone
  <2>1. /\ unhandled' = unhandled /\ CurIn(stack', l) = {} /\ ReloadIn(stack', l) = {} /\ Elsewhere({l})
    BY <1>2, <1>4 DEF ReturnsToNone
  <2>2. SoleIn(l)'
    BY <1>1, <1>3, <2>1 DEF Sole, SoleIn
  <2>3. QED BY <1>1, <2>1, <2>2, SoleElsewhere
<1>5. ASSUME NEW k \in Tiers, ReturnsTo(k) PROVE Sole'
  <2>1. /\ unhandled'[l] = unhandled[l] /\ CurIn(stack', l) = {} /\ ReloadIn(stack', l) = {} /\ Elsewhere({k, l})
        /\ CurIn(stack', k) = CurIn(stack, k) /\ ReloadIn(stack', k) = {}
        /\ \/ ReloadIn(stack, k) = {} /\ unhandled'[k] = unhandled[k]
           \/ \E iv \in IntervalType : /\ ReloadIn(stack, k) = {iv}
                                       /\ unhandled'[k] = AddUnhandled(unhandled[k], iv)
    BY <1>2, <1>5 DEF ReturnsTo
  <2>2. SoleIn(l)'
    BY <1>1, <1>3, <2>1 DEF Sole, SoleIn
  <2>3. SoleIn(k)'
    <3>1. CASE ReloadIn(stack, k) = {} /\ unhandled'[k] = unhandled[k]
      BY <1>1, <1>3, <2>1, <3>1 DEF Sole, SoleIn
    <3>2. ASSUME NEW iv \in IntervalType, ReloadIn(stack, k) = {iv},
                 unhandled'[k] = AddUnhandled(unhandled[k], iv)
          PROVE  SoleIn(k)'
      <4>1. PICK q \in Seq(IntervalType) : q = unhandled[k]
        BY DEF ScanInv, QueuesTyped
      <4>2. PICK r : r = AddUnhandled(q, iv) /\ unhandled'[k] = r
        BY <3>2, <4>1
      <4>3. /\ Distinct(q) /\ Distinct(placed[k]) /\ Foreign(Range(q), CurIn(stack, k))
            /\ Foreign(Range(q), {iv}) /\ Foreign(Range(q), Range(placed[k]))
            /\ Foreign(CurIn(stack, k), {iv}) /\ Foreign(CurIn(stack, k), Range(placed[k]))
            /\ Foreign({iv}, Range(placed[k]))
        BY <3>2, <4>1 DEF Sole, SoleIn
      <4>4. Range(r) = Range(q) \cup {iv}
        BY <4>1, <4>2, QueuedAt
      <4>5. Distinct(r)
        BY <4>2, <4>3, DistinctQueue
      <4>6. Foreign(Range(r), CurIn(stack, k)) /\ Foreign(Range(r), Range(placed[k]))
        BY <4>3, <4>4, TwinTurns DEF Foreign
      <4>7. QED BY <1>1, <1>3, <2>1, <4>2, <4>3, <4>5, <4>6 DEF SoleIn
    <3>3. QED BY <2>1, <3>1, <3>2
  <2>4. \A j \in Tiers \cap {k, l} : SoleIn(j)'
    BY <2>2, <2>3
  <2>5. QED BY <1>1, <2>1, <2>4, SoleElsewhere
<1>6. QED BY <1>4, <1>5, ReturnDoes

LEMMA SoleGiveUp == ScanInv /\ Sole /\ GiveUp => Sole'
<1> SUFFICES ASSUME ScanInv, Sole, GiveUp PROVE Sole'
  OBVIOUS
<1>1. PICK k \in Tiers : k = Tier
  BY GiveUpDoes
<1>2. /\ unhandled' = unhandled /\ placed' = placed /\ prog' = prog /\ CurIn(stack', k) = {}
      /\ ReloadIn(stack', k) = ReloadIn(stack, k) /\ Elsewhere({k})
  BY <1>1, GiveUpDoes
<1>3. \A S : Foreign({}, S) /\ Foreign(S, {})
  BY DEF Foreign
<1>4. SoleIn(k)'
  BY <1>2, <1>3 DEF Sole, SoleIn
<1>5. QED BY <1>2, <1>4, PiecesGiveUp, SoleElsewhere

LEMMA SoleRest ==
  ScanInv /\ Sole
  /\ (StartTier \/ SpillOfNothing \/ Scanned \/ EmitChain \/ Finish \/ Execute \/ UNCHANGED vars) => Sole'
<1> SUFFICES ASSUME ScanInv, Sole, StartTier \/ SpillOfNothing \/ Scanned \/ EmitChain \/ Finish \/ Execute
                                      \/ UNCHANGED vars
             PROVE  Sole'
  OBVIOUS
<1>1. /\ prog' = prog /\ unhandled' = unhandled /\ placed' = placed /\ handled' = handled /\ taken' = taken
      /\ \A k : SameCalls(stack, stack', k)
      /\ KeepsPieces
  BY PiecesRest
<1>2. Elsewhere({})
  BY <1>1 DEF Elsewhere
<1>3. QED BY <1>1, <1>2, SoleElsewhere

(* An eviction gives what it makes memrefs of their own. *)
LEMMA SoleSpill == ScanInv /\ Sole /\ Spill => Sole'
<1> SUFFICES ASSUME ScanInv, Sole, Spill PROVE Sole'
  OBVIOUS
<1>1. prog' = prog /\ Tiers' = Tiers
  BY SpillMakes DEF Tiers
<1>2. PICK k \in Tiers, v \in Ids, i \in Nat, a \in IntervalType, c \in IntervalType, x \in IntervalType,
           next \in Int, uses \in SUBSET Nat, n \in Nat :
        /\ k = Tier /\ k \in Nat /\ k + 1 \in Tiers /\ k < Bottom
        /\ Makes(k, v, i, a, c, x, next, uses, n)
  BY SpillMakes
<1>3. PICK l \in Tiers : l = k + 1 /\ l # k
  BY <1>2
<1>4. /\ Spills(k, v, i, a, c, x, next, uses, n) /\ Cut(x, a, c.start) /\ a \in Pieces(k)
      /\ \A j \in Tiers : \A y \in Pieces(j) : y.mem \in 0 .. n
      /\ \A j \in Tiers : \A y \in Pieces(j)' :
           \/ y \in Pieces(j)
           \/ j = k /\ y = x
           \/ j = k /\ y.mem = n + 2
           \/ j = l /\ y.mem = n + 1
  BY <1>2, <1>3 DEF Makes
<1>5. \A y : (Twin(x, y) <=> Twin(a, y)) /\ (Twin(y, x) <=> Twin(y, a))
  BY <1>4 DEF Cut, Twin
<1>6. ASSUME NEW j \in Tiers, NEW y \in Pieces(j), NEW z, z.mem = n + 1 \/ z.mem = n + 2
      PROVE  ~ Twin(y, z) /\ ~ Twin(z, y)
  <2>1. y.mem \in 0 .. n
    BY <1>4
  <2>2. QED BY <1>6, <2>1 DEF Twin
<1>7. /\ DOMAIN placed'[k] = DOMAIN placed[k] /\ i \in DOMAIN placed[k] /\ a = placed[k][i] /\ placed'[k][i] = x
      /\ \A j \in DOMAIN placed[k] : j # i => placed'[k][j] = placed[k][j]
      /\ unhandled'[k] = unhandled[k] /\ placed'[l] = placed[l]
      /\ unhandled'[l] = AddUnhandled(unhandled[l], Part(a, c.start, next, {}, n + 1))
      /\ CurIn(stack, k) = {c} /\ CurIn(stack', k) = {c}
      /\ ReloadIn(stack', k) = IF Comes(a, next, uses) THEN {Part(a, next, a.end, uses, n + 2)} ELSE {}
      /\ CurIn(stack', l) = CurIn(stack, l) /\ ReloadIn(stack', l) = ReloadIn(stack, l)
      /\ Elsewhere({k, l})
  BY <1>3, <1>4 DEF Spills, SameCalls
<1>8. PICK p \in IntervalType : p = Part(a, c.start, next, {}, n + 1) /\ p.mem = n + 1
  BY PartTyped DEF IntervalType
<1>9. PICK w \in IntervalType : w = Part(a, next, a.end, uses, n + 2) /\ w.mem = n + 2
  BY PartTyped DEF IntervalType
<1>10. PICK d, e : d = placed[k] /\ e = placed'[k]
  OBVIOUS
<1>11. Distinct(e)
  <2>1. \A j \in DOMAIN d : e[j].mem = d[j].mem /\ e[j].id = d[j].id
    BY <1>4, <1>7, <1>10 DEF Cut
  <2>2. Distinct(d)
    BY <1>10 DEF Sole, SoleIn
  <2>3. QED BY <1>7, <1>10, <2>1, <2>2 DEF Distinct, Twin
<1>12. \A y \in Range(e) : y \in Range(d) \/ y = x
  BY <1>7, <1>10, InRange
<1>13. a \in Range(d)
  BY <1>7, <1>10, InRange
<1>14. SoleIn(k)'
  <2>1. /\ Distinct(unhandled[k]) /\ Foreign(Range(unhandled[k]), {c}) /\ Foreign(Range(unhandled[k]), Range(d))
        /\ Foreign({c}, Range(d))
    BY <1>7, <1>10 DEF Sole, SoleIn
  <2>2. Foreign(Range(unhandled[k]), Range(e)) /\ Foreign({c}, Range(e))
    BY <1>5, <1>12, <1>13, <2>1 DEF Foreign
  <2>3. \A y \in ReloadIn(stack', k) : y.mem = n + 2
    BY <1>7, <1>9
  <2>4. \A y \in Range(unhandled[k]) \cup {c} \cup Range(d) : y \in Pieces(k)
    BY <1>7, <1>10 DEF Pieces
  <2>5. Foreign(Range(unhandled[k]), ReloadIn(stack', k)) /\ Foreign({c}, ReloadIn(stack', k))
    BY <1>6, <2>3, <2>4 DEF Foreign
  <2>6. Foreign(ReloadIn(stack', k), Range(e))
    <3>1. SUFFICES ASSUME NEW y \in ReloadIn(stack', k), NEW z \in Range(e) PROVE ~ Twin(y, z)
      BY DEF Foreign
    <3>2. PICK u \in Range(d) : Twin(y, z) <=> Twin(y, u)
      BY <1>5, <1>12, <1>13
    <3>3. QED BY <1>6, <2>3, <2>4, <3>2
  <2>7. QED BY <1>7, <1>10, <1>11, <2>1, <2>2, <2>5, <2>6 DEF SoleIn
<1>15. SoleIn(l)'
  <2>1. PICK q \in Seq(IntervalType) : q = unhandled[l]
    BY DEF ScanInv, QueuesTyped
  <2>2. PICK r : r = AddUnhandled(q, p) /\ unhandled'[l] = r
    BY <1>7, <1>8, <2>1
  <2>3. /\ Distinct(q) /\ Distinct(placed[l]) /\ Foreign(Range(q), CurIn(stack, l))
        /\ Foreign(Range(q), ReloadIn(stack, l)) /\ Foreign(Range(q), Range(placed[l]))
        /\ Foreign(CurIn(stack, l), ReloadIn(stack, l)) /\ Foreign(CurIn(stack, l), Range(placed[l]))
        /\ Foreign(ReloadIn(stack, l), Range(placed[l]))
    BY <2>1 DEF Sole, SoleIn
  <2>4. \A y \in Range(q) \cup CurIn(stack, l) \cup ReloadIn(stack, l) \cup Range(placed[l]) : y \in Pieces(l)
    BY <2>1 DEF Pieces
  <2>5. Foreign(Range(q), {p})
    BY <1>6, <1>8, <2>4 DEF Foreign
  <2>6. Distinct(r)
    BY <2>2, <2>3, <2>5, DistinctQueue
  <2>7. Range(r) = Range(q) \cup {p}
    BY <2>2, QueuedAt
  <2>8. /\ Foreign(Range(r), CurIn(stack, l)) /\ Foreign(Range(r), ReloadIn(stack, l))
        /\ Foreign(Range(r), Range(placed[l]))
    BY <1>6, <1>8, <2>3, <2>4, <2>7 DEF Foreign
  <2>9. QED BY <1>7, <2>2, <2>3, <2>6, <2>8 DEF SoleIn
<1>16. ASSUME NEW j \in Tiers PROVE SoleIn(j)'
  <2>1. CASE j \notin {k, l}
    <3>1. /\ unhandled'[j] = unhandled[j] /\ placed'[j] = placed[j]
          /\ CurIn(stack', j) = CurIn(stack, j) /\ ReloadIn(stack', j) = ReloadIn(stack, j)
      BY <1>7, <2>1 DEF Elsewhere, SameCalls
    <3>2. SoleIn(j)
      BY DEF Sole
    <3>3. QED BY <3>1, <3>2 DEF SoleIn
  <2>2. QED BY <1>14, <1>15, <2>1
<1>17. ASSUME NEW j \in Tiers, NEW m \in Tiers, j # m PROVE Foreign(Pieces(j), Pieces(m))'
  <2>1. SUFFICES ASSUME NEW y \in Pieces(j)', NEW z \in Pieces(m)' PROVE ~ Twin(y, z)
    BY DEF Foreign
  <2>2. \A s \in Pieces(j), t \in Pieces(m) : ~ Twin(s, t)
    BY <1>17 DEF Sole, Foreign
  <2>3. \/ \E s \in Pieces(j) : \A u : (Twin(y, u) <=> Twin(s, u)) /\ (Twin(u, y) <=> Twin(u, s))
        \/ j = k /\ y.mem = n + 2
        \/ j = l /\ y.mem = n + 1
    BY <1>4, <1>5
  <2>4. \/ \E t \in Pieces(m) : \A u : (Twin(z, u) <=> Twin(t, u)) /\ (Twin(u, z) <=> Twin(u, t))
        \/ m = k /\ z.mem = n + 2
        \/ m = l /\ z.mem = n + 1
    BY <1>4, <1>5
  <2>5. CASE y.mem \in {n + 1, n + 2} /\ z.mem \in {n + 1, n + 2}
    <3>1. y.mem # z.mem
      <4>1. \A s \in Pieces(j), t \in Pieces(m) : s.mem \in 0 .. n /\ t.mem \in 0 .. n
        BY <1>4
      <4>2. x.mem = a.mem /\ a.mem \in 0 .. n
        BY <1>4 DEF Cut
      <4>3. (j = k /\ y.mem = n + 2) \/ (j = l /\ y.mem = n + 1)
        BY <1>4, <2>5, <4>1, <4>2
      <4>4. (m = k /\ z.mem = n + 2) \/ (m = l /\ z.mem = n + 1)
        BY <1>4, <2>5, <4>1, <4>2
      <4>5. n + 1 # n + 2
        OBVIOUS
      <4>6. QED BY <1>17, <4>3, <4>4, <4>5
    <3>2. QED BY <3>1 DEF Twin
  <2>6. CASE y.mem \notin {n + 1, n + 2} /\ z.mem \notin {n + 1, n + 2}
    BY <2>2, <2>3, <2>4, <2>6
  <2>7. CASE y.mem \in {n + 1, n + 2} /\ z.mem \notin {n + 1, n + 2}
    BY <1>6, <2>4, <2>7
  <2>8. CASE y.mem \notin {n + 1, n + 2} /\ z.mem \in {n + 1, n + 2}
    BY <1>6, <2>3, <2>8
  <2>9. QED BY <2>5, <2>6, <2>7, <2>8
<1>18. QED BY <1>1, <1>16, <1>17 DEF Sole

LEMMA SoleStep == ScanInv /\ GuardInv /\ Sole /\ [Next]_vars => Sole'
BY SoleTake, SolePlace, SoleReturn, SoleGiveUp, SoleRest, SoleSpill DEF Next

(* At first the intervals are in the queues, each in that of its tier.      *)
LEMMA QueuesApart ==
  ASSUME Init, NEW k \in Tiers, NEW i \in DOMAIN unhandled[k], NEW j \in DOMAIN unhandled[k],
         unhandled[k][i] = unhandled[k][j]
  PROVE  i = j
<1>1. PICK q : q = unhandled[k] /\ q \in Queues({iv \in Intervals(prog) : EntryTier(prog, iv) = k})
  <2>1. unhandled \in FirstQueues(prog)
    BY DEF Init
  <2>2. QED BY <2>1 DEF FirstQueues, Tiers
<1>2. \A m, n \in DOMAIN q : m < n => q[m] # q[n]
  BY <1>1 DEF Queues
<1>3. unhandled[k] \in Seq(IntervalType)
  BY FirstPieces
<1>4. i \in Nat /\ j \in Nat
  BY <1>3
<1>5. i < j \/ j < i \/ i = j
  BY <1>4
<1>6. QED BY <1>1, <1>2, <1>5

LEMMA TwinIntervals ==
  ASSUME prog \in Programs, NEW x \in Intervals(prog), NEW y \in Intervals(prog), Twin(x, y)
  PROVE  x = y
<1>1. \/ \E b \in Bufs(prog) :
           /\ x = BufInterval(prog, b) /\ x.id = IdOf(b) /\ x.id.buf = b /\ x.mem = b
           /\ x.home = HomeOf(prog, b)
           /\ x.start = DefTime(prog, b) /\ x.start \in Times(prog) /\ b # NoMem
      \/ \E b \in Bufs(prog), t \in Times(prog), k \in Nat :
           /\ x = Stage(prog, b, t, k) /\ x.id = [buf |-> b, stage |-> k, use |-> t]
           /\ x.start = t /\ x.mem = NoMem /\ x.uses = {}
  BY IntervalIs
<1>2. \/ \E b \in Bufs(prog) :
           /\ y = BufInterval(prog, b) /\ y.id = IdOf(b) /\ y.id.buf = b /\ y.mem = b
           /\ y.home = HomeOf(prog, b)
           /\ y.start = DefTime(prog, b) /\ y.start \in Times(prog) /\ b # NoMem
      \/ \E b \in Bufs(prog), t \in Times(prog), k \in Nat :
           /\ y = Stage(prog, b, t, k) /\ y.id = [buf |-> b, stage |-> k, use |-> t]
           /\ y.start = t /\ y.mem = NoMem /\ y.uses = {}
  BY IntervalIs
<1>3. CASE x.mem # NoMem
  BY <1>1, <1>2, <1>3 DEF Twin
<1>4. CASE x.mem = NoMem
  <2>1. PICK b \in Bufs(prog), t \in Times(prog), k \in Nat :
          x = Stage(prog, b, t, k) /\ x.id = [buf |-> b, stage |-> k, use |-> t]
    BY <1>1, <1>4
  <2>2. PICK c \in Bufs(prog), u \in Times(prog), l \in Nat :
          y = Stage(prog, c, u, l) /\ y.id = [buf |-> c, stage |-> l, use |-> u]
    BY <1>2, <1>4 DEF Twin
  <2>3. x.id = y.id
    BY <1>4 DEF Twin
  <2>4. b = c /\ t = u /\ k = l
    BY <2>1, <2>2, <2>3
  <2>5. QED BY <2>1, <2>2, <2>4
<1>5. QED BY <1>3, <1>4

LEMMA SoleInit == Init => Sole
<1> SUFFICES ASSUME Init PROVE Sole
  OBVIOUS
<1>1. prog \in Programs
  BY DEF Init
<1>2. ASSUME NEW k \in Tiers PROVE SoleIn(k)
  <2>1. /\ unhandled[k] \in Seq(IntervalType) /\ placed[k] = << >>
        /\ CurIn(stack, k) = {} /\ ReloadIn(stack, k) = {}
        /\ \A x \in Range(unhandled[k]) : x \in Intervals(prog)
    BY FirstPieces
  <2>2. Distinct(unhandled[k])
    <3>1. SUFFICES ASSUME NEW i \in DOMAIN unhandled[k], NEW j \in DOMAIN unhandled[k],
                          Twin(unhandled[k][i], unhandled[k][j])
                   PROVE  i = j
      BY DEF Distinct
    <3>2. unhandled[k][i] \in Intervals(prog) /\ unhandled[k][j] \in Intervals(prog)
      BY <2>1, InRange
    <3>3. QED BY <1>1, <3>1, <3>2, TwinIntervals, QueuesApart
  <2>3. Distinct(placed[k]) /\ Range(placed[k]) = {}
    BY <2>1 DEF Distinct, Range
  <2>4. \A S : Foreign({}, S) /\ Foreign(S, {})
    BY DEF Foreign
  <2>5. QED BY <2>1, <2>2, <2>3, <2>4 DEF SoleIn
<1>3. ASSUME NEW k \in Tiers, NEW l \in Tiers, k # l PROVE Foreign(Pieces(k), Pieces(l))
  <2>1. SUFFICES ASSUME NEW x \in Pieces(k), NEW y \in Pieces(l), Twin(x, y) PROVE FALSE
    BY DEF Foreign
  <2>2. x \in Intervals(prog) /\ y \in Intervals(prog) /\ EntryTier(prog, x) = k /\ EntryTier(prog, y) = l
    BY FirstPieces
  <2>3. x = y
    BY <1>1, <2>1, <2>2, TwinIntervals
  <2>4. QED BY <1>3, <2>2, <2>3
<1>4. QED BY <1>2, <1>3 DEF Sole

-----------------------------------------------------------------------------
(* What the intervals are called, and where they are.                       *)
LEMMA LabelledInit == Init => Labelled
<1> SUFFICES ASSUME Init PROVE Labelled
  OBVIOUS
<1>1. prog \in Programs /\ \A b \in Bufs(prog) : memrefs[b].buf = b
  BY DEF Init, Unplaced
<1>2. ASSUME NEW k \in Tiers, NEW y \in Pieces(k)
      PROVE  /\ (y.mem = NoMem <=> y.id.stage # -1)
             /\ (y.mem # NoMem => memrefs[y.mem].buf = y.id.buf /\ y.id = IdOf(y.id.buf))
  <2>1. y \in Intervals(prog)
    BY FirstPieces
  <2>2. \/ \E b \in Bufs(prog) : y.id = IdOf(b) /\ y.mem = b /\ b # NoMem
        \/ \E b \in Bufs(prog), t \in Times(prog), l \in Nat :
             y.id = [buf |-> b, stage |-> l, use |-> t] /\ y.mem = NoMem
    BY <1>1, <2>1, IntervalIs
  <2>3. CASE \E b \in Bufs(prog) : y.id = IdOf(b) /\ y.mem = b /\ b # NoMem
    BY <1>1, <2>3 DEF IdOf
  <2>4. CASE \E b \in Bufs(prog), t \in Times(prog), l \in Nat :
               y.id = [buf |-> b, stage |-> l, use |-> t] /\ y.mem = NoMem
    BY <2>4
  <2>5. QED BY <2>2, <2>3, <2>4
<1>3. QED BY <1>1, <1>2 DEF Labelled

LEMMA LabelledStep == ScanInv /\ GuardInv /\ Labelled /\ [Next]_vars => Labelled'
<1> SUFFICES ASSUME ScanInv, GuardInv, Labelled, [Next]_vars PROVE Labelled'
  OBVIOUS
<1>1. prog' = prog /\ Tiers' = Tiers /\ Bufs(prog') = Bufs(prog)
      /\ \A m \in 1 .. Len(memrefs) : memrefs'[m].buf = memrefs[m].buf
  BY BufsStay DEF Tiers
<1>2. \A b \in Bufs(prog) : memrefs'[b].buf = b
  <2>1. \A b \in Bufs(prog) : b \in 1 .. Len(memrefs)
    BY FunctionTyped DEF ScanInv, MemrefsTyped
  <2>2. QED BY <1>1, <2>1 DEF Labelled
<1>3. ASSUME NEW k \in Tiers, NEW y, NEW z \in Pieces(k), SamePiece(y, z)
      PROVE  /\ (y.mem = NoMem <=> y.id.stage # -1)
             /\ (y.mem # NoMem => memrefs'[y.mem].buf = y.id.buf /\ y.id = IdOf(y.id.buf))
  <2>1. z.mem \in Nat /\ z.mem \in 0 .. Len(memrefs)
    BY PiecesTyped DEF Sound, IntervalType
  <2>2. z.mem # NoMem => z.mem \in 1 .. Len(memrefs)
    BY <2>1 DEF NoMem
  <2>3. y.mem = z.mem /\ y.id = z.id
    BY <1>3 DEF SamePiece
  <2>4. /\ (z.mem = NoMem <=> z.id.stage # -1)
        /\ (z.mem # NoMem => memrefs[z.mem].buf = z.id.buf /\ z.id = IdOf(z.id.buf))
    BY DEF Labelled
  <2>5. QED BY <1>1, <2>2, <2>3, <2>4
<1>4. CASE ~ Spill
  <2>1. KeepsPieces
    BY <1>4, PiecesTake, PiecesPlace, PiecesReturn, PiecesGiveUp, PiecesRest DEF Next
  <2>2. ASSUME NEW k \in Tiers, NEW y \in Pieces(k)'
        PROVE  /\ (y.mem = NoMem <=> y.id.stage # -1)
               /\ (y.mem # NoMem => memrefs'[y.mem].buf = y.id.buf /\ y.id = IdOf(y.id.buf))
    <3>1. PICK z \in Pieces(k) : SamePiece(y, z)
      BY <2>1 DEF KeepsPieces
    <3>2. QED BY <1>3, <3>1
  <2>3. QED BY <1>1, <1>2, <2>2 DEF Labelled
<1>5. CASE Spill
  <2>1. PICK k \in Tiers, v \in Ids, i \in Nat, a \in IntervalType, c \in IntervalType, x \in IntervalType,
             next \in Int, uses \in SUBSET Nat, n \in Nat : Makes(k, v, i, a, c, x, next, uses, n)
    BY <1>5, SpillMakes
  <2>2. /\ a \in Pieces(k) /\ a.mem # NoMem /\ a.id = v /\ Cut(x, a, c.start)
        /\ memrefs'[n + 1] = Unplaced(v.buf)
        /\ Comes(a, next, uses) => memrefs'[n + 2] = Unplaced(v.buf)
    BY <2>1 DEF Makes, Spills
  <2>3. a.id.stage = -1 /\ a.id = IdOf(a.id.buf)
    BY <2>2 DEF Labelled
  <2>4. ASSUME NEW j \in Tiers, NEW y \in Pieces(j)'
        PROVE  /\ (y.mem = NoMem <=> y.id.stage # -1)
               /\ (y.mem # NoMem => memrefs'[y.mem].buf = y.id.buf /\ y.id = IdOf(y.id.buf))
    <3>1. \/ y \in Pieces(j)
          \/ y = x
          \/ Comes(a, next, uses) /\ y.id = a.id /\ y.mem = n + 2
          \/ y.id = a.id /\ y.mem = n + 1
      BY <2>1 DEF Makes
    <3>2. CASE y \in Pieces(j)
      <4>1. SamePiece(y, y)
        BY DEF SamePiece
      <4>2. QED BY <1>3, <3>2, <4>1
    <3>3. CASE y = x
      <4>1. a.mem \in Nat /\ a.mem \in 0 .. Len(memrefs)
        BY <2>2, PiecesTyped DEF Sound, IntervalType
      <4>2. a.mem \in 1 .. Len(memrefs) /\ memrefs[a.mem].buf = a.id.buf
        BY <2>2, <4>1 DEF NoMem, Labelled
      <4>3. x.mem = a.mem /\ x.id = a.id
        BY <2>2 DEF Cut
      <4>4. QED BY <1>1, <2>2, <2>3, <3>3, <4>2, <4>3
    <3>4. CASE Comes(a, next, uses) /\ y.id = a.id /\ y.mem = n + 2
      BY <2>2, <2>3, <3>4 DEF Unplaced, NoMem
    <3>5. CASE y.id = a.id /\ y.mem = n + 1
      BY <2>2, <2>3, <3>5 DEF Unplaced, NoMem
    <3>6. QED BY <3>1, <3>2, <3>3, <3>4, <3>5
  <2>5. QED BY <1>1, <1>2, <2>4 DEF Labelled
<1>6. QED BY <1>4, <1>5

LEMMA SeatedInit == Init => Seated
<1> SUFFICES ASSUME Init PROVE Seated
  OBVIOUS
<1>1. \A k \in Tiers : placed[k] = << >>
  BY FirstPieces
<1>2. \A k \in Tiers : Range(placed[k]) = {}
  BY <1>1 DEF Range
<1>3. QED BY <1>2 DEF Seated

LEMMA SeatedPlace == ScanInv /\ Sole /\ Labelled /\ Seated /\ Place => Seated'
<1> SUFFICES ASSUME ScanInv, Sole, Labelled, Seated, Place PROVE Seated'
  OBVIOUS
<1>1. prog' = prog /\ Tiers' = Tiers
  BY PlaceDoes DEF Tiers
<1>2. PICK k \in Tiers : k = Tier
  BY PlaceDoes
<1>3. PICK o \in Room : /\ placed' = [placed EXCEPT ![k] = Append(@, [Cur EXCEPT !.offset = o])]
                        /\ memMap' = [x \in DOMAIN memMap \cup {Cur.id} |-> IF x = Cur.id THEN o ELSE memMap[x]]
  BY <1>2 DEF Place
<1>4. stack # << >> /\ Cur \in IntervalType /\ CurIn(stack, k) = {Cur} /\ Cur # NoInterval
  <2>1. PICK d, e \in Seq(IntervalType), x, c \in IntervalType, p \in Nat : Places(k, d, e, x, c, p)
    BY <1>2, PlaceDoes
  <2>2. x = Cur /\ CurIn(stack, k) = {x}
    BY <2>1 DEF Places
  <2>3. QED BY <2>2, PlaceDoes
<1>5. PICK d \in Seq(IntervalType) : d = placed[k]
  BY DEF ScanInv, QueuesTyped
<1>6. PICK c \in IntervalType : c = [Cur EXCEPT !.offset = o]
  BY <1>4, RoomIsTyped
<1>7. c.offset = o /\ c.id = Cur.id /\ c.mem = Cur.mem /\ c.size = Cur.size
  BY <1>4, <1>6 DEF IntervalType
<1>8. placed'[k] = Append(d, c) /\ \A j \in Tiers : j # k => placed'[j] = placed[j]
  <2>1. placed \in [Tiers -> Seq(IntervalType)]
    BY DEF ScanInv, QueuesTyped
  <2>2. QED BY <1>3, <1>5, <1>6, <2>1
<1>9. Range(Append(d, c)) = Range(d) \cup {c}
  BY Appended
<1>10. 0 <= o /\ o + Cur.size <= prog.caps[k] /\ o \in Int
  <2>1. o \in 0 .. prog.caps[k] - Cur.size
    BY <1>2 DEF Room, Offsets
  <2>2. prog.caps[k] \in Nat
    BY CapsTyped DEF ScanInv
  <2>3. Cur.size \in Nat
    BY <1>4 DEF IntervalType
  <2>4. QED BY <2>1, <2>2, <2>3
<1>11. Cur \in Pieces(k)
  BY <1>4 DEF Pieces
<1>12. ASSUME NEW j \in Tiers, NEW y \in Range(placed'[j])
       PROVE  /\ 0 <= y.offset /\ y.offset + y.size <= prog.caps[j]
              /\ y.mem = NoMem => y.id \in DOMAIN memMap' /\ memMap'[y.id] = y.offset
  <2>1. (j = k /\ y = c) \/ y \in Range(placed[j])
    <3>1. CASE j = k
      <4>1. y \in Range(d) \cup {c}
        BY <1>8, <1>9, <1>12, <3>1
      <4>2. QED BY <1>5, <3>1, <4>1
    <3>2. CASE j # k
      BY <1>8, <1>12, <3>2
    <3>3. QED BY <3>1, <3>2
  <2>2. CASE j = k /\ y = c
    BY <1>3, <1>7, <1>10, <2>2
  <2>3. CASE y \in Range(placed[j])
    <3>1. /\ 0 <= y.offset /\ y.offset + y.size <= prog.caps[j]
          /\ y.mem = NoMem => y.id \in DOMAIN memMap /\ memMap[y.id] = y.offset
      BY <2>3 DEF Seated
    <3>2. y.mem = NoMem => y.id # Cur.id
      <4>1. SUFFICES ASSUME y.mem = NoMem, y.id = Cur.id PROVE FALSE
        OBVIOUS
      <4>2. y \in Pieces(j)
        BY <2>3 DEF Pieces
      <4>3. Cur.mem = NoMem
        BY <1>11, <4>1, <4>2 DEF Labelled
      <4>4. Twin(Cur, y)
        BY <4>1, <4>3 DEF Twin
      <4>5. CASE j = k
        <5>1. Foreign({Cur}, Range(placed[k]))
          BY <1>4 DEF Sole, SoleIn
        <5>2. QED BY <2>3, <4>4, <4>5, <5>1 DEF Foreign
      <4>6. CASE j # k
        <5>1. Foreign(Pieces(k), Pieces(j))
          BY <4>6 DEF Sole
        <5>2. QED BY <1>11, <4>2, <4>4, <5>1 DEF Foreign
      <4>7. QED BY <4>5, <4>6
    <3>3. QED BY <1>3, <3>1, <3>2
  <2>4. QED BY <2>1, <2>2, <2>3
<1>13. QED BY <1>1, <1>12 DEF Seated

LEMMA SeatedSpill == ScanInv /\ Seated /\ Spill => Seated'
<1> SUFFICES ASSUME ScanInv, Seated, Spill PROVE Seated'
  OBVIOUS
<1>1. prog' = prog /\ Tiers' = Tiers
  BY SpillMakes DEF Tiers
<1>2. memMap' = memMap
  BY DEF Spill
<1>3. PICK k \in Tiers, v \in Ids, i \in Nat, a \in IntervalType, c \in IntervalType, x \in IntervalType,
           next \in Int, uses \in SUBSET Nat, n \in Nat : Makes(k, v, i, a, c, x, next, uses, n)
  BY SpillMakes
<1>4. /\ DOMAIN placed'[k] = DOMAIN placed[k] /\ i \in DOMAIN placed[k] /\ a = placed[k][i] /\ placed'[k][i] = x
      /\ \A j \in DOMAIN placed[k] : j # i => placed'[k][j] = placed[k][j]
      /\ placed'[k + 1] = placed[k + 1] /\ Elsewhere({k, k + 1}) /\ Cut(x, a, c.start)
  BY <1>3 DEF Makes, Spills
<1>5. a \in Range(placed[k])
  BY <1>4, InRange
<1>6. ASSUME NEW j \in Tiers, NEW y \in Range(placed'[j])
      PROVE  /\ 0 <= y.offset /\ y.offset + y.size <= prog.caps[j]
             /\ y.mem = NoMem => y.id \in DOMAIN memMap /\ memMap[y.id] = y.offset
  <2>1. y \in Range(placed[j]) \/ (j = k /\ y = x)
    <3>1. CASE j = k
      BY <1>4, <1>6, <3>1, InRange
    <3>2. CASE j # k
      BY <1>4, <1>6, <3>2 DEF Elsewhere
    <3>3. QED BY <3>1, <3>2
  <2>2. CASE j = k /\ y = x
    BY <1>4, <1>5, <2>2 DEF Cut, Seated
  <2>3. CASE y \in Range(placed[j])
    BY <2>3 DEF Seated
  <2>4. QED BY <2>1, <2>2, <2>3
<1>7. QED BY <1>1, <1>2, <1>6 DEF Seated

LEMMA SeatedStep == ScanInv /\ Sole /\ Labelled /\ Seated /\ [Next]_vars => Seated'
<1> SUFFICES ASSUME ScanInv, Sole, Labelled, Seated, [Next]_vars, ~ Place, ~ Spill PROVE Seated'
  BY SeatedPlace, SeatedSpill
<1>1. placed' = placed /\ memMap' = memMap /\ prog' = prog
  BY DEF Next, StartTier, Take, SpillOfNothing, GiveUp, Return, Scanned, EmitChain, Finish, Execute, vars,
         tiersState, outState
<1>2. QED BY <1>1 DEF Seated, Tiers

LEMMA DrainedInit == Init => Drained
BY TargetTyped DEF Init, Drained

(* What a step of one tier and the next does to the tier in progress. *)
LEMMA TierStays ==
  ASSUME ScanInv, stack # << >>, NEW f \in FrameType, f.tier = Tier, stack' = SetTop(f)
  PROVE  stack' # << >> /\ Tier' = Tier
<1>1. Len(stack') = Len(stack) /\ stack'[Len(stack)] = f /\ stack' # << >>
  BY TopBecomes
<1>2. Tier' = stack'[Len(stack')].tier
  BY DEF Tier, Top
<1>3. QED BY <1>1, <1>2

LEMMA TierNow ==
  ASSUME ScanInv', stack' # << >>
  PROVE  Tier' = stack'[1].tier + (Len(stack') - 1)
<1>1. stack' \in Seq(FrameType)' /\ \A i \in DOMAIN stack' : stack'[i].tier = stack'[1].tier + (i - 1)
  BY DEF ScanInv, StackTyped
<1>2. Tier' = stack'[Len(stack')].tier
  BY DEF Tier, Top
<1>3. Len(stack') \in DOMAIN stack'
  <2>1. PICK s \in Seq(FrameType) : s = stack' /\ s # << >>
    BY <1>1 DEF FrameType
  <2>2. Len(s) \in Nat /\ Len(s) # 0 /\ DOMAIN s = 1 .. Len(s)
    BY <2>1, EmptySeq, LenProperties
  <2>3. QED BY <2>1, <2>2
<1>4. QED BY <1>1, <1>2, <1>3

LEMMA DrainedStep == ScanInv /\ GuardInv /\ Course /\ ScanInv' /\ Drained /\ [Next]_vars => Drained'
<1> SUFFICES ASSUME ScanInv, GuardInv, Course, ScanInv', Drained, [Next]_vars PROVE Drained'
  OBVIOUS
<1>1. prog' = prog /\ Tiers' = Tiers /\ Tiers \subseteq Nat
  BY BufsStay, TargetTyped DEF Tiers, ScanInv
<1>2. stack # << >> => \A k \in Tiers : k > Tier => unhandled[k] = << >>
  BY DEF Drained
<1>3. CASE Take
  <2>1. stack # << >> /\ Tier \in Tiers
    BY <1>3, TakeDoes
  <2>2. stack' # << >> /\ Tier' = Tier
    <3>1. CASE stack' = stack
      BY <2>1, <3>1 DEF Tier, Top
    <3>2. ASSUME NEW f, stack' = SetTop(f), f = [Top EXCEPT !.cur = Head(unhandled[Tier]), !.excluded = {}]
          PROVE  stack' # << >> /\ Tier' = Tier
      <4>1. Top \in FrameType
        BY <2>1, TopTyped
      <4>2. Head(unhandled[Tier]) \in IntervalType
        BY <1>3, <2>1, TopTyped, TailElements DEF Take
      <4>3. f \in FrameType /\ f.tier = Tier
        BY <3>2, <4>1, <4>2 DEF FrameType, Tier
      <4>4. QED BY <2>1, <3>2, <4>3, TierStays
    <3>3. QED BY <1>3, <3>1, <3>2 DEF Take
  <2>3. PICK q, r \in Seq(IntervalType), iv \in IntervalType : Takes(Tier, q, r, iv)
    BY <1>3, TakeDoes
  <2>4. \A k \in Tiers : k > Tier => unhandled'[k] = unhandled[k]
    BY <1>1, <2>1, <2>3 DEF Takes, Elsewhere
  <2>5. QED BY <1>1, <1>2, <2>1, <2>2, <2>4 DEF Drained
<1>4. CASE Place \/ GiveUp
  <2>1. stack # << >> /\ unhandled' = unhandled
    BY <1>4, PlaceDoes, GiveUpDoes
  <2>2. PICK f : stack' = SetTop(f) /\ (f = [Top EXCEPT !.cur = NoInterval]
                                        \/ f = [Top EXCEPT !.cur = NoInterval, !.ok = FALSE])
    BY <1>4 DEF Place, GiveUp
  <2>3. f \in FrameType /\ f.tier = Tier
    <3>1. Top \in FrameType
      BY <2>1, TopTyped
    <3>2. QED BY <2>2, <3>1 DEF FrameType, Tier
  <2>4. stack' # << >> /\ Tier' = Tier
    BY <2>1, <2>2, <2>3, TierStays
  <2>5. QED BY <1>1, <1>2, <2>1, <2>4 DEF Drained
<1>5. CASE Spill
  <2>1. stack # << >> /\ Tier \in Nat /\ stack'[1].tier = stack[1].tier /\ stack' # << >>
    BY <1>5, SpillDoes DEF SameTop
  <2>2. Len(stack') = Len(stack) + 1
    <3>1. PICK f : stack' = Append(SetTop(f), Frame(Tier + 1))
      BY <1>5 DEF Spill
    <3>2. Len(SetTop(f)) = Len(stack) /\ SetTop(f) \in Seq(FrameType \cup {f})
      <4>1. stack \in Seq(FrameType \cup {f}) /\ Len(stack) \in DOMAIN stack
        <5>1. stack \in Seq(FrameType) /\ Len(stack) \in DOMAIN stack
          BY <2>1, TiersApart
        <5>2. QED BY <5>1, SeqMonotonic
      <4>2. QED BY <4>1, Updated DEF SetTop
    <3>3. QED BY <3>1, <3>2
  <2>3. Tier' = Tier + 1
    <3>1. Tier' = stack'[1].tier + (Len(stack') - 1)
      BY <2>1, TierNow
    <3>2. Tier = stack[1].tier + (Len(stack) - 1) /\ Len(stack) \in Nat /\ stack[1].tier \in Nat
      BY <2>1, TiersApart
    <3>3. QED BY <2>1, <2>2, <3>1, <3>2
  <2>4. PICK v \in Ids, i \in Nat, a \in IntervalType, c \in IntervalType, x \in IntervalType, next \in Int,
             uses \in SUBSET Nat, n \in Nat : Spills(Tier, v, i, a, c, x, next, uses, n)
    BY <1>5, SpillDoes
  <2>5. \A k \in Tiers : k > Tier + 1 => unhandled'[k] = unhandled[k]
    BY <1>1, <2>1, <2>4 DEF Spills, Elsewhere
  <2>6. QED BY <1>1, <1>2, <2>1, <2>3, <2>5 DEF Drained
<1>6. CASE Return
  <2>1. /\ stack # << >> /\ Tier \in Tiers /\ Tier \in Nat /\ unhandled[Tier] = << >> /\ level' = level
        /\ ReturnsToNone \/ \E k \in Tiers : k \in Nat /\ ReturnsTo(k)
    BY <1>6, ReturnDoes
  <2>2. CASE ReturnsToNone
    <3>1. stack' = << >> /\ unhandled' = unhandled /\ Tier = level + 1
      BY <2>1, <2>2 DEF ReturnsToNone, Course
    <3>2. ASSUME NEW k \in Tiers, k > level PROVE unhandled[k] = << >>
      <4>1. k = Tier \/ k > Tier
        BY <1>1, <2>1, <3>1, <3>2, TargetTyped DEF ScanInv
      <4>2. QED BY <1>2, <2>1, <4>1
    <3>3. QED BY <1>1, <2>1, <3>1, <3>2 DEF Drained
  <2>3. ASSUME NEW l \in Tiers, l \in Nat, ReturnsTo(l) PROVE Drained'
    <3>1. /\ Tier = l + 1 /\ stack' # << >> /\ stack'[1].tier = stack[1].tier
          /\ unhandled'[Tier] = unhandled[Tier] /\ Elsewhere({l, Tier})
      BY <2>3 DEF ReturnsTo, SameTop
    <3>2. Len(stack') = Len(stack) - 1
      <4>1. Len(stack) # 1
        <5>1. Len(stack) = 1 => stack' = << >>
          BY <1>6 DEF Return
        <5>2. QED BY <3>1, <5>1
      <4>2. stack' = Append(SubSeq(stack, 1, Len(stack) - 2), [stack[Len(stack) - 1] EXCEPT !.reload = NoInterval])
        BY <1>6, <4>1 DEF Return
      <4>3. QED BY <2>1, <4>1, <4>2, TopReturns
    <3>3. Tier' = l
      <4>1. Tier' = stack'[1].tier + (Len(stack') - 1)
        BY <3>1, TierNow
      <4>2. Tier = stack[1].tier + (Len(stack) - 1) /\ Len(stack) \in Nat /\ stack[1].tier \in Nat
        BY <2>1, TiersApart
      <4>3. QED BY <2>3, <3>1, <3>2, <4>1, <4>2
    <3>4. ASSUME NEW k \in Tiers, k > l PROVE unhandled'[k] = << >>
      <4>1. CASE k = Tier
        BY <2>1, <3>1, <4>1
      <4>2. CASE k # Tier
        <5>1. k > Tier /\ k \notin {l, Tier}
          BY <1>1, <2>1, <2>3, <3>1, <3>4, <4>2
        <5>2. QED BY <1>2, <2>1, <3>1, <5>1 DEF Elsewhere
      <4>3. QED BY <4>1, <4>2
    <3>5. QED BY <1>1, <3>1, <3>3, <3>4 DEF Drained
  <2>4. QED BY <2>1, <2>2, <2>3
<1>7. CASE StartTier
  <2>1. stack = << >> /\ stack' # << >> /\ unhandled' = unhandled /\ stack' = <<Frame(level)>>
    BY <1>7, StartTierDoes DEF StartTier
  <2>2. Tier' = level
    BY <2>1 DEF Tier, Top, Frame
  <2>3. QED BY <1>1, <2>1, <2>2 DEF Drained
<1>8. CASE SpillOfNothing \/ Scanned \/ EmitChain \/ Finish \/ Execute \/ UNCHANGED vars
  <2>1. stack' = stack /\ level' = level /\ unhandled' = unhandled
    BY <1>8 DEF SpillOfNothing, Scanned, EmitChain, Finish, Execute, vars, tiersState
  <2>2. Tier' = Tier
    BY <2>1 DEF Tier, Top
  <2>3. QED BY <1>1, <2>1, <2>2 DEF Drained
<1>9. QED BY <1>3, <1>4, <1>5, <1>6, <1>7, <1>8 DEF Next
=============================================================================
