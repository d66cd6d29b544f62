----------------------------- MODULE FramingProofs -----------------------------
(***************************************************************************)
(* Proofs about the frames the gateway cuts out of its byte streams and    *)
(* the alarms it makes of them: for every set of frames that are made as   *)
(* their senders make them, every buffer size, every stream and every way  *)
(* to cut it into reads.                                                   *)
(*                                                                         *)
(* Check and Messages are recursive functions; that each ends, and what it *)
(* comes to, is proved by induction on how deep the recursion goes.        *)
(***************************************************************************)
EXTENDS Alarms, FiniteSetTheorems, NaturalsInduction, WellFoundedInduction, TLAPS

--------------------------------------------------------------------------------
(* Loops, and sequences of sequences.                                        *)
\* A set of numbers has a least one.
LEMMA LeastOf ==
    ASSUME NEW S \in SUBSET Nat, S # {}
    PROVE  \E m \in S : \A n \in S : m <= n
<1>1. PICK m \in S : \A n \in S : ~(<<n, m>> \in OpToRel(<, Nat))
  BY NatLessThanWellFounded, WFMin
<1>2. \A n \in S : ~(n < m)
  BY <1>1 DEF OpToRel
<1> QED BY <1>2

\* Induction up to n.
LEMMA UpTo ==
    ASSUME NEW n \in Nat, NEW T \in SUBSET (0 .. n), 0 \in T,
           \A k \in 1 .. n : k - 1 \in T => k \in T
    PROVE  T = 0 .. n
<1>1. SUFFICES ASSUME (0 .. n) \ T # {} PROVE FALSE
  OBVIOUS
<1>2. PICK m \in (0 .. n) \ T : \A k \in (0 .. n) \ T : m <= k
  <2>1. (0 .. n) \ T \in SUBSET Nat
    OBVIOUS
  <2> QED BY <1>1, <2>1, LeastOf
<1>3. m \in 1 .. n /\ m - 1 \in 0 .. n
  BY <1>2
<1>4. m - 1 \in T
  BY <1>2, <1>3
<1> QED BY <1>2, <1>3, <1>4

\* A loop of n rounds has a run.
IsRun(f, S, base, n, step) ==
    /\ f \in [0 .. n -> S]
    /\ f[0] = base
    /\ \A k \in 1 .. n : f[k] = step[k][f[k - 1]]
LEMMA LoopRuns ==
    ASSUME NEW S, NEW base \in S, NEW n \in Nat,
           NEW step \in [1 .. n -> [S -> S]]
    PROVE  \E f : IsRun(f, S, base, n, step)
<1> DEFINE Runs(k) == \E f \in [0 .. k -> S] :
               f[0] = base /\ \A i \in 1 .. k : f[i] = step[i][f[i - 1]]
           T == {k \in 0 .. n : Runs(k)}
<1>1. 0 \in T
  <2> DEFINE g == [i \in 0 .. 0 |-> base]
  <2>1. g \in [0 .. 0 -> S] /\ g[0] = base
    OBVIOUS
  <2>2. \A i \in 1 .. 0 : FALSE
    OBVIOUS
  <2> HIDE DEF g
  <2>3. Runs(0)
    BY <2>1, <2>2
  <2> HIDE DEF Runs
  <2> QED BY <2>3
<1>2. ASSUME NEW k \in 1 .. n, k - 1 \in T
      PROVE  k \in T
  <2>1. PICK f \in [0 .. k - 1 -> S] :
            f[0] = base /\ \A i \in 1 .. k - 1 : f[i] = step[i][f[i - 1]]
    BY <1>2
  <2> DEFINE g == [i \in 0 .. k |-> IF i = k THEN step[k][f[k - 1]] ELSE f[i]]
  <2>2. k - 1 \in 0 .. k - 1 /\ f[k - 1] \in S
    BY <2>1
  <2>3. step[k] \in [S -> S]
    OBVIOUS
  <2>4. step[k][f[k - 1]] \in S
    BY <2>2, <2>3
  <2>5. \A i \in 0 .. k : i # k => i \in 0 .. k - 1
    OBVIOUS
  <2>6. g \in [0 .. k -> S]
    BY <2>1, <2>4, <2>5
  <2>7. g[0] = base
    BY <2>1
  <2>8. ASSUME NEW i \in 1 .. k
        PROVE  g[i] = step[i][g[i - 1]]
    <3>1. g[i - 1] = f[i - 1]
      BY <2>8
    <3>2. CASE i = k
      BY <3>1, <3>2
    <3>3. CASE i # k
      <4>1. i \in 1 .. k - 1 /\ g[i] = f[i]
        BY <3>3
      <4> QED BY <2>1, <3>1, <4>1
    <3> QED BY <3>2, <3>3
  <2> HIDE DEF g
  <2>9. Runs(k)
    BY <2>6, <2>7, <2>8
  <2> HIDE DEF Runs
  <2> QED BY <2>9
<1>3. T = 0 .. n
  <2> HIDE DEF T
  <2>1. T \in SUBSET (0 .. n)
    BY DEF T
  <2> QED BY <1>1, <1>2, <2>1, UpTo
<1>4. n \in T
  BY <1>3
<1>5. Runs(n)
  BY <1>4
<1> QED BY <1>5 DEF IsRun

\* g concatenates the first items of ss, one at a time.
Concats(g, S, n, ss) ==
    /\ g \in [0 .. n -> Seq(S)]
    /\ g[0] = << >>
    /\ \A k \in 1 .. n : g[k] = g[k - 1] \o ss[k]
LEMMA ConcatRuns ==
    ASSUME NEW S, NEW n \in Nat, NEW ss \in [1 .. n -> Seq(S)]
    PROVE  \E g : Concats(g, S, n, ss)
<1> DEFINE U == Seq(S)
           step == [k \in 1 .. n |-> [x \in U |-> x \o ss[k]]]
<1>1. step \in [1 .. n -> [U -> U]] /\ << >> \in U
  OBVIOUS
<1>2. PICK g : IsRun(g, U, << >>, n, step)
  <2> HIDE DEF step, U
  <2> QED BY <1>1, LoopRuns
<1>3. g \in [0 .. n -> U] /\ g[0] = << >>
  BY <1>2 DEF IsRun
<1>4. \A k \in 1 .. n : g[k] = g[k - 1] \o ss[k]
  <2> TAKE k \in 1 .. n
  <2>1. g[k] = step[k][g[k - 1]]
    BY <1>2 DEF IsRun
  <2>2. g[k - 1] \in U
    BY <1>3
  <2> QED BY <2>1, <2>2
<1> QED BY <1>3, <1>4 DEF Concats

\* FlattenSeq concatenates its argument's items from the left ...
LEMMA FlattenSteps ==
    ASSUME NEW S, NEW ss \in Seq(Seq(S)), ss # << >>
    PROVE  \E f \in [1 .. Len(ss) -> Seq(S)] :
               /\ FlattenSeq(ss) = f[Len(ss)]
               /\ f[1] = ss[1]
               /\ \A k \in 2 .. Len(ss) : f[k] = f[k - 1] \o ss[k]
<1> DEFINE n == Len(ss)
           U == Seq(S)
           Is(f) == f = [k \in 1 .. n |->
                         IF k = 1 THEN ss[k] ELSE f[k - 1] \o ss[k]]
<1>1. n \in Nat \ {0} /\ \A k \in 1 .. n : ss[k] \in U
  <2> HIDE DEF U
  <2>1. ss \in Seq(U)
    BY DEF U
  <2> QED BY <2>1
<1>2. \A x, y \in U : x \o y \in U
  OBVIOUS
<1>3. << >> \in U /\ \A x \in U : << >> \o x = x
  OBVIOUS
<1> HIDE DEF n, U
<1>4. ss \in [1 .. n -> U]
  <2>1. ss \in Seq(U) /\ Len(ss) = n
    BY DEF U, n
  <2> QED BY <2>1
<1>5. PICK g \in [0 .. n -> U] :
          g[0] = << >> /\ \A k \in 1 .. n : g[k] = g[k - 1] \o ss[k]
  <2>1. n \in Nat /\ ss \in [1 .. n -> Seq(S)]
    BY <1>1, <1>4 DEF U
  <2>2. PICK g : Concats(g, S, n, ss)
    BY <2>1, ConcatRuns
  <2> QED BY <2>2 DEF Concats, U
<1>6. \A k \in 1 .. n : k - 1 \in 0 .. n /\ k \in 0 .. n
  BY <1>1
<1>8. \E f : Is(f)
  <2> DEFINE f == [k \in 1 .. n |-> g[k]]
  <2>1. ASSUME NEW k \in 1 .. n
        PROVE  f[k] = IF k = 1 THEN ss[k] ELSE f[k - 1] \o ss[k]
    <3>1. CASE k = 1
      <4>1. g[1] = << >> \o ss[1] /\ ss[1] \in U
        <5>1. 1 \in 1 .. n /\ 1 - 1 = 0
          BY <1>1
        <5>2. g[1] = g[1 - 1] \o ss[1]
          BY <1>5, <5>1
        <5> QED BY <1>1, <1>5, <5>1, <5>2
      <4> QED BY <1>3, <3>1, <4>1
    <3>2. CASE k # 1
      <4>1. k - 1 \in 1 .. n
        BY <1>1, <3>2
      <4> QED BY <1>5, <3>2, <4>1
    <3> QED BY <3>1, <3>2
  <2>2. f = [k \in 1 .. n |-> f[k]]
    OBVIOUS
  <2> HIDE DEF f
  <2>3. f = [k \in 1 .. n |-> IF k = 1 THEN ss[k] ELSE f[k - 1] \o ss[k]]
    BY <2>1, <2>2, Zenon
  <2>4. Is(f)
    BY <2>3, Zenon
  <2> QED BY <2>4
<1> DEFINE h == CHOOSE f : Is(f)
<1>9. Is(h)
  BY <1>8, Zenon
<1>10. FlattenSeq(ss) = h[n]
  <2>1. Len(ss) # 0
    BY <1>1 DEF n
  <2> QED BY <2>1 DEF FlattenSeq, n
<1> HIDE DEF h
<1>11. \A k \in 1 .. n : h[k] = IF k = 1 THEN ss[k] ELSE h[k - 1] \o ss[k]
  BY <1>9
<1>12. h[1] = ss[1] /\ \A k \in 2 .. n : h[k] = h[k - 1] \o ss[k]
  <2>1. 1 \in 1 .. n /\ \A k \in 2 .. n : k \in 1 .. n /\ k # 1
    BY <1>1
  <2> QED BY <1>11, <2>1
<1>13. \A k \in 1 .. n : h[k] \in U
  <2> DEFINE T == {k \in 0 .. n : k = 0 \/ h[k] \in U}
  <2>1. 0 \in T
    BY <1>1
  <2>2. ASSUME NEW k \in 1 .. n, k - 1 \in T
        PROVE  k \in T
    <3>1. CASE k = 1
      BY <1>1, <1>6, <1>12, <3>1
    <3>2. CASE k # 1
      <4>1. k \in 2 .. n /\ h[k - 1] \in U /\ ss[k] \in U
        BY <1>1, <2>2, <3>2
      <4>2. h[k] \in U
        BY <1>2, <1>12, <4>1
      <4> QED BY <1>6, <4>2
    <3> QED BY <3>1, <3>2
  <2>3. T = 0 .. n
    <3> HIDE DEF T
    <3>1. T \in SUBSET (0 .. n)
      BY DEF T
    <3> QED BY <1>1, <2>1, <2>2, <3>1, UpTo
  <2>4. \A k \in 1 .. n : k \in T
    BY <1>6, <2>3
  <2> QED BY <1>1, <2>4
<1>14. h \in [1 .. n -> U]
  <2>1. h = [k \in 1 .. n |-> h[k]]
    BY <1>9
  <2> QED BY <1>13, <2>1
<1> QED BY <1>10, <1>12, <1>14 DEF n, U

\* ... to a sequence of what they hold,
LEMMA FlattenSound ==
    ASSUME NEW S, NEW ss \in Seq(Seq(S))
    PROVE  FlattenSeq(ss) \in Seq(S)
<1>1. CASE ss = << >>
  BY <1>1 DEF FlattenSeq
<1>2. CASE ss # << >>
  <2>1. PICK f \in [1 .. Len(ss) -> Seq(S)] : FlattenSeq(ss) = f[Len(ss)]
    BY <1>2, FlattenSteps
  <2>2. Len(ss) \in 1 .. Len(ss)
    <3> DEFINE U == Seq(S)
    <3>1. ss \in Seq(U)
      OBVIOUS
    <3> HIDE DEF U
    <3> QED BY <1>2, <3>1
  <2> QED BY <2>1, <2>2
<1> QED BY <1>1, <1>2

\* ... and one item more at its end comes at the end of the whole.
LEMMA FlattenAppend ==
    ASSUME NEW S, NEW ss \in Seq(Seq(S)), NEW x \in Seq(S)
    PROVE  FlattenSeq(Append(ss, x)) = FlattenSeq(ss) \o x
<1> DEFINE U == Seq(S)
           tt == Append(ss, x)
           n == Len(ss)
<1>1. ss \in Seq(U) /\ x \in U
  OBVIOUS
<1>2. tt \in Seq(Seq(S)) /\ tt # << >> /\ Len(tt) = n + 1 /\ tt[n + 1] = x /\ n \in Nat
      /\ \A k \in 1 .. n : tt[k] = ss[k]
  <2> HIDE DEF U
  <2>1. tt \in Seq(U) /\ tt # << >> /\ Len(tt) = n + 1 /\ tt[n + 1] = x /\ n \in Nat
        /\ \A k \in 1 .. n : tt[k] = ss[k]
    BY <1>1
  <2> QED BY <2>1 DEF U
<1>6. n \in Nat /\ \A k \in 1 .. n : tt[k] = ss[k]
  BY <1>2
<1> HIDE DEF tt, n
<1>3. PICK g \in [1 .. n + 1 -> Seq(S)] :
          /\ FlattenSeq(tt) = g[n + 1]
          /\ g[1] = tt[1]
          /\ \A k \in 2 .. n + 1 : g[k] = g[k - 1] \o tt[k]
  <2> HIDE DEF U
  <2>1. \E g \in [1 .. Len(tt) -> Seq(S)] :
            /\ FlattenSeq(tt) = g[Len(tt)]
            /\ g[1] = tt[1]
            /\ \A k \in 2 .. Len(tt) : g[k] = g[k - 1] \o tt[k]
    <3>1. tt \in Seq(Seq(S)) /\ tt # << >>
      BY <1>2
    <3> QED BY <3>1, FlattenSteps
  <2> QED BY <1>2, <2>1
<1>4. CASE ss = << >>
  <2>1. n = 0
    BY <1>4 DEF n
  <2>2. FlattenSeq(tt) = x
    BY <1>2, <1>3, <2>1
  <2>3. FlattenSeq(ss) = << >>
    BY <1>4 DEF FlattenSeq
  <2> QED BY <2>2, <2>3 DEF tt
<1>5. CASE ss # << >>
  <2>1. PICK f \in [1 .. n -> Seq(S)] :
            /\ FlattenSeq(ss) = f[n]
            /\ f[1] = ss[1]
            /\ \A k \in 2 .. n : f[k] = f[k - 1] \o ss[k]
    BY <1>5, FlattenSteps DEF n
  <2>2. n >= 1
    <3> HIDE DEF U
    <3> QED BY <1>1, <1>5 DEF n
  <2> DEFINE T == {k \in 0 .. n : k = 0 \/ g[k] = f[k]}
  <2>3. 0 \in T
    BY <1>2
  <2>4. ASSUME NEW k \in 1 .. n, k - 1 \in T
        PROVE  k \in T
    <3>1. CASE k = 1
      BY <1>2, <1>3, <2>1, <2>2, <3>1
    <3>2. CASE k # 1
      <4>1. k \in 2 .. n /\ k \in 2 .. n + 1 /\ k \in 1 .. n /\ g[k - 1] = f[k - 1]
        BY <1>2, <2>4, <3>2
      <4>2. g[k] = g[k - 1] \o tt[k] /\ f[k] = f[k - 1] \o ss[k]
        BY <1>3, <2>1, <4>1
      <4>3. tt[k] = ss[k] /\ k \in 0 .. n
        BY <1>6, <4>1
      <4>4. g[k] = f[k]
        BY <4>1, <4>2, <4>3
      <4> QED BY <4>3, <4>4
    <3> QED BY <3>1, <3>2
  <2>5. T = 0 .. n
    <3> HIDE DEF T
    <3>1. T \in SUBSET (0 .. n)
      BY DEF T
    <3> QED BY <1>2, <2>3, <2>4, <3>1, UpTo
  <2>6. g[n] = f[n]
    <3>1. n \in 0 .. n /\ n # 0
      BY <1>2, <2>2
    <3> QED BY <2>5, <3>1
  <2>7. n + 1 \in 2 .. n + 1 /\ (n + 1) - 1 = n
    BY <1>2, <2>2
  <2>8. g[n + 1] = g[n] \o tt[n + 1]
    <3>1. PICK m : m = n + 1
      OBVIOUS
    <3>2. m \in 2 .. n + 1 /\ m - 1 = n
      BY <2>7, <3>1
    <3>3. g[m] = g[m - 1] \o tt[m]
      BY <1>3, <3>2
    <3>4. g[m] = g[n] \o tt[m]
      BY <3>2, <3>3
    <3> QED BY <3>1, <3>4
  <2> QED BY <1>2, <1>3, <2>1, <2>6, <2>8 DEF tt
<1> QED BY <1>4, <1>5

--------------------------------------------------------------------------------
(* What a check may come to.                                                 *)
Ids == {"none", "half", "business", "message", "fault"}
Outcome == [rest : Seq(Byte), ret : Nat, id : Ids]
Outcomes == (SUBSET Outcome) \ {{}}

\* The outcomes a check names are outcomes.
LEMMA OutIs ==
    ASSUME NEW q \in Seq(Byte), NEW n \in Nat, NEW id \in Ids
    PROVE  Out(q, n, id) \in Outcome /\ {Out(q, n, id)} \in Outcomes
<1>1. Out(q, n, id) \in Outcome
  BY DEF Out, Outcome
<1> QED BY <1>1 DEF Outcomes

LEMMA FaultIs == Fault \in Outcome /\ {Fault} \in Outcomes
<1>1. << >> \in Seq(Byte) /\ 0 \in Nat /\ "fault" \in Ids
  BY DEF Ids
<1> QED BY <1>1, OutIs DEF Fault

LEMMA OutsAre ==
    ASSUME NEW left \in SUBSET Seq(Byte), NEW n \in Nat, NEW id \in Ids
    PROVE  /\ {Out(r, n, id) : r \in left} \in SUBSET Outcome
           /\ left # {} => {Out(r, n, id) : r \in left} \in Outcomes
<1>1. \A r \in left : Out(r, n, id) \in Outcome
  BY OutIs
<1> QED BY <1>1 DEF Outcomes

\* What an unreturned call comes to.
LEMMA UnreturnedSound ==
    ASSUME NEW outs \in Outcomes
    PROVE  Unreturned(outs) \in Outcomes
<1> DEFINE lost(o) == IF o.id = "fault" THEN {o}
                      ELSE {Out(o.rest, r, "none") : r \in {o.ret, 0}}
<1>1. Unreturned(outs) = UNION {lost(o) : o \in outs}
  BY DEF Unreturned
<1>2. ASSUME NEW o \in outs
      PROVE  lost(o) \in SUBSET Outcome /\ lost(o) # {}
  <2>1. o \in Outcome
    BY DEF Outcomes
  <2>2. o.rest \in Seq(Byte) /\ o.ret \in Nat
    BY <2>1 DEF Outcome
  <2>3. CASE o.id = "fault"
    BY <2>1, <2>3
  <2>4. CASE o.id # "fault"
    <3>1. lost(o) = {Out(o.rest, r, "none") : r \in {o.ret, 0}}
      BY <2>4
    <3>2. \A r \in {o.ret, 0} : Out(o.rest, r, "none") \in Outcome
      BY <2>2, OutIs DEF Ids
    <3> HIDE DEF lost
    <3> QED BY <3>1, <3>2
  <2> QED BY <2>3, <2>4
<1>3. outs # {}
  BY DEF Outcomes
<1> HIDE DEF lost
<1>4. UNION {lost(o) : o \in outs} \in SUBSET Outcome
  BY <1>2
<1>5. UNION {lost(o) : o \in outs} # {}
  <2>1. PICK o \in outs : TRUE
    BY <1>3
  <2>2. PICK x : x \in lost(o)
    BY <1>2
  <2> QED BY <2>2
<1> QED BY <1>1, <1>4, <1>5 DEF Outcomes

LEMMA PopSound ==
    ASSUME NEW q \in Seq(Byte)
    PROVE  Pop(q) \in Seq(Byte)
BY DEF Pop

LEMMA RestsAre ==
    ASSUME NEW outs \in Outcomes
    PROVE  {o.rest : o \in outs} \in SUBSET Seq(Byte) /\ {o.rest : o \in outs} # {}
BY DEF Outcomes, Outcome

\* All that a check calls again for the buffers that are left.
LEMMA AgainSound ==
    ASSUME NEW inner \in [Seq(Byte) -> Outcomes],
           NEW left \in SUBSET Seq(Byte)
    PROVE  /\ UNION {Unreturned(inner[Pop(r)]) : r \in left} \in SUBSET Outcome
           /\ left # {} => UNION {Unreturned(inner[Pop(r)]) : r \in left} \in Outcomes
<1> DEFINE again(r) == Unreturned(inner[Pop(r)])
<1>1. \A r \in left : again(r) \in Outcomes
  <2> TAKE r \in left
  <2>1. Pop(r) \in Seq(Byte)
    BY PopSound
  <2> QED BY <2>1, UnreturnedSound
<1> HIDE DEF again
<1>2. UNION {again(r) : r \in left} \in SUBSET Outcome
  BY <1>1 DEF Outcomes
<1>3. left # {} => UNION {again(r) : r \in left} # {}
  BY <1>1 DEF Outcomes
<1> QED BY <1>2, <1>3 DEF again, Outcomes

LEMMA ByteAt ==
    ASSUME NEW q \in Seq(Byte), NEW i \in 1 .. Len(q)
    PROVE  q[i] \in Byte /\ q[i] \in 0 .. 255
<1>1. q[i] \in Byte
  OBVIOUS
<1> QED BY <1>1 DEF Byte

\* Both checks come to at least one outcome, whatever the calls they make come to.
LEMMA ZnpSound ==
    ASSUME NEW q \in Seq(Byte), q # << >>, NEW inner \in [Seq(Byte) -> Outcomes]
    PROVE  Znp(q, inner) \in Outcomes
<1>1. CASE q[1] # Sof
  <2>1. Znp(q, inner) = Unreturned(inner[Pop(q)])
    BY <1>1 DEF Znp
  <2> QED BY <2>1, PopSound, UnreturnedSound
<1>2. CASE q[1] = Sof /\ Len(q) <= 2
  <2>1. Znp(q, inner) = {Out(q, 0, "half")}
    BY <1>2 DEF Znp
  <2> QED BY <2>1, OutIs DEF Ids
<1>3. CASE q[1] = Sof /\ ~(Len(q) <= 2)
  <2> DEFINE datalen == q[2]
             n == (datalen + 2) % 256
             outs == IF datalen = DataLen THEN {Out(q, 0, "none")} ELSE inner[Pop(q)]
             left == {o.rest : o \in outs}
             fcs == IF n = 0 THEN Byte ELSE {At(q, n)}
             sum == Checksum(q, 3, datalen - 1)
             again == UNION {Unreturned(inner[Pop(r)]) : r \in left}
             goods == {Out(r, n, "business") : r \in left}
             halves == {Out(r, 0, "half") : r \in left}
             last == (IF sum \in fcs THEN goods ELSE {})
                     \cup (IF \E b \in fcs : b # sum THEN again ELSE {})
  <2>1. Znp(q, inner) = IF Fault \in outs THEN {Fault}
                        ELSE IF Half(n, q) THEN halves
                        ELSE IF datalen = 0 THEN {Fault} ELSE last
    BY <1>3 DEF Znp
  <2>2. n \in Nat
    <3>1. datalen \in 0 .. 255
      <4>1. 2 \in 1 .. Len(q)
        BY <1>3
      <4> QED BY <4>1, ByteAt
    <3>2. \A a \in 0 .. 255 : (a + 2) % 256 \in Nat
      OBVIOUS
    <3> HIDE DEF datalen
    <3> QED BY <3>1, <3>2
  <2>3. outs \in Outcomes
    <3>1. CASE datalen = DataLen
      BY <3>1, OutIs DEF Ids
    <3>2. CASE datalen # DataLen
      BY <3>2, PopSound
    <3> QED BY <3>1, <3>2
  <2>4. fcs # {}
    <3>1. 0 \in Byte
      BY DEF Byte
    <3> QED BY <3>1
  <2> HIDE DEF outs
  <2>5. left \in SUBSET Seq(Byte) /\ left # {}
    BY <2>3, RestsAre
  <2> HIDE DEF left, n, fcs, sum
  <2>6. again \in SUBSET Outcome /\ again # {}
    BY <2>5, AgainSound DEF Outcomes
  <2>7. goods \in Outcomes /\ halves \in Outcomes
    BY <2>2, <2>5, OutsAre DEF Ids
  <2> HIDE DEF again, goods, halves
  <2>8. sum \in fcs \/ \E b \in fcs : b # sum
    BY <2>4
  <2>9. last \in Outcomes
    BY <2>6, <2>7, <2>8 DEF Outcomes
  <2> HIDE DEF last, datalen
  <2> QED BY <2>1, <2>7, <2>9, FaultIs
<1> QED BY <1>1, <1>2, <1>3

LEMMA ProtocolSound ==
    ASSUME NEW q \in Seq(Byte), q # << >>, NEW inner \in [Seq(Byte) -> Outcomes]
    PROVE  Protocol(q, inner) \in Outcomes
<1>1. CASE q[1] # Sof
  <2>1. Protocol(q, inner) = Unreturned(inner[Pop(q)])
    BY <1>1 DEF Protocol
  <2> QED BY <2>1, PopSound, UnreturnedSound
<1>2. CASE q[1] = Sof /\ Len(q) <= 2
  <2>1. Protocol(q, inner) = {Out(q, 0, "half")}
    BY <1>2 DEF Protocol
  <2> QED BY <2>1, OutIs DEF Ids
<1>3. CASE q[1] = Sof /\ ~(Len(q) <= 2)
  <2> DEFINE n == 256 * q[2] + q[3]
             outs == IF n \in MinLen .. MaxLen THEN {Out(q, 0, "none")} ELSE inner[Pop(q)]
             left == {o.rest : o \in outs}
             good == Checksum(q, 1, n - 2) = At(q, n - 1) /\ At(q, n) = Sof
             again == UNION {Unreturned(inner[Pop(r)]) : r \in left}
             goods == {Out(r, n, "message") : r \in left}
             halves == {Out(r, 0, "half") : r \in left}
  <2>1. Protocol(q, inner) = IF Fault \in outs THEN {Fault}
                             ELSE IF Half(n, q) THEN halves
                             ELSE IF n < 2 THEN {Fault}
                             ELSE IF good THEN goods ELSE again
    BY <1>3 DEF Protocol
  <2>2. n \in Nat
    <3>1. q[2] \in 0 .. 255 /\ q[3] \in 0 .. 255
      <4>1. 2 \in 1 .. Len(q) /\ 3 \in 1 .. Len(q)
        BY <1>3
      <4> QED BY <4>1, ByteAt
    <3>2. \A a, b \in 0 .. 255 : 256 * a + b \in Nat
      OBVIOUS
    <3> QED BY <3>1, <3>2
  <2>3. outs \in Outcomes
    <3>1. CASE n \in MinLen .. MaxLen
      BY <3>1, OutIs DEF Ids
    <3>2. CASE n \notin MinLen .. MaxLen
      BY <3>2, PopSound
    <3> QED BY <3>1, <3>2
  <2> HIDE DEF outs
  <2>4. left \in SUBSET Seq(Byte) /\ left # {}
    BY <2>3, RestsAre
  <2> HIDE DEF left, n, good
  <2>5. again \in Outcomes
    BY <2>4, AgainSound
  <2>6. goods \in Outcomes /\ halves \in Outcomes
    BY <2>2, <2>4, OutsAre DEF Ids
  <2> HIDE DEF again, goods, halves
  <2> QED BY <2>1, <2>5, <2>6, FaultIs
<1> QED BY <1>1, <1>2, <1>3

--------------------------------------------------------------------------------
(* A check calls itself on shorter buffers only, so it comes to an end.      *)
Call(kind, q, inner) == IF kind = "serial" THEN Znp(q, inner) ELSE Protocol(q, inner)

\* f[k] has what a check comes to that may call itself k times deep.
Checks(f, kind, n) ==
    /\ f \in [0 .. n -> [Seq(Byte) -> Outcomes]]
    /\ \A s \in Seq(Byte) : f[0][s] = {Out(s, 0, "none")}
    /\ \A k \in 1 .. n : \A s \in Seq(Byte) :
          f[k][s] = IF s = << >> THEN {Out(s, 0, "none")} ELSE Call(kind, s, f[k - 1])

LEMMA CallSound ==
    ASSUME NEW kind, NEW q \in Seq(Byte), q # << >>,
           NEW inner \in [Seq(Byte) -> Outcomes]
    PROVE  Call(kind, q, inner) \in Outcomes
BY ZnpSound, ProtocolSound DEF Call

\* A check is such a run, as deep as its buffer is long.
LEMMA CheckRuns ==
    ASSUME NEW kind, NEW q \in Seq(Byte)
    PROVE  \E f : Checks(f, kind, Len(q)) /\ Check(kind, q) = f[Len(q)][q]
<1> DEFINE n == Len(q)
           U == [Seq(Byte) -> Outcomes]
           none == [s \in Seq(Byte) |-> {Out(s, 0, "none")}]
           next(inner) == [s \in Seq(Byte) |->
               IF s = << >> THEN {Out(s, 0, "none")} ELSE Call(kind, s, inner)]
           step == [k \in 1 .. n |-> [inner \in U |-> next(inner)]]
           Is(f) == f = [k \in 0 .. n |-> [s \in Seq(Byte) |->
               IF s = << >> \/ k = 0 THEN {Out(s, 0, "none")}
               ELSE Call(kind, s, f[k - 1])]]
<1>1. n \in Nat /\ n \in 0 .. n
  OBVIOUS
<1>2. none \in U
  <2>1. \A s \in Seq(Byte) : {Out(s, 0, "none")} \in Outcomes
    BY OutIs DEF Ids
  <2> QED BY <2>1
<1>3. \A inner \in U : next(inner) \in U
  <2> TAKE inner \in U
  <2>1. ASSUME NEW s \in Seq(Byte)
        PROVE  (IF s = << >> THEN {Out(s, 0, "none")} ELSE Call(kind, s, inner)) \in Outcomes
    <3>1. {Out(s, 0, "none")} \in Outcomes
      BY OutIs DEF Ids
    <3>2. s # << >> => Call(kind, s, inner) \in Outcomes
      BY CallSound
    <3> QED BY <3>1, <3>2
  <2> QED BY <2>1
<1>4. PICK g : IsRun(g, U, none, n, step)
  <2> HIDE DEF U, none, next
  <2>1. step \in [1 .. n -> [U -> U]]
    BY <1>3
  <2> HIDE DEF step
  <2> QED BY <1>1, <1>2, <2>1, LoopRuns
<1>5. g \in [0 .. n -> U] /\ g[0] = none
  BY <1>4 DEF IsRun
<1>6. \A k \in 1 .. n : g[k] = next(g[k - 1])
  <2> TAKE k \in 1 .. n
  <2> HIDE DEF U, none, next
  <2>1. k - 1 \in 0 .. n /\ g[k - 1] \in U
    <3>1. k - 1 \in 0 .. n
      BY <1>1
    <3> QED BY <1>5, <3>1
  <2>2. step[k] = [inner \in U |-> next(inner)]
    OBVIOUS
  <2>3. step[k][g[k - 1]] = next(g[k - 1])
    BY <2>1, <2>2
  <2> HIDE DEF step
  <2> QED BY <1>4, <2>3 DEF IsRun
<1>7. Is(g)
  <2>1. ASSUME NEW k \in 0 .. n
        PROVE  g[k] = [s \in Seq(Byte) |->
                   IF s = << >> \/ k = 0 THEN {Out(s, 0, "none")}
                   ELSE Call(kind, s, g[k - 1])]
    <3>1. CASE k = 0
      BY <1>5, <3>1
    <3>2. CASE k # 0
      <4>1. k \in 1 .. n
        BY <3>2
      <4>2. g[k] = next(g[k - 1])
        BY <1>6, <4>1
      <4> QED BY <3>2, <4>2
    <3> QED BY <3>1, <3>2
  <2>2. g = [k \in 0 .. n |-> g[k]]
    BY <1>5
  <2> HIDE DEF none, next, step, U
  <2> QED BY <2>1, <2>2
<1> DEFINE h == CHOOSE f : Is(f)
<1>8. Is(h)
  <2> HIDE DEF Is
  <2> QED BY <1>7
<1>9. Check(kind, q) = h[n][q]
  BY DEF Check, Call
<1> HIDE DEF h
<1>10. \A k \in 0 .. n : h[k] = [s \in Seq(Byte) |->
           IF s = << >> \/ k = 0 THEN {Out(s, 0, "none")} ELSE Call(kind, s, h[k - 1])]
  BY <1>8
<1>11. h[0] = none
  <2>1. PICK k \in 0 .. n : k = 0
    BY <1>1
  <2>2. h[k] = [s \in Seq(Byte) |->
            IF s = << >> \/ k = 0 THEN {Out(s, 0, "none")} ELSE Call(kind, s, h[k - 1])]
    BY <1>10
  <2>3. h[k] = none
    BY <2>1, <2>2
  <2> QED BY <2>1, <2>3
<1>12. \A k \in 1 .. n : h[k] = next(h[k - 1])
  <2> TAKE k \in 1 .. n
  <2>1. k \in 0 .. n /\ k # 0
    OBVIOUS
  <2> QED BY <1>10, <2>1
<1>13. \A k \in 0 .. n : h[k] \in U
  <2> DEFINE T == {k \in 0 .. n : h[k] \in U}
  <2> HIDE DEF U, none, next
  <2>1. 0 \in T
    BY <1>1, <1>2, <1>11
  <2>2. ASSUME NEW k \in 1 .. n, k - 1 \in T
        PROVE  k \in T
    <3>1. next(h[k - 1]) \in U
      BY <1>3, <2>2
    <3> QED BY <1>12, <3>1
  <2>3. T = 0 .. n
    <3> HIDE DEF T
    <3>1. T \in SUBSET (0 .. n)
      BY DEF T
    <3> QED BY <1>1, <2>1, <2>2, <3>1, UpTo
  <2> QED BY <2>3
<1>14. h \in [0 .. n -> U]
  <2>1. h = [k \in 0 .. n |-> h[k]]
    BY <1>8
  <2> QED BY <1>13, <2>1
<1>15. Checks(h, kind, n)
  <2>1. \A s \in Seq(Byte) : h[0][s] = {Out(s, 0, "none")}
    BY <1>11
  <2>2. \A k \in 1 .. n : \A s \in Seq(Byte) :
          h[k][s] = IF s = << >> THEN {Out(s, 0, "none")} ELSE Call(kind, s, h[k - 1])
    BY <1>12
  <2> QED BY <1>14, <2>1, <2>2 DEF Checks
<1> QED BY <1>9, <1>15

\* A check comes to some outcome.
LEMMA CheckSound ==
    ASSUME NEW kind, NEW q \in Seq(Byte)
    PROVE  Check(kind, q) \in Outcomes
<1>1. PICK f : Checks(f, kind, Len(q)) /\ Check(kind, q) = f[Len(q)][q]
  BY CheckRuns
<1>2. f \in [0 .. Len(q) -> [Seq(Byte) -> Outcomes]]
  BY <1>1 DEF Checks
<1>3. Len(q) \in 0 .. Len(q)
  OBVIOUS
<1> QED BY <1>1, <1>2, <1>3

LEMMA CheckNothing ==
    ASSUME NEW kind
    PROVE  Check(kind, << >>) = {Out(<< >>, 0, "none")}
<1> DEFINE q == << >>
<1>1. q \in Seq(Byte) /\ Len(q) = 0
  OBVIOUS
<1> HIDE DEF q
<1>2. PICK f : Checks(f, kind, 0) /\ Check(kind, q) = f[0][q]
  BY <1>1, CheckRuns
<1>3. f[0][q] = {Out(q, 0, "none")}
  BY <1>1, <1>2 DEF Checks
<1> QED BY <1>2, <1>3 DEF q

\* What a check calls is a check of the buffer without its first byte.
LEMMA CheckSteps ==
    ASSUME NEW kind, NEW q \in Seq(Byte), q # << >>
    PROVE  \E inner \in [Seq(Byte) -> Outcomes] :
               /\ Check(kind, q) = Call(kind, q, inner)
               /\ inner[Tail(q)] = Check(kind, Tail(q))
<1> DEFINE n == Len(q)
           p == Tail(q)
<1>1. p \in Seq(Byte) /\ Len(p) = n - 1 /\ n \in Nat \ {0}
  OBVIOUS
<1> HIDE DEF n, p
<1>2. PICK f : Checks(f, kind, n) /\ Check(kind, q) = f[n][q]
  BY CheckRuns DEF n
<1>3. PICK g : Checks(g, kind, n - 1) /\ Check(kind, p) = g[n - 1][p]
  <2>1. \E g : Checks(g, kind, Len(p)) /\ Check(kind, p) = g[Len(p)][p]
    BY <1>1, CheckRuns
  <2> QED BY <1>1, <2>1
<1>4. \A k \in 0 .. n : f[k] \in [Seq(Byte) -> Outcomes]
  BY <1>2 DEF Checks
<1>5. \A k \in 0 .. n - 1 : g[k] \in [Seq(Byte) -> Outcomes]
  BY <1>3 DEF Checks
<1>6. f[n - 1] = g[n - 1]
  <2> DEFINE T == {k \in 0 .. n - 1 : f[k] = g[k]}
  <2>1. 0 \in T
    <3>1. 0 \in 0 .. n /\ 0 \in 0 .. n - 1
      BY <1>1
    <3>2. \A s \in Seq(Byte) : f[0][s] = g[0][s]
      BY <1>2, <1>3 DEF Checks
    <3>3. f[0] = g[0]
      BY <1>4, <1>5, <3>1, <3>2
    <3> QED BY <3>1, <3>3
  <2>2. ASSUME NEW k \in 1 .. n - 1, k - 1 \in T
        PROVE  k \in T
    <3>1. k \in 1 .. n /\ k \in 0 .. n /\ k \in 0 .. n - 1
      BY <1>1
    <3>2. \A s \in Seq(Byte) : f[k][s] = g[k][s]
      <4> TAKE s \in Seq(Byte)
      <4>1. f[k][s] = IF s = << >> THEN {Out(s, 0, "none")} ELSE Call(kind, s, f[k - 1])
        BY <1>2, <3>1 DEF Checks
      <4>2. g[k][s] = IF s = << >> THEN {Out(s, 0, "none")} ELSE Call(kind, s, g[k - 1])
        BY <1>3 DEF Checks
      <4>3. f[k - 1] = g[k - 1]
        BY <2>2
      <4> QED BY <4>1, <4>2, <4>3
    <3>3. f[k] = g[k]
      BY <1>4, <1>5, <3>1, <3>2
    <3> QED BY <3>1, <3>3
  <2>3. T = 0 .. n - 1
    <3> HIDE DEF T
    <3>1. T \in SUBSET (0 .. n - 1)
      BY DEF T
    <3>2. n - 1 \in Nat
      BY <1>1
    <3> QED BY <2>1, <2>2, <3>1, <3>2, UpTo
  <2>4. n - 1 \in 0 .. n - 1
    BY <1>1
  <2> QED BY <2>3, <2>4
<1>7. f[n][q] = Call(kind, q, f[n - 1])
  <2>1. n \in 1 .. n
    BY <1>1
  <2> QED BY <1>2, <2>1 DEF Checks
<1>8. f[n - 1] \in [Seq(Byte) -> Outcomes]
  <2>1. n - 1 \in 0 .. n
    BY <1>1
  <2> QED BY <1>4, <2>1
<1>9. f[n - 1][p] = Check(kind, p)
  BY <1>3, <1>6
<1> QED BY <1>2, <1>7, <1>8, <1>9 DEF p

--------------------------------------------------------------------------------
(* A check finds a frame at the start of its buffer.                         *)
IdOf(kind) == IF kind = "serial" THEN "business" ELSE "message"

\* A checksum depends on the bytes it covers only.
LEMMA SameChecksum ==
    ASSUME NEW q, NEW f, NEW i \in Nat, NEW n \in Nat,
           \A j \in i .. i + (IF n = 0 THEN 1 ELSE n) - 1 : At(q, j) = At(f, j)
    PROVE  Checksum(q, i, n) = Checksum(f, i, n)
<1> DEFINE m == IF n = 0 THEN 1 ELSE n
<1>1. \A k \in 1 .. m : i + k - 1 \in i .. i + m - 1
  OBVIOUS
<1> HIDE DEF m
<1>2. \A k \in 1 .. m : At(q, i + k - 1) = At(f, i + k - 1)
  BY <1>1 DEF m
<1>3. [k \in 1 .. m |-> At(q, i + k - 1)] = [k \in 1 .. m |-> At(f, i + k - 1)]
  BY <1>2
<1> QED BY <1>3 DEF Checksum, m

LEMMA SameBytes ==
    ASSUME NEW q, NEW f, NEW i \in Nat, NEW n \in Nat \ {0},
           \A j \in i .. i + n - 1 : At(q, j) = At(f, j)
    PROVE  Checksum(q, i, n) = Checksum(f, i, n)
<1>1. n \in Nat /\ (IF n = 0 THEN 1 ELSE n) = n
  OBVIOUS
<1> QED BY <1>1, SameChecksum

\* A serial frame's length byte.
LEMMA DataLenIs == DataLen \in 2 .. 253
BY FramingAssumption

\* A frame and a message are bytes, at least three, and start as they must.
LEMMA FrameIs ==
    ASSUME NEW kind \in Sides, NEW f \in Frames[kind]
    PROVE  f \in Seq(Byte) /\ Len(f) >= 3 /\ f[1] = Sof
<1>1. CASE kind = "serial"
  <2>1. f \in [1 .. DataLen + 2 -> Byte] /\ f[1] = Sof
    BY <1>1, FramesAssumption DEF WholeFrame
  <2>2. PICK n : n = DataLen + 2
    OBVIOUS
  <2>3. n \in Nat /\ n >= 3
    BY <2>2, DataLenIs
  <2>4. f \in [1 .. n -> Byte]
    BY <2>1, <2>2
  <2>5. f \in Seq(Byte) /\ Len(f) = n
    BY <2>3, <2>4
  <2> QED BY <2>1, <2>3, <2>5
<1>2. CASE kind = "socket"
  BY <1>2, FramesAssumption, FramingAssumption DEF WholeMessage
<1> QED BY <1>1, <1>2 DEF Sides

\* A buffer that starts as a frame does is not checked any further.
LEMMA ZnpOfFrame ==
    ASSUME NEW f \in Frames["serial"], NEW q \in Seq(Byte), q # << >>, NEW inner,
           \A k \in 1 .. Len(q) : k <= Len(f) => q[k] = f[k]
    PROVE  Znp(q, inner) = IF Len(q) < Len(f) THEN {Out(q, 0, "half")}
                           ELSE {Out(q, Len(f), "business")}
<1>1. /\ f \in [1 .. DataLen + 2 -> Byte] /\ f[1] = Sof /\ f[2] = DataLen
      /\ f[DataLen + 2] = Checksum(f, 3, DataLen - 1) /\ DataLen \in 2 .. 253
  BY FramesAssumption, FramingAssumption DEF WholeFrame
<1>2. Len(f) = DataLen + 2
  BY <1>1
<1>3. Len(q) \in Nat \ {0} /\ q[1] = Sof
  <2>1. Len(q) \in Nat \ {0} /\ 1 \in 1 .. Len(q)
    OBVIOUS
  <2>2. 1 <= Len(f)
    BY <1>1, <1>2
  <2> QED BY <1>1, <2>1, <2>2
<1>4. CASE Len(q) <= 2
  <2>1. Znp(q, inner) = {Out(q, 0, "half")}
    BY <1>3, <1>4 DEF Znp
  <2>2. Len(q) < Len(f)
    BY <1>1, <1>2, <1>3, <1>4
  <2> QED BY <2>1, <2>2
<1>5. CASE ~(Len(q) <= 2)
  <2> DEFINE datalen == q[2]
             n == (datalen + 2) % 256
             outs == IF datalen = DataLen THEN {Out(q, 0, "none")} ELSE inner[Pop(q)]
             left == {o.rest : o \in outs}
             fcs == IF n = 0 THEN Byte ELSE {At(q, n)}
             sum == Checksum(q, 3, datalen - 1)
             again == UNION {Unreturned(inner[Pop(r)]) : r \in left}
             goods == {Out(r, n, "business") : r \in left}
             halves == {Out(r, 0, "half") : r \in left}
             last == (IF sum \in fcs THEN goods ELSE {})
                     \cup (IF \E b \in fcs : b # sum THEN again ELSE {})
  <2>1. Znp(q, inner) = IF Fault \in outs THEN {Fault}
                        ELSE IF Half(n, q) THEN halves
                        ELSE IF datalen = 0 THEN {Fault} ELSE last
    BY <1>3, <1>5 DEF Znp
  <2>2. datalen = DataLen
    <3>1. 2 \in 1 .. Len(q) /\ 2 <= Len(f)
      BY <1>1, <1>2, <1>3, <1>5
    <3> QED BY <1>1, <3>1
  <2>3. n = DataLen + 2
    <3>1. \A d \in 2 .. 253 : (d + 2) % 256 = d + 2
      OBVIOUS
    <3> QED BY <1>1, <2>2, <3>1
  <2>4. outs = {Out(q, 0, "none")}
    BY <2>2
  <2> HIDE DEF outs
  <2>5. Fault \notin outs
    BY <2>4 DEF Fault, Out
  <2>6. left = {q}
    <3>1. Out(q, 0, "none").rest = q
      BY DEF Out
    <3> QED BY <2>4, <3>1
  <2> HIDE DEF left
  <2>7. halves = {Out(q, 0, "half")} /\ goods = {Out(q, n, "business")}
    BY <2>6
  <2>8. CASE Len(q) < Len(f)
    <3>1. Half(n, q)
      BY <1>1, <1>2, <1>3, <2>3, <2>8 DEF Half
    <3> HIDE DEF n, last, halves, datalen
    <3> QED BY <2>1, <2>5, <2>7, <2>8, <3>1
  <2>9. CASE ~(Len(q) < Len(f))
    <3>1. ~Half(n, q) /\ n # 0 /\ datalen # 0
      BY <1>1, <1>2, <1>3, <2>2, <2>3, <2>9 DEF Half
    <3>2. fcs = {At(q, n)}
      BY <3>1
    <3>3. \A j \in 1 .. Len(f) : At(q, j) = f[j] /\ At(f, j) = f[j]
      BY <1>1, <1>2, <1>3, <2>9 DEF At
    <3>4. At(q, n) = f[DataLen + 2]
      BY <1>1, <1>2, <2>3, <3>3
    <3>5. sum = Checksum(f, 3, DataLen - 1)
      <4>1. PICK m : m = DataLen - 1
        OBVIOUS
      <4>2. m \in Nat \ {0} /\ 3 \in Nat
        BY <4>1, DataLenIs
      <4>3. \A j \in 3 .. 3 + m - 1 : j \in 1 .. Len(f)
        BY <1>1, <1>2, <4>1
      <4>4. \A j \in 3 .. 3 + m - 1 : At(q, j) = At(f, j)
        BY <3>3, <4>3
      <4>5. Checksum(q, 3, m) = Checksum(f, 3, m)
        BY <4>2, <4>4, SameBytes
      <4> QED BY <2>2, <4>1, <4>5
    <3>6. sum \in fcs /\ ~\E b \in fcs : b # sum
      BY <1>1, <3>2, <3>4, <3>5
    <3> HIDE DEF sum, fcs, goods, again
    <3>7. last = goods
      BY <3>6
    <3> HIDE DEF last, halves, datalen, n
    <3>8. Znp(q, inner) = {Out(q, n, "business")}
      BY <2>1, <2>5, <2>7, <3>1, <3>7
    <3>9. n = Len(f)
      BY <1>2, <2>3
    <3> QED BY <2>9, <3>8, <3>9
  <2> QED BY <2>8, <2>9
<1> QED BY <1>4, <1>5

LEMMA ProtocolOfMessage ==
    ASSUME NEW f, WholeMessage(f), NEW q \in Seq(Byte), q # << >>, NEW inner,
           \A k \in 1 .. Len(q) : k <= Len(f) => q[k] = f[k]
    PROVE  Protocol(q, inner) = IF Len(q) < Len(f) THEN {Out(q, 0, "half")}
                                ELSE {Out(q, Len(f), "message")}
<1> DEFINE l == Len(f)
<1>1. /\ f \in Seq(Byte) /\ l \in MinLen .. MaxLen
      /\ f[1] = Sof /\ 256 * f[2] + f[3] = l
      /\ f[l - 1] = Checksum(f, 1, l - 2) /\ f[l] = Sof
  BY DEF WholeMessage
<1>2. l \in Nat /\ 2 < l
  BY <1>1, FramingAssumption
<1> HIDE DEF l
<1>3. \A k \in 1 .. Len(q) : k <= l => q[k] = f[k]
  BY DEF l
<1>4. Len(q) \in Nat \ {0} /\ q[1] = Sof
  <2>1. Len(q) \in Nat \ {0} /\ 1 \in 1 .. Len(q)
    OBVIOUS
  <2> QED BY <1>1, <1>2, <1>3, <2>1
<1>5. CASE Len(q) <= 2
  <2>1. Protocol(q, inner) = {Out(q, 0, "half")}
    BY <1>4, <1>5 DEF Protocol
  <2>2. Len(q) < l
    BY <1>2, <1>4, <1>5
  <2> QED BY <2>1, <2>2 DEF l
<1>6. CASE ~(Len(q) <= 2)
  <2> DEFINE n == 256 * q[2] + q[3]
             outs == IF n \in MinLen .. MaxLen THEN {Out(q, 0, "none")} ELSE inner[Pop(q)]
             left == {o.rest : o \in outs}
             good == Checksum(q, 1, n - 2) = At(q, n - 1) /\ At(q, n) = Sof
             again == UNION {Unreturned(inner[Pop(r)]) : r \in left}
             goods == {Out(r, n, "message") : r \in left}
             halves == {Out(r, 0, "half") : r \in left}
  <2>1. Protocol(q, inner) = IF Fault \in outs THEN {Fault}
                             ELSE IF Half(n, q) THEN halves
                             ELSE IF n < 2 THEN {Fault}
                             ELSE IF good THEN goods ELSE again
    BY <1>4, <1>6 DEF Protocol
  <2>2. n = l
    <3>1. 2 \in 1 .. Len(q) /\ 2 <= l /\ 3 \in 1 .. Len(q) /\ 3 <= l
      BY <1>2, <1>4, <1>6
    <3>2. q[2] = f[2] /\ q[3] = f[3]
      BY <1>3, <3>1
    <3> QED BY <1>1, <3>2
  <2> HIDE DEF n
  <2>3. outs = {Out(q, 0, "none")}
    BY <1>1, <2>2
  <2> HIDE DEF outs
  <2>4. Fault \notin outs
    BY <2>3 DEF Fault, Out
  <2>5. left = {q}
    <3>1. Out(q, 0, "none").rest = q
      BY DEF Out
    <3> QED BY <2>3, <3>1
  <2> HIDE DEF left
  <2>6. halves = {Out(q, 0, "half")} /\ goods = {Out(q, l, "message")}
    BY <2>2, <2>5
  <2>7. CASE Len(q) < l
    <3>1. Half(n, q)
      BY <1>2, <1>4, <2>2, <2>7 DEF Half
    <3> HIDE DEF good, goods, again, halves
    <3> QED BY <2>1, <2>4, <2>6, <2>7, <3>1 DEF l
  <2>8. CASE ~(Len(q) < l)
    <3>1. ~Half(n, q) /\ ~(n < 2)
      BY <1>2, <1>4, <2>2, <2>8 DEF Half
    <3>2. \A j \in 1 .. l : At(q, j) = f[j] /\ At(f, j) = f[j]
      BY <1>2, <1>3, <1>4, <2>8 DEF At, l
    <3>3. good
      <4>1. PICK m : m = l - 2
        OBVIOUS
      <4>2. m \in Nat \ {0} /\ 1 \in Nat
        BY <1>2, <4>1
      <4>3. \A j \in 1 .. 1 + m - 1 : j \in 1 .. l
        BY <1>2, <4>1
      <4>4. \A j \in 1 .. 1 + m - 1 : At(q, j) = At(f, j)
        BY <3>2, <4>3
      <4>5. Checksum(q, 1, m) = Checksum(f, 1, m)
        BY <4>2, <4>4, SameBytes
      <4>6. l \in 1 .. l /\ l - 1 \in 1 .. l
        BY <1>2
      <4>7. At(q, l) = f[l] /\ At(q, l - 1) = f[l - 1]
        BY <3>2, <4>6
      <4> QED BY <1>1, <2>2, <4>1, <4>5, <4>7
    <3> HIDE DEF good, goods, again, halves
    <3>4. Protocol(q, inner) = goods
      BY <2>1, <2>4, <3>1, <3>3
    <3> QED BY <2>6, <2>8, <3>4 DEF l
  <2> QED BY <2>7, <2>8
<1> QED BY <1>5, <1>6

\* The same for both kinds of connection.
LEMMA CheckOfFrame ==
    ASSUME NEW kind \in Sides, NEW f \in Frames[kind], NEW q \in Seq(Byte), q # << >>,
           \A k \in 1 .. Len(q) : k <= Len(f) => q[k] = f[k]
    PROVE  Check(kind, q) = IF Len(q) < Len(f) THEN {Out(q, 0, "half")}
                            ELSE {Out(q, Len(f), IdOf(kind))}
<1>1. PICK inner \in [Seq(Byte) -> Outcomes] : Check(kind, q) = Call(kind, q, inner)
  BY CheckSteps
<1>2. CASE kind = "serial"
  BY <1>1, <1>2, ZnpOfFrame DEF Call, IdOf
<1>3. CASE kind = "socket"
  BY <1>1, <1>3, FramesAssumption, ProtocolOfMessage DEF Call, IdOf
<1> QED BY <1>2, <1>3 DEF Sides

--------------------------------------------------------------------------------
(* Where the items of a stream lie in its bytes.                             *)
FirstOf(ss, i) == FlattenSeq(SubSeq(ss, 1, i))

\* Prefixes grow by one item.
LEMMA PrefixIs ==
    ASSUME NEW X, NEW ss \in Seq(X)
    PROVE  /\ SubSeq(ss, 1, 0) = << >> /\ SubSeq(ss, 1, Len(ss)) = ss
           /\ \A i \in 0 .. Len(ss) : SubSeq(ss, 1, i) \in Seq(X)
           /\ \A i \in 1 .. Len(ss) : /\ ss[i] \in X
                                      /\ SubSeq(ss, 1, i) = Append(SubSeq(ss, 1, i - 1), ss[i])
<1>1. SubSeq(ss, 1, 0) = << >>
  OBVIOUS
<1>2. SubSeq(ss, 1, Len(ss)) = ss
  OBVIOUS
<1>3. \A i \in 0 .. Len(ss) : SubSeq(ss, 1, i) \in Seq(X)
  OBVIOUS
<1>4. ASSUME NEW i \in 1 .. Len(ss)
      PROVE  ss[i] \in X /\ SubSeq(ss, 1, i) = Append(SubSeq(ss, 1, i - 1), ss[i])
  OBVIOUS
<1> QED BY <1>1, <1>2, <1>3, <1>4

LEMMA FirstSteps ==
    ASSUME NEW S, NEW ss \in Seq(Seq(S))
    PROVE  /\ FirstOf(ss, 0) = << >> /\ FirstOf(ss, Len(ss)) = FlattenSeq(ss)
           /\ \A i \in 0 .. Len(ss) : FirstOf(ss, i) \in Seq(S)
           /\ \A i \in 1 .. Len(ss) : /\ ss[i] \in Seq(S)
                                      /\ FirstOf(ss, i) = FirstOf(ss, i - 1) \o ss[i]
<1> DEFINE X == Seq(S)
<1> HIDE DEF X
<1>1. ss \in Seq(X)
  BY DEF X
<1>2. /\ SubSeq(ss, 1, 0) = << >> /\ SubSeq(ss, 1, Len(ss)) = ss
      /\ \A i \in 0 .. Len(ss) : SubSeq(ss, 1, i) \in Seq(X)
      /\ \A i \in 1 .. Len(ss) : /\ ss[i] \in X
                                 /\ SubSeq(ss, 1, i) = Append(SubSeq(ss, 1, i - 1), ss[i])
  BY <1>1, PrefixIs
<1>3. FirstOf(ss, 0) = << >>
  BY <1>2 DEF FirstOf, FlattenSeq
<1>4. FirstOf(ss, Len(ss)) = FlattenSeq(ss)
  BY <1>2 DEF FirstOf
<1>5. \A i \in 0 .. Len(ss) : FirstOf(ss, i) \in Seq(S)
  <2> TAKE i \in 0 .. Len(ss)
  <2>1. SubSeq(ss, 1, i) \in Seq(Seq(S))
    BY <1>2 DEF X
  <2> QED BY <2>1, FlattenSound DEF FirstOf
<1>6. ASSUME NEW i \in 1 .. Len(ss)
      PROVE  ss[i] \in Seq(S) /\ FirstOf(ss, i) = FirstOf(ss, i - 1) \o ss[i]
  <2>1. i - 1 \in 0 .. Len(ss)
    BY <1>1
  <2>2. SubSeq(ss, 1, i - 1) \in Seq(Seq(S)) /\ ss[i] \in Seq(S)
    BY <1>2, <2>1 DEF X
  <2>3. FlattenSeq(Append(SubSeq(ss, 1, i - 1), ss[i])) = FlattenSeq(SubSeq(ss, 1, i - 1)) \o ss[i]
    BY <2>2, FlattenAppend
  <2> QED BY <1>2, <2>2, <2>3 DEF FirstOf
<1> QED BY <1>3, <1>4, <1>5, <1>6

\* The bytes of the first items begin those of more items.
LEMMA FirstBegins ==
    ASSUME NEW S, NEW ss \in Seq(Seq(S)), NEW i \in 0 .. Len(ss), NEW j \in i .. Len(ss)
    PROVE  /\ Len(FirstOf(ss, i)) <= Len(FirstOf(ss, j))
           /\ \A k \in 1 .. Len(FirstOf(ss, i)) : FirstOf(ss, j)[k] = FirstOf(ss, i)[k]
<1> DEFINE n == Len(ss)
           g(k) == FirstOf(ss, k)
<1>0. n \in Nat
  <2> DEFINE X == Seq(S)
  <2>1. ss \in Seq(X)
    OBVIOUS
  <2> HIDE DEF X
  <2> QED BY <2>1
<1> DEFINE Begins(k) == /\ Len(g(i)) <= Len(g(i + k))
                        /\ \A l \in 1 .. Len(g(i)) : g(i + k)[l] = g(i)[l]
           T == {k \in 0 .. n - i : Begins(k)}
<1>1. /\ \A k \in 0 .. n : g(k) \in Seq(S)
      /\ \A k \in 1 .. n : ss[k] \in Seq(S) /\ g(k) = g(k - 1) \o ss[k]
  BY FirstSteps
<1> HIDE DEF g, n
<1>2. i \in Nat /\ i <= n /\ j \in Nat /\ i <= j /\ j <= n
  BY <1>0 DEF n
<1>3. 0 \in T
  <2>1. i + 0 = i /\ g(i) \in Seq(S) /\ 0 \in 0 .. n - i
    BY <1>0, <1>1, <1>2
  <2> QED BY <2>1
<1>4. ASSUME NEW k \in 1 .. n - i, k - 1 \in T
      PROVE  k \in T
  <2>1. PICK h : h = i + k
    OBVIOUS
  <2>2. h \in 1 .. n /\ h - 1 = i + (k - 1) /\ h - 1 \in 0 .. n /\ k \in 0 .. n - i
    BY <1>0, <1>2, <2>1
  <2>3. g(h) = g(h - 1) \o ss[h] /\ g(h - 1) \in Seq(S) /\ ss[h] \in Seq(S)
    BY <1>1, <2>2
  <2>4. Begins(k - 1)
    BY <1>4
  <2>5. Len(g(i)) <= Len(g(h - 1)) /\ \A l \in 1 .. Len(g(i)) : g(h - 1)[l] = g(i)[l]
    BY <2>2, <2>4
  <2>6. g(i) \in Seq(S)
    BY <1>0, <1>1, <1>2
  <2>7. Len(g(i)) <= Len(g(h)) /\ \A l \in 1 .. Len(g(i)) : g(h)[l] = g(i)[l]
    <3> DEFINE a == g(h - 1)
               b == ss[h]
               c == g(i)
    <3>1. a \in Seq(S) /\ b \in Seq(S) /\ c \in Seq(S) /\ g(h) = a \o b
          /\ Len(c) <= Len(a) /\ \A l \in 1 .. Len(c) : a[l] = c[l]
      BY <2>3, <2>5, <2>6
    <3> HIDE DEF a, b, c
    <3>2. Len(c) <= Len(a \o b) /\ \A l \in 1 .. Len(c) : (a \o b)[l] = c[l]
      BY <3>1
    <3> QED BY <3>1, <3>2 DEF c
  <2>8. Begins(k)
    BY <2>1, <2>7
  <2> HIDE DEF Begins
  <2> QED BY <2>2, <2>8
<1>5. T = 0 .. n - i
  <2> HIDE DEF T
  <2>1. T \in SUBSET (0 .. n - i)
    BY DEF T
  <2>2. n - i \in Nat
    BY <1>0, <1>2
  <2> QED BY <1>3, <1>4, <2>1, <2>2, UpTo
<1>6. j - i \in 0 .. n - i /\ i + (j - i) = j
  BY <1>0, <1>2
<1>7. Begins(j - i)
  <2> HIDE DEF Begins
  <2> QED BY <1>5, <1>6
<1> QED BY <1>6, <1>7 DEF g

\* An item's bytes follow those of the items before it.
LEMMA ItemAt ==
    ASSUME NEW S, NEW ss \in Seq(Seq(S)), NEW i \in 1 .. Len(ss)
    PROVE  LET e == Len(FirstOf(ss, i - 1))
           IN /\ e \in Nat /\ ss[i] \in Seq(S) /\ FlattenSeq(ss) \in Seq(S)
              /\ Len(FirstOf(ss, i)) = e + Len(ss[i])
              /\ e + Len(ss[i]) <= Len(FlattenSeq(ss))
              /\ \A k \in 1 .. Len(ss[i]) : FlattenSeq(ss)[e + k] = ss[i][k]
<1> DEFINE n == Len(ss)
           a == FirstOf(ss, i - 1)
           b == FirstOf(ss, i)
           c == FlattenSeq(ss)
           x == ss[i]
<1>0. n \in Nat
  <2> DEFINE X == Seq(S)
  <2>1. ss \in Seq(X)
    OBVIOUS
  <2> HIDE DEF X
  <2> QED BY <2>1
<1>1. i \in 0 .. n /\ i - 1 \in 0 .. n /\ n \in i .. n
  <2> HIDE DEF n
  <2>1. i \in 1 .. n
    BY DEF n
  <2> QED BY <1>0, <2>1
<1>2. a \in Seq(S) /\ b \in Seq(S) /\ x \in Seq(S) /\ b = a \o x /\ FirstOf(ss, n) = c
  <2>1. \A k \in 0 .. n : FirstOf(ss, k) \in Seq(S)
    BY FirstSteps
  <2>2. x \in Seq(S) /\ b = a \o x /\ FirstOf(ss, n) = c
    BY FirstSteps
  <2> QED BY <1>1, <2>1, <2>2
<1>3. c \in Seq(S)
  BY FlattenSound
<1>4. Len(b) <= Len(c) /\ \A k \in 1 .. Len(b) : c[k] = b[k]
  <2>1. Len(FirstOf(ss, i)) <= Len(FirstOf(ss, n))
        /\ \A k \in 1 .. Len(FirstOf(ss, i)) : FirstOf(ss, n)[k] = FirstOf(ss, i)[k]
    BY <1>1, FirstBegins
  <2> QED BY <1>2, <2>1
<1> HIDE DEF a, b, c, x, n
<1>5. Len(a) \in Nat /\ Len(x) \in Nat /\ Len(b) = Len(a) + Len(x)
  BY <1>2
<1>6. \A k \in 1 .. Len(x) : b[Len(a) + k] = x[k]
  BY <1>2
<1>7. \A k \in 1 .. Len(x) : Len(a) + k \in 1 .. Len(b)
  BY <1>5
<1>8. \A k \in 1 .. Len(x) : c[Len(a) + k] = x[k]
  BY <1>4, <1>6, <1>7
<1> QED BY <1>2, <1>3, <1>4, <1>5, <1>8 DEF a, b, c, x

--------------------------------------------------------------------------------
(* The inductive invariant.                                                  *)
Sound ==
    /\ side \in Sides
    /\ stream \in Seq(Frames[side] \cup Noise \cup Damaged)
    /\ pos \in 0 .. Len(Bytes)
    /\ bursts \in Nat

\* What has been dispatched is the stream's first frames; what is buffered follows it.
Cut ==
    /\ Len(got) \in 0 .. Len(stream)
    /\ got = SubSeq(stream, 1, Len(got))
    /\ EndOf(Len(got)) <= pos
    /\ fifo = SubSeq(Bytes, EndOf(Len(got)) + 1, pos)

\* No frame waits that is all there, unless frames came together.
Prompt == bursts = 0 => Len(got) = Received(pos)

FramingInv ==
    /\ Sound
    /\ Clean /\ ~dropped => Cut /\ Prompt

--------------------------------------------------------------------------------
(* Parts of sequences.                                                       *)
\* Sequences with the same items are the same.
LEMMA SameSeq ==
    ASSUME NEW S, NEW s \in Seq(S), NEW t \in Seq(S), Len(s) = Len(t),
           \A i \in 1 .. Len(s) : s[i] = t[i]
    PROVE  s = t
OBVIOUS

\* A part of a sequence.
LEMMA PartIs ==
    ASSUME NEW S, NEW s \in Seq(S), NEW a \in Nat, NEW b \in Nat, a <= b, b <= Len(s)
    PROVE  /\ SubSeq(s, a + 1, b) \in Seq(S) /\ Len(SubSeq(s, a + 1, b)) = b - a
           /\ \A i \in 1 .. b - a : SubSeq(s, a + 1, b)[i] = s[a + i]
<1>1. Len(SubSeq(s, a + 1, b)) = b - a
  OBVIOUS
<1>2. SubSeq(s, a + 1, b) \in Seq(S)
  OBVIOUS
<1>3. \A i \in 1 .. b - a : SubSeq(s, a + 1, b)[i] = s[a + i]
  OBVIOUS
<1> QED BY <1>1, <1>2, <1>3

\* Parts that follow each other.
LEMMA PartsJoin ==
    ASSUME NEW S, NEW s \in Seq(S), NEW a \in Nat, NEW b \in Nat, NEW c \in Nat,
           a <= b, b <= c, c <= Len(s)
    PROVE  SubSeq(s, a + 1, b) \o SubSeq(s, b + 1, c) = SubSeq(s, a + 1, c)
<1> DEFINE p == SubSeq(s, a + 1, b)
           q == SubSeq(s, b + 1, c)
           r == SubSeq(s, a + 1, c)
<1>1. p \in Seq(S) /\ Len(p) = b - a /\ \A i \in 1 .. b - a : p[i] = s[a + i]
  BY PartIs
<1>2. q \in Seq(S) /\ Len(q) = c - b /\ \A i \in 1 .. c - b : q[i] = s[b + i]
  BY PartIs
<1>3. r \in Seq(S) /\ Len(r) = c - a /\ \A i \in 1 .. c - a : r[i] = s[a + i]
  <2>1. a <= c
    OBVIOUS
  <2> QED BY <2>1, PartIs
<1> HIDE DEF p, q, r
<1>4. p \o q \in Seq(S) /\ Len(p \o q) = c - a
  <2>1. \A x, y \in Seq(S) : x \o y \in Seq(S) /\ Len(x \o y) = Len(x) + Len(y)
    OBVIOUS
  <2>2. Len(p) + Len(q) = c - a
    BY <1>1, <1>2
  <2> QED BY <1>1, <1>2, <2>1, <2>2
<1>5. ASSUME NEW i \in 1 .. c - a
      PROVE  (p \o q)[i] = r[i]
  <2>1. r[i] = s[a + i]
    BY <1>3
  <2>2. CASE i <= b - a
    <3>1. i \in 1 .. b - a
      BY <2>2
    <3>2. (p \o q)[i] = p[i]
      BY <1>1, <1>2, <3>1
    <3> QED BY <1>1, <2>1, <3>1, <3>2
  <2>3. CASE ~(i <= b - a)
    <3>1. PICK l : l = i - (b - a)
      OBVIOUS
    <3>2. l \in 1 .. c - b /\ b + l = a + i
      BY <2>3, <3>1
    <3>3. (p \o q)[i] = q[l]
      <4>1. Len(p) < i /\ i <= Len(p) + Len(q) /\ i - Len(p) = l
        BY <1>1, <1>2, <2>3, <3>1
      <4>2. (p \o q)[i] = q[i - Len(p)]
        BY <1>1, <1>2, <4>1
      <4> QED BY <4>1, <4>2
    <3> QED BY <1>2, <2>1, <3>2, <3>3
  <2> QED BY <2>2, <2>3
<1>6. p \o q = r
  BY <1>3, <1>4, <1>5, SameSeq
<1> QED BY <1>6 DEF p, q, r

\* Parts of a part.
LEMMA PartOfPart ==
    ASSUME NEW S, NEW s \in Seq(S), NEW a \in Nat, NEW b \in Nat, NEW c \in Nat,
           a <= b, b <= c, c <= Len(s)
    PROVE  LET t == SubSeq(s, a + 1, c)
           IN /\ SubSeq(t, (b - a) + 1, Len(t)) = SubSeq(s, b + 1, c)
              /\ SubSeq(t, 1, b - a) = SubSeq(s, a + 1, b)
<1> DEFINE t == SubSeq(s, a + 1, c)
           d == b - a
           x == SubSeq(t, d + 1, Len(t))
           y == SubSeq(t, 0 + 1, d)
<1>1. t \in Seq(S) /\ Len(t) = c - a /\ \A i \in 1 .. c - a : t[i] = s[a + i]
  <2>1. a <= c
    OBVIOUS
  <2> QED BY <2>1, PartIs
<1> HIDE DEF t
<1>2. d \in Nat /\ d <= Len(t) /\ Len(t) \in Nat /\ a + d = b /\ Len(t) - d = c - b
      /\ c - b \in Nat
  BY <1>1
<1> HIDE DEF d
<1>3. x \in Seq(S) /\ Len(x) = Len(t) - d /\ \A i \in 1 .. Len(t) - d : x[i] = t[d + i]
  BY <1>1, <1>2, PartIs
<1>4. y \in Seq(S) /\ Len(y) = d - 0 /\ \A i \in 1 .. d - 0 : y[i] = t[0 + i]
  BY <1>1, <1>2, PartIs
<1>5. x = SubSeq(s, b + 1, c)
  <2> DEFINE z == SubSeq(s, b + 1, c)
  <2>1. z \in Seq(S) /\ Len(z) = c - b /\ \A i \in 1 .. c - b : z[i] = s[b + i]
    BY PartIs
  <2> HIDE DEF x, z
  <2>2. ASSUME NEW i \in 1 .. Len(x)
        PROVE  x[i] = z[i]
    <3>1. PICK l : l = d + i
      OBVIOUS
    <3>2. l \in 1 .. c - a /\ a + l = b + i /\ i \in 1 .. c - b
      BY <1>1, <1>2, <1>3, <3>1
    <3>3. x[i] = t[l] /\ t[l] = s[a + l] /\ z[i] = s[b + i]
      BY <1>1, <1>2, <1>3, <2>1, <3>1, <3>2
    <3> QED BY <3>2, <3>3
  <2>3. x = z
    BY <1>2, <1>3, <2>1, <2>2, SameSeq
  <2> QED BY <2>3 DEF z
<1>6. y = SubSeq(s, a + 1, b)
  <2> DEFINE z == SubSeq(s, a + 1, b)
  <2>1. z \in Seq(S) /\ Len(z) = b - a /\ \A i \in 1 .. b - a : z[i] = s[a + i]
    BY PartIs
  <2> HIDE DEF y, z
  <2>2. ASSUME NEW i \in 1 .. Len(y)
        PROVE  y[i] = z[i]
    <3>1. i \in Nat /\ 1 <= i /\ i <= d
      BY <1>2, <1>4
    <3>2. i \in 1 .. c - a /\ i \in 1 .. b - a
      BY <1>1, <1>2, <3>1 DEF d
    <3>3. i \in 1 .. d - 0 /\ 0 + i = i
      BY <1>2, <3>1
    <3>4. y[i] = t[i] /\ t[i] = s[a + i] /\ z[i] = s[a + i]
      BY <1>1, <1>4, <2>1, <3>2, <3>3
    <3> QED BY <3>4
  <2>3. Len(y) = Len(z)
    BY <1>2, <1>4, <2>1 DEF d
  <2>4. y \in Seq(S) /\ z \in Seq(S)
    BY <1>4, <2>1
  <2>5. y = z
    BY <2>2, <2>3, <2>4, SameSeq
  <2> QED BY <2>5 DEF z
<1> QED BY <1>5, <1>6 DEF d, t

--------------------------------------------------------------------------------
(* The stream, item by item.                                                 *)
\* A stream is a sequence of sequences of bytes.
LEMMA StreamIs ==
    ASSUME Sound
    PROVE  stream \in Seq(Seq(Byte)) /\ Len(stream) \in Nat /\ Bytes \in Seq(Byte)
<1> DEFINE X == Frames[side] \cup Noise \cup Damaged
           U == Seq(Byte)
<1>1. stream \in Seq(X)
  BY DEF Sound
<1>2. X \subseteq U
  <2>1. side \in Sides
    BY DEF Sound
  <2>2. \A f \in Frames[side] : f \in U
    BY <2>1, FrameIs
  <2> QED BY <2>2, FramingAssumption
<1> HIDE DEF X, U
<1>3. stream \in Seq(U) /\ Len(stream) \in Nat
  <2>1. Len(stream) \in Nat /\ stream \in [1 .. Len(stream) -> X]
    BY <1>1
  <2>2. stream \in [1 .. Len(stream) -> U]
    BY <1>2, <2>1
  <2> QED BY <2>1, <2>2
<1>4. stream \in Seq(Seq(Byte))
  BY <1>3 DEF U
<1> QED BY <1>3, <1>4, FlattenSound DEF Bytes

\* Where items end.
LEMMA EndIs ==
    ASSUME Sound
    PROVE  /\ EndOf(0) = 0 /\ EndOf(Len(stream)) = Len(Bytes) /\ Len(Bytes) \in Nat
           /\ \A i \in 0 .. Len(stream) : EndOf(i) \in Nat
           /\ \A i \in 0 .. Len(stream) : \A j \in i .. Len(stream) : EndOf(i) <= EndOf(j)
<1>1. stream \in Seq(Seq(Byte)) /\ Bytes \in Seq(Byte)
  BY StreamIs
<1>2. \A i : EndOf(i) = Len(FirstOf(stream, i))
  BY DEF EndOf, FirstOf
<1>3. FirstOf(stream, 0) = << >> /\ FirstOf(stream, Len(stream)) = Bytes
      /\ \A i \in 0 .. Len(stream) : FirstOf(stream, i) \in Seq(Byte)
  BY <1>1, FirstSteps DEF Bytes
<1>4. EndOf(0) = 0 /\ EndOf(Len(stream)) = Len(Bytes)
  BY <1>2, <1>3
<1>5. \A i \in 0 .. Len(stream) : EndOf(i) \in Nat
  BY <1>2, <1>3
<1>6. \A i \in 0 .. Len(stream) : \A j \in i .. Len(stream) : EndOf(i) <= EndOf(j)
  BY <1>1, <1>2, FirstBegins
<1>7. Len(Bytes) \in Nat
  BY <1>1
<1> QED BY <1>4, <1>5, <1>6, <1>7

\* An item's bytes follow those of the items before it.
LEMMA ItemIs ==
    ASSUME Sound, NEW i \in 1 .. Len(stream)
    PROVE  /\ EndOf(i - 1) \in Nat /\ stream[i] \in Seq(Byte) /\ Bytes \in Seq(Byte)
           /\ EndOf(i) = EndOf(i - 1) + Len(stream[i])
           /\ EndOf(i) <= Len(Bytes)
           /\ \A k \in 1 .. Len(stream[i]) : Bytes[EndOf(i - 1) + k] = stream[i][k]
<1>1. stream \in Seq(Seq(Byte)) /\ Bytes \in Seq(Byte)
  BY StreamIs
<1> QED BY <1>1, ItemAt DEF EndOf, FirstOf, Bytes

\* In a clean stream each item is a frame.
LEMMA FramesGrow ==
    ASSUME Sound, Clean, NEW i \in 1 .. Len(stream)
    PROVE  /\ stream[i] \in Frames[side] /\ Len(stream[i]) \in Nat /\ 3 <= Len(stream[i])
           /\ EndOf(i - 1) < EndOf(i)
<1>1. side \in Sides /\ stream[i] \in Frames[side]
  <2>1. i \in DOMAIN stream
    BY DEF Sound
  <2> QED BY <2>1 DEF Sound, Clean, IsFrame
<1>2. stream[i] \in Seq(Byte) /\ 3 <= Len(stream[i])
  BY <1>1, FrameIs
<1>3. Len(stream[i]) \in Nat
  BY <1>2
<1>4. EndOf(i - 1) \in Nat /\ EndOf(i) = EndOf(i - 1) + Len(stream[i])
  BY ItemIs
<1> QED BY <1>1, <1>2, <1>3, <1>4

--------------------------------------------------------------------------------
(* How many frames have been received.                                       *)
\* Frames that end by p have been received by p ...
LEMMA ReceivedLeast ==
    ASSUME Sound, Clean, NEW m \in 0 .. Len(stream), NEW p \in Nat, EndOf(m) <= p
    PROVE  Received(p) \in Nat /\ m <= Received(p)
<1> DEFINE n == Len(stream)
           R == {i \in DOMAIN stream : IsFrame(stream[i]) /\ EndOf(i) <= p}
<1>0. m \in 0 .. n
  OBVIOUS
<1>1. n \in Nat /\ DOMAIN stream = 1 .. n
  BY StreamIs
<1> HIDE DEF n
<1>2. \A i \in 1 .. n : IsFrame(stream[i])
  BY <1>1 DEF Clean
<1>3. ASSUME NEW i \in 1 .. m
      PROVE  i \in R
  <2>1. i \in 1 .. n /\ i \in 0 .. n /\ m \in i .. n /\ m \in 0 .. n
    BY <1>0, <1>1
  <2>2. EndOf(i) <= EndOf(m) /\ EndOf(i) \in Nat /\ EndOf(m) \in Nat
    BY <2>1, EndIs DEF n
  <2>3. EndOf(i) <= p
    BY <2>2
  <2> QED BY <1>1, <1>2, <2>1, <2>3
<1>4. R \subseteq 1 .. n
  BY <1>1
<1>5. IsFiniteSet(1 .. n) /\ IsFiniteSet(1 .. m) /\ Cardinality(1 .. m) = m
  <2>1. m \in Nat /\ m - 1 + 1 = m
    BY <1>0, <1>1
  <2>2. IsFiniteSet(1 .. n)
    BY <1>1, FS_Interval
  <2>3. IsFiniteSet(1 .. m) /\ Cardinality(1 .. m) = m
    BY <2>1, FS_Interval
  <2> QED BY <2>2, <2>3
<1> HIDE DEF R
<1>6. IsFiniteSet(R)
  BY <1>4, <1>5, FS_Subset
<1>7. Cardinality(R) \in Nat /\ Cardinality(1 .. m) <= Cardinality(R)
  BY <1>3, <1>6, FS_CardinalityType, FS_Subset
<1> QED BY <1>5, <1>7 DEF Received, R

\* ... and no others.
LEMMA ReceivedIs ==
    ASSUME Sound, Clean, NEW m \in 0 .. Len(stream), NEW p \in Nat, EndOf(m) <= p,
           m # Len(stream) => p < EndOf(m + 1)
    PROVE  Received(p) = m
<1> DEFINE n == Len(stream)
           R == {i \in DOMAIN stream : IsFrame(stream[i]) /\ EndOf(i) <= p}
<1>0. m \in 0 .. n
  OBVIOUS
<1>1. n \in Nat /\ DOMAIN stream = 1 .. n
  BY StreamIs
<1> HIDE DEF n
<1>2. \A i \in 1 .. n : IsFrame(stream[i])
  BY <1>1 DEF Clean
<1>3. ASSUME NEW i \in 1 .. n
      PROVE  EndOf(i) <= p <=> i <= m
  <2>1. EndOf(i) \in Nat /\ EndOf(m) \in Nat
    <3>1. i \in 0 .. n
      BY <1>1
    <3> QED BY <3>1, EndIs DEF n
  <2>2. CASE i <= m
    <3>1. i \in 0 .. n /\ m \in i .. n
      BY <1>0, <1>1, <2>2
    <3>2. EndOf(i) <= EndOf(m)
      BY <3>1, EndIs DEF n
    <3> QED BY <2>1, <2>2, <3>2
  <2>3. CASE ~(i <= m)
    <3>1. m + 1 \in 0 .. n /\ i \in (m + 1) .. n /\ m # n
      BY <1>0, <1>1, <2>3
    <3>2. EndOf(m + 1) <= EndOf(i) /\ EndOf(m + 1) \in Nat
      BY <3>1, EndIs DEF n
    <3>3. p < EndOf(m + 1)
      BY <3>1 DEF n
    <3> QED BY <2>1, <2>3, <3>2, <3>3
  <2> QED BY <2>2, <2>3
<1>4. R = 1 .. m
  BY <1>0, <1>1, <1>2, <1>3
<1>5. Cardinality(1 .. m) = m
  <2>1. m \in Nat /\ m - 1 + 1 = m
    BY <1>0, <1>1
  <2> QED BY <2>1, FS_Interval
<1> QED BY <1>4, <1>5 DEF Received

--------------------------------------------------------------------------------

\* The invariant holds at first.
LEMMA FramingInitially == Init => FramingInv
<1> SUFFICES ASSUME Init PROVE FramingInv
  OBVIOUS
<1>1. /\ side \in Sides /\ pos = 0 /\ fifo = << >> /\ got = << >>
      /\ dropped = FALSE /\ bursts = 0
  BY DEF Init
<1>2. stream \in Seq(Frames[side] \cup Noise \cup Damaged)
  <2> DEFINE X == Frames[side] \cup Noise \cup Damaged
  <2>1. PICK n \in 1 .. MaxItems : stream \in [1 .. n -> X]
    BY DEF Init
  <2> HIDE DEF X
  <2>2. n \in Nat
    OBVIOUS
  <2>3. stream \in Seq(X)
    BY <2>1, <2>2
  <2> QED BY <2>3 DEF X
<1>3. Sound
  <2>1. FlattenSeq(stream) \in Seq(Byte)
    <3> DEFINE X == Frames[side] \cup Noise \cup Damaged
               U == Seq(Byte)
    <3>1. X \subseteq U
      <4>1. \A f \in Frames[side] : f \in U
        BY <1>1, FrameIs
      <4> QED BY <4>1, FramingAssumption
    <3>2. stream \in Seq(X)
      BY <1>2
    <3> HIDE DEF X, U
    <3>3. stream \in Seq(U)
      <4>1. Len(stream) \in Nat /\ stream \in [1 .. Len(stream) -> X]
        BY <3>2
      <4>2. stream \in [1 .. Len(stream) -> U]
        BY <3>1, <4>1
      <4> QED BY <4>1, <4>2
    <3>4. stream \in Seq(Seq(Byte))
      BY <3>3 DEF U
    <3> QED BY <3>4, FlattenSound
  <2>2. 0 \in 0 .. Len(Bytes)
    BY <2>1 DEF Bytes
  <2> QED BY <1>1, <1>2, <2>2 DEF Sound
<1>4. EndOf(0) = 0 /\ Len(stream) \in Nat /\ Bytes \in Seq(Byte) /\ Len(Bytes) \in Nat
  BY <1>3, EndIs, StreamIs
<1>5. Cut
  <2>1. Len(got) = 0 /\ 0 \in 0 .. Len(stream)
    BY <1>1, <1>4
  <2>2. SubSeq(stream, 1, 0) = << >>
    BY <1>3, StreamIs, PrefixIs
  <2>3. SubSeq(Bytes, 0 + 1, 0) = << >>
    BY <1>4
  <2> QED BY <1>1, <1>4, <2>1, <2>2, <2>3 DEF Cut
<1>6. Clean => Prompt
  <2> SUFFICES ASSUME Clean PROVE Len(got) = Received(pos)
    BY DEF Prompt
  <2>1. 0 # Len(stream) => 0 < EndOf(0 + 1)
    <3> SUFFICES ASSUME 0 # Len(stream) PROVE EndOf(0) < EndOf(1)
      BY <1>4
    <3>1. 1 \in 1 .. Len(stream)
      BY <1>4
    <3>2. EndOf(1 - 1) < EndOf(1)
      BY <1>3, <3>1, FramesGrow
    <3> QED BY <3>2
  <2>2. 0 \in 0 .. Len(stream) /\ 0 \in Nat /\ EndOf(0) <= 0
    BY <1>4
  <2>3. Received(0) = 0
    BY <1>3, <2>1, <2>2, ReceivedIs
  <2> QED BY <1>1, <2>3
<1> QED BY <1>1, <1>3, <1>5, <1>6 DEF FramingInv

\* A read keeps the stream.
LEMMA StreamStays ==
    ASSUME side' = side, stream' = stream
    PROVE  /\ Bytes' = Bytes /\ Clean' = Clean
           /\ \A i : EndOf(i)' = EndOf(i)
           /\ \A p : Received(p)' = Received(p)
<1>1. Bytes' = Bytes
  BY DEF Bytes
<1>2. Clean' = Clean
  BY DEF Clean, IsFrame
<1>3. \A i : EndOf(i)' = EndOf(i)
  BY DEF EndOf
<1>4. \A p : Received(p)' = Received(p)
  BY <1>3 DEF Received, IsFrame
<1> QED BY <1>1, <1>2, <1>3, <1>4

LEMMA SoundStays ==
    ASSUME Sound, NEW k \in 1 .. Len(Bytes) - pos, Recv(k)
    PROVE  Sound'
<1>1. side' = side /\ stream' = stream /\ pos' = pos + k /\ bursts' \in {bursts, bursts + 1}
  BY DEF Recv
<1>2. Bytes' = Bytes
  BY <1>1, StreamStays
<1>3. Len(Bytes) \in Nat
  BY EndIs
<1>4. pos + k \in 0 .. Len(Bytes) /\ bursts' \in Nat
  BY <1>1, <1>3 DEF Sound
<1> QED BY <1>1, <1>2, <1>4 DEF Sound

\* What a read without loss leaves to be checked.
LEMMA ReadKeeps ==
    ASSUME Sound, NEW e \in Nat, e <= pos, fifo = SubSeq(Bytes, e + 1, pos),
           NEW k \in 1 .. Len(Bytes) - pos, Recv(k), ~dropped'
    PROVE  LET chunk == SubSeq(Bytes, pos + 1, pos + k)
           IN Put(fifo, chunk) = SubSeq(Bytes, e + 1, pos + k)
<1> DEFINE n == Len(Bytes)
           chunk == SubSeq(Bytes, pos + 1, pos + k)
<1>1. Bytes \in Seq(Byte) /\ n \in Nat /\ pos \in Nat /\ k \in Nat /\ pos + k <= n
  <2>1. Bytes \in Seq(Byte) /\ n \in Nat
    BY StreamIs, EndIs
  <2> HIDE DEF n
  <2>2. pos \in 0 .. n /\ k \in 1 .. n - pos
    BY DEF Sound, n
  <2> QED BY <2>1, <2>2
<1>2. e \in Nat /\ e <= pos /\ fifo = SubSeq(Bytes, e + 1, pos)
  OBVIOUS
<1>3. k <= Size - Len(fifo) /\ Size - Len(fifo) \in Int
  <2>1. Len(fifo) = pos - e /\ Size \in Nat
    <3>1. pos <= Len(Bytes)
      BY <1>1
    <3>2. Len(SubSeq(Bytes, e + 1, pos)) = pos - e
      BY <1>1, <1>2, <3>1, PartIs
    <3> QED BY <1>2, <3>2, FramingAssumption
  <2>2. ~(k > Size - Len(fifo))
    BY DEF Recv
  <2> QED BY <1>1, <1>2, <2>1, <2>2
<1>4. chunk \in Seq(Byte) /\ Len(chunk) = k
  <2>1. pos <= pos + k /\ pos + k \in Nat /\ pos + k <= Len(Bytes)
    BY <1>1
  <2>2. Len(chunk) = (pos + k) - pos /\ chunk \in Seq(Byte)
    BY <1>1, <2>1, PartIs
  <2> QED BY <1>1, <2>2
<1> HIDE DEF n, chunk
<1>5. Min2(Len(chunk), Size - Len(fifo)) = Len(chunk)
  BY <1>1, <1>3, <1>4 DEF Min2
<1>6. SubSeq(chunk, 1, Len(chunk)) = chunk
  BY <1>4, PrefixIs
<1>7. Put(fifo, chunk) = SubSeq(Bytes, e + 1, pos) \o SubSeq(Bytes, pos + 1, pos + k)
  BY <1>2, <1>5, <1>6 DEF Put, chunk
<1>8. pos <= pos + k /\ pos + k \in Nat /\ pos + k <= Len(Bytes)
  BY <1>1 DEF n
<1>9. SubSeq(Bytes, e + 1, pos) \o SubSeq(Bytes, pos + 1, pos + k) = SubSeq(Bytes, e + 1, pos + k)
  BY <1>1, <1>2, <1>8, PartsJoin
<1> QED BY <1>7, <1>9 DEF chunk

--------------------------------------------------------------------------------
\* A read without loss either waits for the rest of the next frame or dispatches it.
LEMMA ReadCuts ==
    ASSUME Sound, Clean, Cut, NEW k \in 1 .. Len(Bytes) - pos, Recv(k), ~dropped'
    PROVE  LET j == Len(got)
               kept == SubSeq(Bytes, EndOf(j) + 1, pos + k)
           IN /\ j + 1 \in 1 .. Len(stream)
              /\ \/ /\ pos + k < EndOf(j + 1)
                    /\ fifo' = kept /\ got' = got
                 \/ /\ EndOf(j + 1) <= pos + k
                    /\ fifo' = SubSeq(Bytes, EndOf(j + 1) + 1, pos + k)
                    /\ got' = Append(got, stream[j + 1])
<1> DEFINE j == Len(got)
           e == EndOf(j)
           p == pos + k
           n == Len(Bytes)
           kept == SubSeq(Bytes, e + 1, p)
           m == Len(stream)
<1>1. /\ Bytes \in Seq(Byte) /\ n \in Nat /\ p \in Nat /\ p <= n /\ m \in Nat
      /\ pos \in Nat /\ pos < p
  <2>1. Bytes \in Seq(Byte) /\ n \in Nat /\ m \in Nat
    BY StreamIs, EndIs
  <2> HIDE DEF n
  <2>2. pos \in 0 .. n /\ k \in 1 .. n - pos
    BY DEF Sound, n
  <2> QED BY <2>1, <2>2
<1>2. j \in 0 .. m /\ got = SubSeq(stream, 1, j) /\ e <= pos
  BY DEF Cut
<1>3. e \in Nat /\ EndOf(m) = n
  BY <1>2, EndIs
<1>4. \E o \in Check(side, kept) :
          IF o.id = "fault" THEN UNCHANGED got ELSE Take(o)
  <2>1. Put(fifo, SubSeq(Bytes, pos + 1, pos + k)) = kept
    <3>1. e \in Nat /\ e <= pos /\ fifo = SubSeq(Bytes, e + 1, pos)
      BY <1>2, <1>3 DEF Cut
    <3> HIDE DEF e
    <3> QED BY <3>1, ReadKeeps
  <2>2. \E o \in Check(side, Put(fifo, SubSeq(Bytes, pos + 1, pos + k))) :
            IF o.id = "fault"
            THEN status' = "fault" /\ UNCHANGED <<fifo, got>>
            ELSE Take(o) /\ UNCHANGED status
    BY DEF Recv
  <2> HIDE DEF kept
  <2> QED BY <2>1, <2>2
<1> HIDE DEF e, p, n, m, j
<1>5. j # m
  BY <1>1, <1>2, <1>3 DEF e
<1>6. PICK i : i = j + 1
  OBVIOUS
<1>7. i \in 1 .. m /\ i - 1 = j
  BY <1>1, <1>2, <1>5, <1>6
<1> DEFINE f == stream[i]
<1>8. /\ side \in Sides /\ f \in Frames[side] /\ Len(f) \in Nat /\ 3 <= Len(f)
      /\ f \in Seq(Byte)
      /\ EndOf(i) = e + Len(f) /\ EndOf(i) <= n
      /\ \A l \in 1 .. Len(f) : Bytes[e + l] = f[l]
  <2>1. f \in Frames[side] /\ Len(f) \in Nat /\ 3 <= Len(f)
    BY <1>7, FramesGrow DEF m
  <2>2. f \in Seq(Byte) /\ EndOf(i) = EndOf(i - 1) + Len(f) /\ EndOf(i) <= Len(Bytes)
        /\ \A l \in 1 .. Len(f) : Bytes[EndOf(i - 1) + l] = f[l]
    BY <1>7, ItemIs DEF m
  <2>3. EndOf(i - 1) = e
    BY <1>7 DEF e
  <2>4. side \in Sides
    BY DEF Sound
  <2> QED BY <2>1, <2>2, <2>3, <2>4 DEF n
<1> HIDE DEF f
<1>9. kept \in Seq(Byte) /\ Len(kept) = p - e /\ \A l \in 1 .. p - e : kept[l] = Bytes[e + l]
  <2>1. e <= p /\ p <= Len(Bytes)
    BY <1>1, <1>2, <1>3 DEF n
  <2> QED BY <1>1, <1>3, <2>1, PartIs
<1>10. kept # << >> /\ \A l \in 1 .. Len(kept) : l <= Len(f) => kept[l] = f[l]
  <2> HIDE DEF kept
  <2>1. p - e \in Nat /\ p - e # 0
    BY <1>1, <1>2, <1>3
  <2>2. kept # << >>
    BY <1>9, <2>1
  <2>3. ASSUME NEW l \in 1 .. Len(kept), l <= Len(f)
        PROVE  kept[l] = f[l]
    <3>1. l \in 1 .. p - e /\ l \in 1 .. Len(f)
      BY <1>8, <1>9, <2>1, <2>3
    <3> QED BY <1>8, <1>9, <3>1
  <2> QED BY <2>2, <2>3
<1>11. Check(side, kept) = IF Len(kept) < Len(f) THEN {Out(kept, 0, "half")}
                           ELSE {Out(kept, Len(f), IdOf(side))}
  BY <1>8, <1>9, <1>10, CheckOfFrame
<1>12. j + 1 \in 1 .. Len(stream)
  BY <1>6, <1>7 DEF m
<1>13. CASE Len(kept) < Len(f)
  <2> DEFINE o == Out(kept, 0, "half")
  <2>1. o.rest = kept /\ o.ret = 0 /\ o.id = "half"
    BY DEF Out
  <2>2. Check(side, kept) = {o}
    BY <1>11, <1>13
  <2> HIDE DEF o, kept
  <2>3. Take(o)
    BY <1>4, <2>1, <2>2
  <2>4. Min2(o.ret, Len(o.rest)) = 0
    <3>1. Len(kept) \in Nat
      BY <1>9
    <3> QED BY <2>1, <3>1 DEF Min2
  <2>5. fifo' = SubSeq(kept, 0 + 1, Len(kept)) /\ got' = got
    BY <2>1, <2>3, <2>4 DEF Take
  <2>6. SubSeq(kept, 0 + 1, Len(kept)) = kept
    BY <1>9, PrefixIs
  <2>7. p < EndOf(i)
    BY <1>1, <1>3, <1>8, <1>9, <1>13
  <2> QED BY <1>6, <1>12, <2>5, <2>6, <2>7 DEF kept, e, p, j
<1>14. CASE ~(Len(kept) < Len(f))
  <2> DEFINE o == Out(kept, Len(f), IdOf(side))
  <2>1. o.rest = kept /\ o.ret = Len(f) /\ o.id = IdOf(side)
    BY DEF Out
  <2>2. o.id \in {"business", "message"} /\ o.id # "fault"
    BY <2>1 DEF IdOf
  <2>3. Check(side, kept) = {o}
    BY <1>11, <1>14
  <2> HIDE DEF o, kept
  <2>4. Take(o)
    BY <1>4, <2>2, <2>3
  <2>5. Min2(o.ret, Len(o.rest)) = Len(f)
    <3>1. Len(kept) \in Nat
      BY <1>9
    <3> QED BY <1>8, <1>14, <2>1, <3>1 DEF Min2
  <2>6. fifo' = SubSeq(kept, Len(f) + 1, Len(kept)) /\ got' = Append(got, SubSeq(kept, 1, Len(f)))
    BY <2>1, <2>2, <2>4, <2>5 DEF Take
  <2>7. EndOf(i) <= p /\ EndOf(i) \in Nat /\ e <= EndOf(i) /\ EndOf(i) - e = Len(f)
    BY <1>1, <1>3, <1>8, <1>9, <1>14
  <2>8. /\ SubSeq(kept, (EndOf(i) - e) + 1, Len(kept)) = SubSeq(Bytes, EndOf(i) + 1, p)
        /\ SubSeq(kept, 1, EndOf(i) - e) = SubSeq(Bytes, e + 1, EndOf(i))
    <3>1. p <= Len(Bytes)
      BY <1>1 DEF n
    <3>2. PICK b : b = EndOf(i)
      OBVIOUS
    <3>3. b \in Nat /\ e \in Nat /\ p \in Nat /\ e <= b /\ b <= p /\ Bytes \in Seq(Byte)
      BY <1>1, <1>3, <2>7, <3>2
    <3>4. LET t == SubSeq(Bytes, e + 1, p)
          IN /\ SubSeq(t, (b - e) + 1, Len(t)) = SubSeq(Bytes, b + 1, p)
             /\ SubSeq(t, 1, b - e) = SubSeq(Bytes, e + 1, b)
      BY <3>1, <3>3, PartOfPart
    <3> QED BY <3>2, <3>4 DEF kept
  <2>9. SubSeq(Bytes, e + 1, EndOf(i)) = f
    <3> DEFINE g == SubSeq(Bytes, e + 1, EndOf(i))
    <3>1. EndOf(i) <= Len(Bytes)
      BY <1>8 DEF n
    <3>2. g \in Seq(Byte) /\ Len(g) = EndOf(i) - e
          /\ \A l \in 1 .. EndOf(i) - e : g[l] = Bytes[e + l]
      BY <1>1, <1>3, <2>7, <3>1, PartIs
    <3> HIDE DEF g
    <3>3. Len(g) = Len(f) /\ \A l \in 1 .. Len(g) : g[l] = f[l]
      BY <1>8, <2>7, <3>2
    <3>4. g = f
      BY <1>8, <3>2, <3>3, SameSeq
    <3> QED BY <3>4 DEF g
  <2>10. fifo' = SubSeq(Bytes, EndOf(i) + 1, p) /\ got' = Append(got, f)
    BY <2>6, <2>7, <2>8, <2>9
  <2> QED BY <1>6, <1>12, <2>7, <2>10 DEF e, p, j, f
<1> QED BY <1>13, <1>14

--------------------------------------------------------------------------------

\* A read keeps the invariant.
LEMMA RecvSound ==
    ASSUME FramingInv, NEW k \in 1 .. Len(Bytes) - pos, Recv(k)
    PROVE  FramingInv'
<1>1. Sound /\ Sound'
  BY SoundStays DEF FramingInv
<1>2. SUFFICES ASSUME Clean', ~dropped'
               PROVE  Cut' /\ Prompt'
  BY <1>1 DEF FramingInv
<1>3. /\ side' = side /\ stream' = stream /\ pos' = pos + k /\ (dropped => dropped')
      /\ bursts' = IF Received(pos + k) > Received(pos) + 1 THEN bursts + 1 ELSE bursts
  BY DEF Recv
<1>4. /\ Bytes' = Bytes /\ Clean' = Clean /\ \A i : EndOf(i)' = EndOf(i)
      /\ \A p : Received(p)' = Received(p)
  BY <1>3, StreamStays
<1>5. Clean /\ ~dropped /\ Cut /\ Prompt
  BY <1>2, <1>3, <1>4 DEF FramingInv
<1> DEFINE j == Len(got)
           p == pos + k
           n == Len(Bytes)
           m == Len(stream)
           kept == SubSeq(Bytes, EndOf(j) + 1, p)
<1>6. /\ n \in Nat /\ p \in Nat /\ p <= n /\ m \in Nat /\ pos \in Nat /\ pos < p
      /\ bursts \in Nat
  <2>1. n \in Nat /\ m \in Nat
    BY <1>1, StreamIs, EndIs
  <2> HIDE DEF n
  <2>2. pos \in 0 .. n /\ k \in 1 .. n - pos /\ bursts \in Nat
    BY <1>1 DEF Sound, n
  <2> QED BY <2>1, <2>2
<1>7. j \in 0 .. m /\ got = SubSeq(stream, 1, j) /\ EndOf(j) <= pos /\ EndOf(j) \in Nat
  <2>1. j \in 0 .. m /\ got = SubSeq(stream, 1, j) /\ EndOf(j) <= pos
    BY <1>5 DEF Cut
  <2> QED BY <1>1, <2>1, EndIs
<1>8. /\ j + 1 \in 1 .. m
      /\ \/ /\ p < EndOf(j + 1)
            /\ fifo' = kept /\ got' = got
         \/ /\ EndOf(j + 1) <= p
            /\ fifo' = SubSeq(Bytes, EndOf(j + 1) + 1, p)
            /\ got' = Append(got, stream[j + 1])
  BY <1>1, <1>2, <1>5, ReadCuts
<1>9. Received(pos) \in Nat /\ j <= Received(pos)
  BY <1>1, <1>5, <1>6, <1>7, ReceivedLeast
<1> HIDE DEF j, p, n, m, kept
<1>10. pos' = p /\ Received(pos)' = Received(p)
  <2>1. pos' = p
    BY <1>3 DEF p
  <2>2. Received(pos)' = Received(p)
    BY <1>3, <2>1 DEF Received, EndOf, IsFrame
  <2> QED BY <2>1, <2>2
<1>11. CASE p < EndOf(j + 1) /\ fifo' = kept /\ got' = got
  <2>1. Len(got)' = j
    BY <1>11 DEF j
  <2>2. EndOf(j)' = EndOf(j) /\ Bytes' = Bytes /\ j' = j
    BY <1>4, <2>1 DEF j
  <2>3. Cut'
    <3>1. EndOf(Len(got))' = EndOf(j)
      BY <1>3, <2>1 DEF EndOf
    <3>2. EndOf(j) <= p
      BY <1>6, <1>7
    <3> QED BY <1>3, <1>7, <1>10, <1>11, <2>1, <2>2, <3>1, <3>2 DEF Cut, kept, m
  <2>4. Received(p) = j
    <3>1. j \in 0 .. Len(stream) /\ EndOf(j) <= p
      BY <1>6, <1>7 DEF m
    <3> QED BY <1>1, <1>5, <1>6, <1>11, <3>1, ReceivedIs
  <2>5. Prompt'
    BY <1>10, <2>1, <2>4 DEF Prompt
  <2> QED BY <2>3, <2>5
<1>12. CASE /\ EndOf(j + 1) <= p
            /\ fifo' = SubSeq(Bytes, EndOf(j + 1) + 1, p)
            /\ got' = Append(got, stream[j + 1])
  <2>1. PICK i : i = j + 1
    OBVIOUS
  <2>2. i \in 1 .. m /\ i - 1 = j /\ i \in 0 .. m
    BY <1>6, <1>7, <1>8, <2>1
  <2>3. got' = SubSeq(stream, 1, i) /\ Len(got') = i
    <3> DEFINE X == Frames[side] \cup Noise \cup Damaged
    <3>1. stream \in Seq(X)
      BY <1>1 DEF Sound
    <3> HIDE DEF X
    <3>2. SubSeq(stream, 1, i) = Append(SubSeq(stream, 1, i - 1), stream[i])
      BY <2>2, <3>1, PrefixIs DEF m
    <3>3. got' = SubSeq(stream, 1, i)
      BY <1>7, <1>12, <2>1, <2>2, <3>2
    <3>4. Len(SubSeq(stream, 1, i)) = i
      <4>1. i <= Len(stream) /\ i \in Nat /\ 0 \in Nat /\ 0 <= i
        BY <1>6, <2>2 DEF m
      <4>2. Len(SubSeq(stream, 0 + 1, i)) = i - 0
        BY <3>1, <4>1, PartIs
      <4> QED BY <4>1, <4>2
    <3> QED BY <3>3, <3>4
  <2>4. EndOf(Len(got))' = EndOf(i)
    BY <1>3, <2>3 DEF EndOf
  <2>5. Cut'
    <3>1. EndOf(i) <= p
      BY <1>12, <2>1
    <3>2. fifo' = SubSeq(Bytes, EndOf(i) + 1, p)
      BY <1>12, <2>1
    <3> QED BY <1>3, <1>4, <1>10, <2>2, <2>3, <2>4, <3>1, <3>2 DEF Cut, m
  <2>6. Received(p) \in Nat /\ i <= Received(p)
    <3>1. EndOf(i) <= p /\ i \in 0 .. Len(stream)
      BY <1>12, <2>1, <2>2 DEF m
    <3> QED BY <1>1, <1>5, <1>6, <3>1, ReceivedLeast
  <2>7. Prompt'
    <3> SUFFICES ASSUME bursts' = 0 PROVE Len(got') = Received(pos)'
      BY DEF Prompt
    <3>1. bursts = 0 /\ ~(Received(p) > Received(pos) + 1)
      BY <1>3, <1>6 DEF p
    <3>2. Received(pos) = j
      BY <1>5, <3>1 DEF Prompt, j
    <3>3. Received(p) = i
      BY <1>9, <2>1, <2>2, <2>6, <3>1, <3>2
    <3> QED BY <1>10, <2>3, <3>3
  <2> QED BY <2>5, <2>7
<1> QED BY <1>8, <1>11, <1>12

\* Every step keeps the invariant.
LEMMA FramingNext == FramingInv /\ [Next]_vars => FramingInv'
<1> SUFFICES ASSUME FramingInv, [Next]_vars PROVE FramingInv'
  OBVIOUS
<1>1. CASE Next
  BY <1>1, RecvSound DEF Next
<1>2. CASE UNCHANGED vars
  <2>1. side' = side /\ stream' = stream /\ pos' = pos /\ fifo' = fifo /\ got' = got
        /\ dropped' = dropped /\ bursts' = bursts
    BY <1>2 DEF vars
  <2>2. Sound' = Sound
    BY <2>1 DEF Sound, Bytes
  <2>3. Clean' = Clean
    BY <2>1 DEF Clean, IsFrame
  <2>4. Cut' = Cut
    BY <2>1 DEF Cut, EndOf, Bytes
  <2>5. Prompt' = Prompt
    BY <2>1 DEF Prompt, Received, EndOf, IsFrame
  <2> QED BY <2>1, <2>2, <2>3, <2>4, <2>5 DEF FramingInv
<1> QED BY <1>1, <1>2

\* Streams of whole frames, however they are read: what has been dispatched is the
\* stream's first frames, the buffer holds exactly what has been read behind them, and as
\* long as no two frames ended in one read none that is all there waits (event.c:64-92).
THEOREM FramesAreCut == Spec => []FramingInv
BY FramingInitially, FramingNext, PTL DEF Spec

\* Frames cut at their ends lose no byte.
LEMMA CutConserves == FramingInv => BytesConserved
<1> SUFFICES ASSUME FramingInv, Clean, ~dropped
             PROVE  FlattenSeq(got) \o fifo = SubSeq(Bytes, 1, pos)
  BY DEF BytesConserved
<1>1. Sound /\ Cut
  BY DEF FramingInv
<1> DEFINE j == Len(got)
           e == EndOf(j)
           a == FlattenSeq(got)
<1>2. j \in 0 .. Len(stream) /\ got = SubSeq(stream, 1, j) /\ e <= pos
      /\ fifo = SubSeq(Bytes, e + 1, pos)
  BY <1>1 DEF Cut
<1>3. /\ Bytes \in Seq(Byte) /\ Len(stream) \in Nat /\ stream \in Seq(Seq(Byte))
      /\ Len(Bytes) \in Nat /\ pos \in Nat /\ pos <= Len(Bytes)
  <2>1. Bytes \in Seq(Byte) /\ Len(stream) \in Nat /\ stream \in Seq(Seq(Byte))
        /\ Len(Bytes) \in Nat
    BY <1>1, StreamIs, EndIs
  <2> QED BY <1>1, <2>1 DEF Sound
<1>4. e \in Nat
  BY <1>1, <1>2, EndIs
<1>5. a = FirstOf(stream, j) /\ e = Len(a)
  BY <1>2 DEF FirstOf, EndOf
<1>6. a \in Seq(Byte)
  BY <1>2, <1>3, <1>5, FirstSteps
<1>7. Len(a) <= Len(Bytes) /\ \A k \in 1 .. Len(a) : Bytes[k] = a[k]
  <2>1. Len(stream) \in j .. Len(stream)
    BY <1>2, <1>3
  <2>2. FirstOf(stream, Len(stream)) = Bytes
    BY <1>3, FirstSteps DEF Bytes
  <2>3. Len(FirstOf(stream, j)) <= Len(FirstOf(stream, Len(stream)))
        /\ \A k \in 1 .. Len(FirstOf(stream, j)) :
              FirstOf(stream, Len(stream))[k] = FirstOf(stream, j)[k]
    BY <1>2, <1>3, <2>1, FirstBegins
  <2> QED BY <1>5, <2>2, <2>3
<1> HIDE DEF j, e, a
<1>8. a = SubSeq(Bytes, 0 + 1, e)
  <2> DEFINE b == SubSeq(Bytes, 0 + 1, e)
  <2>1. b \in Seq(Byte) /\ Len(b) = e - 0 /\ \A k \in 1 .. e - 0 : b[k] = Bytes[0 + k]
    BY <1>3, <1>4, <1>5, <1>7, PartIs
  <2> HIDE DEF b
  <2>2. Len(a) = Len(b) /\ \A k \in 1 .. Len(a) : a[k] = b[k]
    BY <1>4, <1>5, <1>7, <2>1
  <2>3. a = b
    BY <1>6, <2>1, <2>2, SameSeq
  <2> QED BY <2>3 DEF b
<1>9. SubSeq(Bytes, 0 + 1, e) \o SubSeq(Bytes, e + 1, pos) = SubSeq(Bytes, 0 + 1, pos)
  BY <1>2, <1>3, <1>4, PartsJoin
<1>10. a \o fifo = SubSeq(Bytes, 1, pos)
  <2>1. fifo = SubSeq(Bytes, e + 1, pos)
    BY <1>2
  <2>2. a \o fifo = SubSeq(Bytes, 0 + 1, e) \o SubSeq(Bytes, e + 1, pos)
    BY <1>8, <2>1
  <2>3. 0 + 1 = 1
    OBVIOUS
  <2> QED BY <1>9, <2>2, <2>3
<1> QED BY <1>10 DEF a

\* The bytes dispatched, followed by those buffered, are the bytes read, as long as the
\* buffer has room: no byte of a stream of whole frames is lost, repeated or put into
\* another frame (event.c:64-70,87-92).
THEOREM FramingConservesBytes == Spec => []BytesConserved
BY FramesAreCut, CutConserves, PTL

--------------------------------------------------------------------------------
(* What the encoders write are messages.                                     *)
\* A checksum is a byte.
LEMMA ChecksumSound ==
    ASSUME NEW q, NEW i, NEW n \in Nat
    PROVE  Checksum(q, i, n) \in Byte
<1> DEFINE m == IF n = 0 THEN 1 ELSE n
           bytes == [k \in 1 .. m |-> At(q, i + k - 1)]
           odd(w) == {k \in DOMAIN bytes : (bytes[k] \div w) % 2 = 1}
           parity(w) == Cardinality(odd(w)) % 2
<1>1. IsFiniteSet(1 .. m)
  <2>1. m \in Nat
    OBVIOUS
  <2> HIDE DEF m
  <2> QED BY <2>1, FS_Interval
<1>2. DOMAIN bytes = 1 .. m
  OBVIOUS
<1> HIDE DEF bytes, m
<1>3. \A w : odd(w) \subseteq 1 .. m
  BY <1>2
<1> HIDE DEF odd
<1>4. \A w : Cardinality(odd(w)) \in Nat
  BY <1>1, <1>3, FS_Subset, FS_CardinalityType
<1>5. \A w : parity(w) \in {0, 1}
  <2>1. \A c \in Nat : c % 2 \in {0, 1}
    OBVIOUS
  <2> QED BY <1>4, <2>1
<1>6. Checksum(q, i, n) = 1 * parity(1) + 2 * parity(2) + 4 * parity(4) + 8 * parity(8)
                          + 16 * parity(16) + 32 * parity(32) + 64 * parity(64)
                          + 128 * parity(128)
  BY DEF Checksum, Xor, odd, bytes, m
<1> HIDE DEF parity
<1>7. \A a, b, c, d, e, f, g, h \in {0, 1} :
          1 * a + 2 * b + 4 * c + 8 * d + 16 * e + 32 * f + 64 * g + 128 * h \in 0 .. 255
  OBVIOUS
<1> QED BY <1>5, <1>6, <1>7 DEF Byte

LEMMA ListIs ==
    ASSUME NEW S, NEW n \in Nat, NEW f \in [1 .. n -> S]
    PROVE  f \in Seq(S) /\ Len(f) = n
OBVIOUS

\* r is p, of m items, followed by q, of n.
Joins(r, p, q) == r = p \o q
Joined(r, S, p, m, q, n) ==
    /\ r \in [1 .. m + n -> S]
    /\ \A i \in 1 .. m : r[i] = p[i]
    /\ \A i \in 1 .. n : r[m + i] = q[i]
LEMMA JoinIs ==
    ASSUME NEW S, NEW m \in Nat, NEW n \in Nat,
           NEW p \in [1 .. m -> S], NEW q \in [1 .. n -> S], NEW r, Joins(r, p, q)
    PROVE  Joined(r, S, p, m, q, n)
<1>1. p \in Seq(S) /\ q \in Seq(S) /\ Len(p) = m /\ Len(q) = n
  BY ListIs
<1>2. p \o q \in Seq(S) /\ Len(p \o q) = m + n
  BY <1>1
<1>3. p \o q \in [1 .. m + n -> S]
  <2> DEFINE x == p \o q
  <2> HIDE DEF x
  <2>1. x \in Seq(S) /\ Len(x) = m + n
    BY <1>2 DEF x
  <2>2. x \in [1 .. Len(x) -> S]
    BY <2>1
  <2> QED BY <2>1, <2>2 DEF x
<1>4. \A i \in 1 .. m : (p \o q)[i] = p[i]
  BY <1>1
<1>5. \A i \in 1 .. n : (p \o q)[m + i] = q[i]
  BY <1>1
<1> QED BY <1>3, <1>4, <1>5 DEF Joins, Joined

\* f is q, of n bytes, closed.
ClosedUp(f, q, n) ==
    /\ WholeMessage(f) /\ f \in [1 .. n + 2 -> Byte]
    /\ \A i \in 1 .. n : f[i] = q[i]
LEMMA ClosedIs ==
    ASSUME NEW n \in Nat, NEW q \in [1 .. n -> Byte],
           n + 2 \in MinLen .. MaxLen, 3 <= n,
           q[1] = Sof, 256 * q[2] + q[3] = n + 2
    PROVE  ClosedUp(Closed(q), q, n)
<1> DEFINE sum == encode_checksum(q)
           e == <<sum, Sof>>
           f == q \o e
<1>1. Len(q) = n
  BY ListIs
<1>2. sum \in Byte /\ sum = Checksum(q, 1, n)
  BY <1>1, ChecksumSound DEF encode_checksum
<1>3. e \in [1 .. 2 -> Byte] /\ e[1] = sum /\ e[2] = Sof
  BY <1>2, FramingAssumption
<1>4. f = Closed(q) /\ Joins(f, q, e)
  BY DEF Closed, Joins
<1> HIDE DEF f, e, sum
<1>5. Joined(f, Byte, q, n, e, 2)
  BY <1>3, <1>4, JoinIs
<1>6. f \in [1 .. n + 2 -> Byte] /\ (\A i \in 1 .. n : f[i] = q[i])
      /\ \A i \in 1 .. 2 : f[n + i] = e[i]
  BY <1>5 DEF Joined
<1>7. f[n + 1] = sum /\ f[n + 2] = Sof
  BY <1>3, <1>6
<1>8. f[1] = q[1] /\ f[2] = q[2] /\ f[3] = q[3]
  BY <1>6
<1>9. f \in Seq(Byte) /\ Len(f) = n + 2
  <2>1. n + 2 \in Nat
    OBVIOUS
  <2> QED BY <1>6, <2>1, ListIs
<1>10. Checksum(f, 1, n) = Checksum(q, 1, n)
  <2>1. \A j \in 1 .. 1 + n - 1 : j \in 1 .. n
    OBVIOUS
  <2>2. \A j \in 1 .. n : At(f, j) = At(q, j)
    BY <1>1, <1>6, <1>9 DEF At
  <2>3. \A j \in 1 .. 1 + (IF n = 0 THEN 1 ELSE n) - 1 : At(f, j) = At(q, j)
    BY <2>2
  <2> QED BY <2>3, SameChecksum
<1>11. Len(f) - 1 = n + 1 /\ Len(f) - 2 = n
  BY <1>9
<1>12. WholeMessage(f)
  BY <1>2, <1>7, <1>8, <1>9, <1>10, <1>11 DEF WholeMessage
<1> QED BY <1>4, <1>6, <1>12 DEF ClosedUp

\* What the constants are.
LEMMA ServerStrings ==
    /\ GatewayId \in [1 .. 6 -> Byte] /\ Clock \in [1 .. 8 -> Byte]
    /\ Sof \in Byte /\ DataLen = 11
    /\ 13 \in MinLen .. MaxLen /\ 30 \in MinLen .. MaxLen
BY AlarmsAssumption, FramingAssumption

\* The head of a message of n bytes with the given id, up to the gateway's id.
Head11(q, n, id) ==
    /\ q \in [1 .. 11 -> Byte]
    /\ q[1] = Sof /\ q[2] = 0 /\ q[3] = n /\ q[4] = 0 /\ q[5] = id
LEMMA HeadIs ==
    ASSUME NEW n \in 0 .. 255, NEW id \in 0 .. 255
    PROVE  Head11(<<Sof>> \o writeword(n) \o writeword(id) \o GatewayId, n, id)
<1> DEFINE x == <<Sof>>
           y == writeword(n)
           z == writeword(id)
           o == x \o y
           p == o \o z
           q == p \o GatewayId
<1>1. y = <<0, n>> /\ z = <<0, id>>
  <2>1. \A d \in 0 .. 255 : d \div 256 = 0 /\ d % 256 = d
    OBVIOUS
  <2> QED BY <2>1 DEF writeword
<1>2. Sof \in Byte /\ 0 \in Byte /\ n \in Byte /\ id \in Byte
  BY ServerStrings DEF Byte
<1>3. /\ x \in [1 .. 1 -> Byte] /\ x[1] = Sof
      /\ y \in [1 .. 2 -> Byte] /\ y[1] = 0 /\ y[2] = n
      /\ z \in [1 .. 2 -> Byte] /\ z[1] = 0 /\ z[2] = id
  BY <1>1, <1>2
<1>4. Joins(o, x, y) /\ Joins(p, o, z) /\ Joins(q, p, GatewayId)
  BY DEF Joins
<1>5. q = <<Sof>> \o writeword(n) \o writeword(id) \o GatewayId
  OBVIOUS
<1> HIDE DEF x, y, z, o, p, q
<1>6. Joined(o, Byte, x, 1, y, 2)
  BY <1>3, <1>4, JoinIs
<1>7. /\ o \in [1 .. 3 -> Byte]
      /\ (\A i \in 1 .. 1 : o[i] = x[i]) /\ (\A i \in 1 .. 2 : o[1 + i] = y[i])
  BY <1>6 DEF Joined
<1>8. o[1] = Sof /\ o[2] = 0 /\ o[3] = n
  BY <1>3, <1>7
<1>9. Joined(p, Byte, o, 3, z, 2)
  BY <1>3, <1>4, <1>7, JoinIs
<1>10. /\ p \in [1 .. 5 -> Byte]
       /\ (\A i \in 1 .. 3 : p[i] = o[i]) /\ (\A i \in 1 .. 2 : p[3 + i] = z[i])
  BY <1>9 DEF Joined
<1>11. p[1] = Sof /\ p[2] = 0 /\ p[3] = n /\ p[4] = 0 /\ p[5] = id
  BY <1>3, <1>8, <1>10
<1>12. Joined(q, Byte, p, 5, GatewayId, 6)
  BY <1>4, <1>10, ServerStrings, JoinIs
<1>13. q \in [1 .. 11 -> Byte] /\ \A i \in 1 .. 5 : q[i] = p[i]
  BY <1>12 DEF Joined
<1>14. Head11(q, n, id)
  BY <1>11, <1>13 DEF Head11
<1> QED BY <1>5, <1>14

\* A heartbeat is a message of 13 bytes.
LEMMA HeartIs == WholeMessage(encode_heart) /\ Len(encode_heart) = 13
<1> DEFINE q == <<Sof>> \o writeword(13) \o writeword(HEART) \o GatewayId
<1> HIDE DEF q
<1>1. HEART \in 0 .. 255 /\ 13 \in 0 .. 255 /\ 11 \in Nat /\ 11 + 2 = 13
  BY DEF HEART
<1> USE DEF q
<1>2. Head11(q, 13, HEART)
  BY <1>1, HeadIs, Zenon
<1>3. encode_heart = Closed(q)
  BY DEF encode_heart
<1> HIDE DEF q
<1>4. q \in [1 .. 11 -> Byte] /\ q[1] = Sof /\ q[2] = 0 /\ q[3] = 13
  BY <1>2 DEF Head11
<1>5. ClosedUp(Closed(q), q, 11)
  <2>1. 256 * q[2] + q[3] = 11 + 2
    BY <1>4
  <2>2. 11 + 2 \in MinLen .. MaxLen /\ 3 <= 11
    BY ServerStrings
  <2> QED BY <1>1, <1>4, <2>1, <2>2, ClosedIs
<1>6. WholeMessage(Closed(q)) /\ Closed(q) \in [1 .. 13 -> Byte]
  BY <1>5 DEF ClosedUp
<1>7. Len(Closed(q)) = 13
  <2>1. 13 \in Nat
    OBVIOUS
  <2> QED BY <1>6, <2>1, ListIs
<1> QED BY <1>3, <1>6, <1>7

\* An alarm is a message of 30 bytes and says what its data does.
LEMMA AlarmIs ==
    ASSUME NEW data, data.zonetype \in Nat, data.status[Alarm1] \in {0, 1}
    PROVE  /\ WholeMessage(encode_alarm(data)) /\ Len(encode_alarm(data)) = 30
           /\ Learnt(encode_alarm(data))
                = <<ALARM, data.zonetype % 256, data.status[Alarm1]>>
<1> DEFINE z == data.zonetype % 256
           s == data.status[Alarm1]
<1>1. z \in Byte /\ s \in Byte /\ 0 \in Byte /\ 1 \in Byte /\ 6 \in Byte
  <2>1. \A x \in Nat : x % 256 \in 0 .. 255
    OBVIOUS
  <2> QED BY <2>1 DEF Byte
<1> DEFINE a == <<Sof>> \o writeword(30) \o writeword(ALARM) \o GatewayId
           u == <<z, 6>>
           v == <<0, 0, 0, 0, 0, 1>>
           w == <<s>>
           b == a \o u
           c == b \o v
           d == c \o Clock
           q == d \o w
<1>2. ALARM \in 0 .. 255 /\ ALARM = 6 /\ 30 \in 0 .. 255
  BY DEF ALARM
<1>3. Head11(a, 30, ALARM)
  BY <1>2, HeadIs, Zenon
<1>4. encode_alarm(data) = Closed(q)
  BY DEF encode_alarm
<1>5. Joins(b, a, u) /\ Joins(c, b, v) /\ Joins(d, c, Clock) /\ Joins(q, d, w)
  BY DEF Joins
<1> HIDE DEF z, s
<1>6. u \in [1 .. 2 -> Byte] /\ u[1] = z
  BY <1>1
<1>7. v \in [1 .. 6 -> Byte]
  BY <1>1
<1>8. w \in [1 .. 1 -> Byte] /\ w[1] = s
  BY <1>1
<1> HIDE DEF a, u, v, w, b, c, d, q
<1>9. a \in [1 .. 11 -> Byte] /\ a[1] = Sof /\ a[2] = 0 /\ a[3] = 30 /\ a[4] = 0 /\ a[5] = 6
  BY <1>2, <1>3 DEF Head11
<1>10. Joined(b, Byte, a, 11, u, 2)
  BY <1>5, <1>6, <1>9, JoinIs
<1>11. b \in [1 .. 13 -> Byte] /\ (\A i \in 1 .. 11 : b[i] = a[i])
       /\ \A i \in 1 .. 2 : b[11 + i] = u[i]
  BY <1>10 DEF Joined
<1>12. b[12] = z
  BY <1>6, <1>11
<1>13. Joined(c, Byte, b, 13, v, 6)
  BY <1>5, <1>7, <1>11, JoinIs
<1>14. c \in [1 .. 19 -> Byte] /\ \A i \in 1 .. 13 : c[i] = b[i]
  BY <1>13 DEF Joined
<1>15. Joined(d, Byte, c, 19, Clock, 8)
  BY <1>5, <1>14, ServerStrings, JoinIs
<1>16. d \in [1 .. 27 -> Byte] /\ \A i \in 1 .. 19 : d[i] = c[i]
  BY <1>15 DEF Joined
<1>17. Joined(q, Byte, d, 27, w, 1)
  BY <1>5, <1>8, <1>16, JoinIs
<1>18. q \in [1 .. 28 -> Byte] /\ (\A i \in 1 .. 27 : q[i] = d[i])
       /\ \A i \in 1 .. 1 : q[27 + i] = w[i]
  BY <1>17 DEF Joined
<1>19. q[28] = s
  BY <1>8, <1>18
<1>20. \A i \in 1 .. 13 : q[i] = b[i]
  BY <1>14, <1>16, <1>18
<1>21. /\ q[1] = Sof /\ q[2] = 0 /\ q[3] = 30 /\ q[4] = 0 /\ q[5] = 6
       /\ q[12] = z
  BY <1>9, <1>11, <1>12, <1>20
<1>22. ClosedUp(Closed(q), q, 28)
  <2>1. 256 * q[2] + q[3] = 28 + 2
    BY <1>21
  <2>2. 28 + 2 \in MinLen .. MaxLen /\ 3 <= 28 /\ 28 \in Nat
    BY ServerStrings
  <2> QED BY <1>18, <1>21, <2>1, <2>2, ClosedIs
<1> DEFINE f == Closed(q)
<1>23. WholeMessage(f) /\ f \in [1 .. 30 -> Byte] /\ \A i \in 1 .. 28 : f[i] = q[i]
  BY <1>22 DEF ClosedUp
<1> HIDE DEF f
<1>24. Len(f) = 30
  <2>1. 30 \in Nat
    OBVIOUS
  <2> QED BY <1>23, <2>1, ListIs
<1>25. Learnt(f) = <<ALARM, z, s>>
  <2>1. \A i \in 1 .. 28 : At(f, i) = q[i]
    BY <1>23, <1>24 DEF At
  <2>2. At(f, 4) = 0 /\ At(f, 5) = 6 /\ At(f, 12) = z /\ At(f, 28) = s
    BY <1>19, <1>21, <2>1
  <2>3. readword(f, 4) = ALARM
    BY <1>2, <2>2 DEF readword
  <2> QED BY <2>2, <2>3 DEF Learnt
<1> QED BY <1>4, <1>23, <1>24, <1>25 DEF f, z, s

--------------------------------------------------------------------------------
(* What a peer reads.                                                        *)
\* What is read of s first, then what inner has of the rest.
Next1(s, inner) ==
    LET o == CHOOSE o \in Check("socket", s) : TRUE
    IN IF o.id # "message" THEN <<o.id>>
       ELSE <<SubSeq(o.rest, 1, o.ret)>> \o inner[SubSeq(o.rest, o.ret + 1, Len(o.rest))]

\* g[k] has what is read of a sequence in k messages.
Reads(g, n) ==
    /\ \A k \in 0 .. n : g[k][<< >>] = << >>
    /\ \A k \in 1 .. n : \A s \in Seq(Byte) : s # << >> => g[k][s] = Next1(s, g[k - 1])

\* Messages is such a run, as deep as its argument is long.
LEMMA MessagesRuns ==
    ASSUME NEW q \in Seq(Byte)
    PROVE  \E g : Reads(g, Len(q)) /\ Messages(q) = g[Len(q)][q]
<1> DEFINE n == Len(q)
           reads(i, inner) == [s \in Seq(Byte) |->
               IF s = << >> \/ i = 0 THEN << >> ELSE Next1(s, inner)]
           Is(f, k) == f = [i \in 0 .. k |-> reads(i, f[i - 1])]
           T == {k \in 0 .. n : \E f : Is(f, k)}
<1>1. n \in Nat
  OBVIOUS
<1> HIDE DEF n
<1>2. \A x, y : reads(0, x) = reads(0, y)
  OBVIOUS
<1>3. 0 \in T
  <2> DEFINE f == [i \in 0 .. 0 |-> reads(0, 0)]
  <2>1. \A i \in 0 .. 0 : reads(0, 0) = reads(i, f[i - 1])
    BY <1>2
  <2> HIDE DEF reads
  <2>2. f = [i \in 0 .. 0 |-> reads(i, f[i - 1])]
    BY <2>1
  <2> HIDE DEF f
  <2>3. \E f1 : Is(f1, 0)
    BY <2>2
  <2> HIDE DEF Is
  <2> QED BY <1>1, <2>3
<1>4. ASSUME NEW k \in 1 .. n, k - 1 \in T
      PROVE  k \in T
  <2>1. PICK f : Is(f, k - 1)
    BY <1>4
  <2> DEFINE g == [i \in 0 .. k |-> IF i = k THEN reads(k, f[k - 1]) ELSE f[i]]
  <2>2. ASSUME NEW i \in 0 .. k
        PROVE  g[i] = reads(i, g[i - 1])
    <3>1. CASE i = k
      <4> HIDE DEF reads, Is
      <4>1. k - 1 \in 0 .. k /\ k - 1 # k /\ k \in 0 .. k
        BY <1>1
      <4>2. g[k - 1] = f[k - 1]
        BY <4>1
      <4>3. g[k] = reads(k, f[k - 1])
        BY <4>1
      <4> QED BY <3>1, <4>2, <4>3
    <3>2. CASE i # k
      <4> HIDE DEF reads
      <4>1. i \in 0 .. k - 1
        BY <1>1, <3>2
      <4>2. f[i] = reads(i, f[i - 1])
        BY <2>1, <4>1
      <4>3. g[i] = f[i]
        BY <3>2
      <4>4. CASE i = 0
        <5>1. reads(0, f[i - 1]) = reads(0, g[i - 1])
          BY <1>2 DEF reads
        <5> QED BY <4>2, <4>3, <4>4, <5>1
      <4>5. CASE i # 0
        <5>1. i - 1 \in 0 .. k /\ i - 1 # k
          BY <4>1, <4>5
        <5>2. g[i - 1] = f[i - 1]
          BY <5>1
        <5> HIDE DEF g
        <5> QED BY <4>2, <4>3, <5>2
      <4> QED BY <4>4, <4>5
    <3> QED BY <3>1, <3>2
  <2>3. g = [i \in 0 .. k |-> g[i]]
    OBVIOUS
  <2> HIDE DEF g, reads
  <2>4. Is(g, k)
    BY <2>2, <2>3
  <2>5. k \in 0 .. n
    BY <1>1
  <2> HIDE DEF Is
  <2> QED BY <2>4, <2>5
<1>5. T = 0 .. n
  <2> HIDE DEF T
  <2>1. T \in SUBSET (0 .. n)
    BY DEF T
  <2> QED BY <1>1, <1>3, <1>4, <2>1, UpTo
<1>6. \E f : Is(f, n)
  <2>1. n \in 0 .. n
    BY <1>1
  <2> HIDE DEF T
  <2>2. n \in T
    BY <1>5, <2>1
  <2> HIDE DEF Is
  <2> QED BY <2>2 DEF T
<1> DEFINE h == CHOOSE f : Is(f, n)
<1>7. Is(h, n)
  <2> HIDE DEF Is
  <2> QED BY <1>6
<1>8. Messages(q) = h[n][q]
  BY DEF Messages, Next1, n
<1> HIDE DEF h
<1>9. \A k \in 0 .. n : h[k] = reads(k, h[k - 1])
  <2> HIDE DEF reads
  <2> QED BY <1>7
<1>10. \A k \in 0 .. n : h[k][<< >>] = << >>
  <2> TAKE k \in 0 .. n
  <2>1. << >> \in Seq(Byte)
    OBVIOUS
  <2>2. reads(k, h[k - 1])[<< >>] = << >>
    BY <2>1
  <2> HIDE DEF reads, Is
  <2> QED BY <1>9, <2>2
<1>11. \A k \in 1 .. n : \A s \in Seq(Byte) : s # << >> => h[k][s] = Next1(s, h[k - 1])
  <2> SUFFICES ASSUME NEW k \in 1 .. n, NEW s \in Seq(Byte), s # << >>
               PROVE  h[k][s] = Next1(s, h[k - 1])
    OBVIOUS
  <2>1. reads(k, h[k - 1])[s] = Next1(s, h[k - 1])
    OBVIOUS
  <2>2. k \in 0 .. n
    BY <1>1
  <2> HIDE DEF reads, Is
  <2> QED BY <1>9, <2>1, <2>2
<1>12. Reads(h, n)
  BY <1>10, <1>11 DEF Reads
<1> QED BY <1>8, <1>12 DEF n

\* A check finds a message at the start of its buffer ...
LEMMA CheckOfMessage ==
    ASSUME NEW f, WholeMessage(f), NEW q \in Seq(Byte), q # << >>, Len(f) <= Len(q),
           \A k \in 1 .. Len(f) : q[k] = f[k]
    PROVE  Check("socket", q) = {Out(q, Len(f), "message")}
<1>1. PICK inner \in [Seq(Byte) -> Outcomes] : Check("socket", q) = Call("socket", q, inner)
  BY CheckSteps
<1>2. f \in Seq(Byte)
  BY DEF WholeMessage
<1>3. \A k \in 1 .. Len(q) : k <= Len(f) => q[k] = f[k]
  <2>1. Len(f) \in Nat /\ Len(q) \in Nat
    BY <1>2
  <2> QED BY <2>1
<1>4. Protocol(q, inner) = IF Len(q) < Len(f) THEN {Out(q, 0, "half")}
                           ELSE {Out(q, Len(f), "message")}
  BY <1>3, ProtocolOfMessage
<1>5. ~(Len(q) < Len(f))
  <2>1. Len(f) \in Nat /\ Len(q) \in Nat
    BY <1>2
  <2> QED BY <2>1
<1> QED BY <1>1, <1>4, <1>5 DEF Call

\* In g, at depth k, what is read of q is f and then what is read of r at depth k - 1.
Then(g, k, q, f, r) == g[k][q] = <<f>> \o g[k - 1][r]

\* ... so it is read first.
LEMMA ReadsMessage ==
    ASSUME NEW g, NEW n \in Nat, Reads(g, n), NEW k \in 1 .. n,
           NEW f, WholeMessage(f), NEW q \in Seq(Byte), q # << >>, Len(f) <= Len(q),
           \A i \in 1 .. Len(f) : q[i] = f[i]
    PROVE  Then(g, k, q, f, SubSeq(q, Len(f) + 1, Len(q)))
<1> DEFINE o == Out(q, Len(f), "message")
           c == CHOOSE x \in Check("socket", q) : TRUE
<1>1. Check("socket", q) = {o}
  BY CheckOfMessage
<1>2. c = o
  <2> HIDE DEF o
  <2>1. \A x : x \in Check("socket", q) <=> x = o
    BY <1>1
  <2> QED BY <2>1
<1>3. o.rest = q /\ o.ret = Len(f) /\ o.id = "message"
  BY DEF Out
<1>4. Next1(q, g[k - 1]) = <<SubSeq(q, 1, Len(f))>> \o g[k - 1][SubSeq(q, Len(f) + 1, Len(q))]
  <2>1. Next1(q, g[k - 1]) =
            IF c.id # "message" THEN <<c.id>>
            ELSE <<SubSeq(c.rest, 1, c.ret)>>
                 \o g[k - 1][SubSeq(c.rest, c.ret + 1, Len(c.rest))]
    BY DEF Next1
  <2> HIDE DEF c, o
  <2> QED BY <1>2, <1>3, <2>1
<1>5. SubSeq(q, 1, Len(f)) = f
  <2> DEFINE p == SubSeq(q, 0 + 1, Len(f))
  <2>1. f \in Seq(Byte) /\ Len(f) \in Nat
    BY DEF WholeMessage
  <2>2. p \in Seq(Byte) /\ Len(p) = Len(f) - 0 /\ \A i \in 1 .. Len(f) - 0 : p[i] = q[0 + i]
    <3>1. 0 \in Nat /\ 0 <= Len(f)
      BY <2>1
    <3> QED BY <2>1, <3>1, PartIs
  <2> HIDE DEF p
  <2>3. Len(p) = Len(f) /\ \A i \in 1 .. Len(p) : p[i] = f[i]
    BY <2>1, <2>2
  <2>4. p = f
    BY <2>1, <2>2, <2>3, SameSeq
  <2> QED BY <2>4 DEF p
<1>6. g[k][q] = Next1(q, g[k - 1])
  BY DEF Reads
<1> QED BY <1>4, <1>5, <1>6 DEF Then

\* Two items before a sequence.
LEMMA TwoMore ==
    ASSUME NEW S, NEW h \in S, NEW a \in S, NEW x \in Seq(S), NEW y,
           y = <<h>> \o (<<a>> \o x)
    PROVE  /\ y \in Seq(S) /\ Len(y) = Len(x) + 2
           /\ y[1] = h /\ y[2] = a /\ \A l \in 1 .. Len(x) : y[l + 2] = x[l]
<1> DEFINE z == <<a>> \o x
<1>1. z \in Seq(S) /\ Len(z) = Len(x) + 1 /\ z[1] = a
  OBVIOUS
<1>2. \A l \in 1 .. Len(x) : z[l + 1] = x[l]
  OBVIOUS
<1>3. y = <<h>> \o z
  OBVIOUS
<1> HIDE DEF z
<1>4. y \in Seq(S) /\ Len(y) = Len(z) + 1 /\ y[1] = h
  BY <1>1, <1>3
<1>5. \A l \in 1 .. Len(z) : y[l + 1] = z[l]
  BY <1>1, <1>3
<1>6. Len(y) = Len(x) + 2
  <2>1. Len(x) \in Nat
    OBVIOUS
  <2> QED BY <1>1, <1>4, <2>1
<1>7. y[2] = a
  <2>1. 1 \in 1 .. Len(z) /\ 1 + 1 = 2
    <3>1. Len(x) \in Nat
      OBVIOUS
    <3> QED BY <1>1, <3>1
  <2> QED BY <1>1, <1>5, <2>1
<1>8. ASSUME NEW l \in 1 .. Len(x)
      PROVE  y[l + 2] = x[l]
  <2>1. PICK i : i = l + 1
    OBVIOUS
  <2>2. i \in 1 .. Len(z) /\ i + 1 = l + 2
    <3>1. Len(x) \in Nat
      OBVIOUS
    <3> QED BY <1>1, <2>1, <3>1
  <2>3. y[i + 1] = z[i] /\ z[i] = x[l]
    BY <1>2, <1>5, <2>1, <2>2
  <2> QED BY <2>2, <2>3
<1> QED BY <1>4, <1>6, <1>7, <1>8

--------------------------------------------------------------------------------
LEMMA MessageIs ==
    ASSUME NEW f, WholeMessage(f)
    PROVE  f \in Seq(Byte) /\ Len(f) \in Nat /\ 3 <= Len(f)
<1>1. f \in Seq(Byte) /\ Len(f) \in MinLen .. MaxLen
  BY DEF WholeMessage
<1>2. MinLen \in Nat /\ MaxLen \in Nat /\ 2 < MinLen
  BY FramingAssumption
<1> QED BY <1>1, <1>2

\* A message behind the first e bytes of q.
LEMMA ReadsBehind ==
    ASSUME NEW g, NEW n \in Nat, Reads(g, n), NEW k \in 1 .. n,
           NEW f, WholeMessage(f), NEW q \in Seq(Byte), NEW e \in Nat,
           e + Len(f) <= Len(q), \A l \in 1 .. Len(f) : q[e + l] = f[l]
    PROVE  Then(g, k, SubSeq(q, e + 1, Len(q)), f, SubSeq(q, (e + Len(f)) + 1, Len(q)))
<1> DEFINE s == SubSeq(q, e + 1, Len(q))
           c == Len(q)
           b == e + Len(f)
<1>1. f \in Seq(Byte) /\ Len(f) \in Nat /\ 3 <= Len(f) /\ c \in Nat
  BY MessageIs
<1>2. e <= c /\ e <= b /\ b <= c /\ b \in Nat /\ b - e = Len(f)
  BY <1>1
<1>3. s \in Seq(Byte) /\ Len(s) = c - e /\ \A l \in 1 .. c - e : s[l] = q[e + l]
  BY <1>1, <1>2, PartIs
<1>4. SubSeq(s, (b - e) + 1, Len(s)) = SubSeq(q, b + 1, c)
  BY <1>1, <1>2, PartOfPart
<1> HIDE DEF s, c, b
<1>5. Len(f) <= Len(s)
  BY <1>1, <1>2, <1>3
<1>6. s # << >>
  BY <1>1, <1>3, <1>5
<1>7. \A l \in 1 .. Len(f) : s[l] = f[l]
  BY <1>1, <1>3, <1>5
<1>8. Then(g, k, s, f, SubSeq(s, Len(f) + 1, Len(s)))
  BY <1>3, <1>5, <1>6, <1>7, ReadsMessage
<1> QED BY <1>2, <1>4, <1>8 DEF s, b, c

\* ms is H and A[j + 1], H and A[j + 2] and so on, d times.
Alternates(ms, H, A, j, d) ==
    /\ ms \in Seq(Seq(Byte)) /\ Len(ms) = 2 * d
    /\ \A i \in 1 .. d : ms[2 * i - 1] = H /\ ms[2 * i] = A[j + i]

\* One pair before others.
LEMMA AlternatesMore ==
    ASSUME NEW H \in Seq(Byte), NEW A, NEW j \in Nat, NEW d \in Nat, d # 0,
           A[j + 1] \in Seq(Byte), NEW x, Alternates(x, H, A, j + 1, d - 1),
           NEW y, y = <<H>> \o (<<A[j + 1]>> \o x)
    PROVE  Alternates(y, H, A, j, d)
<1> DEFINE X == Seq(Byte)
           a == A[j + 1]
<1>1. H \in X /\ a \in X /\ y = <<H>> \o (<<a>> \o x)
  OBVIOUS
<1>2. x \in Seq(X) /\ Len(x) = 2 * (d - 1)
      /\ \A i \in 1 .. d - 1 : x[2 * i - 1] = H /\ x[2 * i] = A[(j + 1) + i]
  BY DEF Alternates
<1> HIDE DEF X, a
<1>3. /\ y \in Seq(X) /\ Len(y) = Len(x) + 2
      /\ y[1] = H /\ y[2] = a /\ \A l \in 1 .. Len(x) : y[l + 2] = x[l]
  BY <1>1, <1>2, TwoMore
<1>4. Len(y) = 2 * d
  BY <1>2, <1>3
<1>5. ASSUME NEW i \in 1 .. d
      PROVE  y[2 * i - 1] = H /\ y[2 * i] = A[j + i]
  <2>1. CASE i = 1
    <3>1. 2 * i - 1 = 1 /\ 2 * i = 2 /\ j + i = j + 1
      BY <2>1
    <3> QED BY <1>3, <3>1 DEF a
  <2>2. CASE i # 1
    <3>1. PICK h : h = i - 1
      OBVIOUS
    <3>2. h \in 1 .. d - 1 /\ (j + 1) + h = j + i
      BY <2>2, <3>1
    <3>3. x[2 * h - 1] = H /\ x[2 * h] = A[j + i]
      BY <1>2, <3>2
    <3>4. PICK u : u = 2 * h - 1
      OBVIOUS
    <3>5. PICK v : v = 2 * h
      OBVIOUS
    <3>6. u \in 1 .. Len(x) /\ v \in 1 .. Len(x) /\ u + 2 = 2 * i - 1 /\ v + 2 = 2 * i
      BY <1>2, <3>1, <3>2, <3>4, <3>5
    <3>7. y[u + 2] = x[u] /\ y[v + 2] = x[v]
      BY <1>3, <3>6
    <3> QED BY <3>3, <3>4, <3>5, <3>6, <3>7
  <2> QED BY <2>1, <2>2
<1> QED BY <1>3, <1>4, <1>5 DEF Alternates, X

LEMMA PairIs ==
    ASSUME NEW h \in Seq(Byte), NEW a \in Seq(Byte)
    PROVE  /\ h \o a \in Seq(Byte) /\ Len(h \o a) = Len(h) + Len(a)
           /\ Len(h) \in Nat /\ Len(a) \in Nat
           /\ \A l \in 1 .. Len(h) : (h \o a)[l] = h[l]
           /\ \A l \in 1 .. Len(a) : (h \o a)[Len(h) + l] = a[l]
OBVIOUS

\* The same for two messages, h and a.
ThenPair(g, k, q, h, a, r) == g[k][q] = <<h>> \o (<<a>> \o g[k - 2][r])

\* One heartbeat and alarm behind the first e bytes of q.
LEMMA ReadsPair ==
    ASSUME NEW g, NEW n \in Nat, Reads(g, n), NEW k \in 2 .. n,
           NEW H, WholeMessage(H), NEW a, WholeMessage(a),
           NEW q \in Seq(Byte), NEW e \in Nat, e + Len(H \o a) <= Len(q),
           \A l \in 1 .. Len(H \o a) : q[e + l] = (H \o a)[l]
    PROVE  ThenPair(g, k, SubSeq(q, e + 1, Len(q)), H, a,
                    SubSeq(q, (e + Len(H \o a)) + 1, Len(q)))
<1>1. H \in Seq(Byte) /\ a \in Seq(Byte)
  BY MessageIs
<1> DEFINE p == H \o a
           h == Len(H)
           m == Len(a)
           b == e + h
           c == Len(q)
<1>2. /\ p \in Seq(Byte) /\ Len(p) = h + m /\ h \in Nat /\ m \in Nat
      /\ (\A l \in 1 .. h : p[l] = H[l]) /\ \A l \in 1 .. m : p[h + l] = a[l]
  BY <1>1, PairIs
<1>3. e + Len(p) <= c /\ \A l \in 1 .. Len(p) : q[e + l] = p[l]
  OBVIOUS
<1>4. c \in Nat
  OBVIOUS
<1> HIDE DEF p
<1>5. \A l \in 1 .. h : q[e + l] = H[l]
  <2> HIDE DEF h, m, c
  <2> QED BY <1>2, <1>3
<1>6. ASSUME NEW l \in 1 .. m
      PROVE  q[b + l] = a[l]
  <2>1. PICK i : i = h + l
    OBVIOUS
  <2> HIDE DEF h, m, c
  <2>2. i \in 1 .. Len(p) /\ e + i = b + l
    BY <1>2, <2>1
  <2>3. q[e + i] = p[i] /\ p[i] = a[l]
    BY <1>2, <1>3, <2>1, <2>2
  <2> QED BY <2>2, <2>3
<1>7. b \in Nat /\ b <= c /\ b + m <= c /\ b + m = e + Len(p)
  <2> HIDE DEF h, m, c
  <2> QED BY <1>2, <1>3, <1>4
<1>8. k \in 1 .. n /\ k - 1 \in 1 .. n /\ (k - 1) - 1 = k - 2
  OBVIOUS
<1>9. Then(g, k, SubSeq(q, e + 1, c), H, SubSeq(q, b + 1, c))
  BY <1>5, <1>7, <1>8, ReadsBehind
<1>10. Then(g, k - 1, SubSeq(q, b + 1, c), a, SubSeq(q, (b + m) + 1, c))
  BY <1>6, <1>7, <1>8, ReadsBehind
<1> HIDE DEF h, m, b, c
<1> QED BY <1>7, <1>8, <1>9, <1>10 DEF p, c, Then, ThenPair

--------------------------------------------------------------------------------
\* The items of ss are m pairs of messages: H and one of A.
Pairs(ss, H, A, m) ==
    /\ WholeMessage(H) /\ \A i \in 1 .. m : WholeMessage(A[i])
    /\ ss \in Seq(Seq(Byte)) /\ Len(ss) = m
    /\ \A i \in 1 .. m : ss[i] = H \o A[i]

\* A peer that is sent pairs of messages reads these messages and no other.
LEMMA PairsAreRead ==
    ASSUME NEW m \in Nat, NEW H, NEW A, NEW ss, Pairs(ss, H, A, m)
    PROVE  Alternates(Messages(FlattenSeq(ss)), H, A, 0, m)
<1> DEFINE q == FlattenSeq(ss)
           n == Len(q)
           E(i) == Len(FirstOf(ss, i))
           rest(i) == SubSeq(q, E(i) + 1, n)
<1>1. /\ WholeMessage(H) /\ (\A i \in 1 .. m : WholeMessage(A[i]))
      /\ ss \in Seq(Seq(Byte)) /\ Len(ss) = m
      /\ \A i \in 1 .. m : ss[i] = H \o A[i]
  BY DEF Pairs
<1>2. q \in Seq(Byte)
  BY <1>1, FlattenSound
<1>3. n \in Nat
  BY <1>2
<1>4. PICK g : Reads(g, n) /\ Messages(q) = g[n][q]
  BY <1>2, MessagesRuns
<1>5. E(0) = 0 /\ E(m) = n
  <2>1. FirstOf(ss, 0) = << >> /\ FirstOf(ss, Len(ss)) = q
    BY <1>1, FirstSteps
  <2> HIDE DEF q
  <2> QED BY <1>1, <2>1
<1>6. ASSUME NEW i \in 1 .. m
      PROVE  /\ E(i - 1) \in Nat /\ E(i) = E(i - 1) + Len(H \o A[i])
             /\ E(i - 1) + Len(H \o A[i]) <= n
             /\ \A l \in 1 .. Len(H \o A[i]) : q[E(i - 1) + l] = (H \o A[i])[l]
  <2>1. i \in 1 .. Len(ss)
    BY <1>1
  <2>2. /\ E(i - 1) \in Nat /\ E(i) = E(i - 1) + Len(ss[i])
        /\ E(i - 1) + Len(ss[i]) <= n
        /\ \A l \in 1 .. Len(ss[i]) : q[E(i - 1) + l] = ss[i][l]
    BY <1>1, <2>1, ItemAt
  <2>3. ss[i] = H \o A[i]
    BY <1>1
  <2> HIDE DEF E, n, q
  <2> QED BY <2>2, <2>3
<1>7. \A i \in 1 .. m : 6 <= Len(H \o A[i]) /\ Len(H \o A[i]) \in Nat
  <2> TAKE i \in 1 .. m
  <2>1. H \in Seq(Byte) /\ 3 <= Len(H) /\ A[i] \in Seq(Byte) /\ 3 <= Len(A[i])
    BY <1>1, MessageIs
  <2>2. Len(H \o A[i]) = Len(H) + Len(A[i]) /\ Len(H) \in Nat /\ Len(A[i]) \in Nat
    BY <2>1, PairIs
  <2> QED BY <2>1, <2>2
<1> HIDE DEF q, n, E
<1> DEFINE Good(d) == \A k \in 0 .. n : n - E(m - d) <= k =>
                          Alternates(g[k][rest(m - d)], H, A, m - d, d)
           T == {d \in 0 .. m : Good(d)}
<1>8. 0 \in T
  <2> SUFFICES ASSUME NEW k \in 0 .. n
               PROVE  Alternates(g[k][rest(m - 0)], H, A, m - 0, 0)
    OBVIOUS
  <2>1. m - 0 = m
    OBVIOUS
  <2>2. rest(m - 0) = << >>
    BY <1>2, <1>3, <1>5, <2>1
  <2>3. g[k][<< >>] = << >>
    BY <1>4 DEF Reads
  <2> DEFINE y == g[k][rest(m - 0)]
  <2>4. y = << >>
    BY <2>2, <2>3
  <2> HIDE DEF y
  <2>5. Alternates(y, H, A, m - 0, 0)
    BY <2>4 DEF Alternates
  <2> QED BY <2>5 DEF y
<1>9. ASSUME NEW d \in 1 .. m, d - 1 \in T
      PROVE  d \in T
  <2> SUFFICES ASSUME NEW k \in 0 .. n, n - E(m - d) <= k
               PROVE  Alternates(g[k][rest(m - d)], H, A, m - d, d)
    OBVIOUS
  <2>1. PICK j : j = m - d
    OBVIOUS
  <2>2. PICK i : i = j + 1
    OBVIOUS
  <2>3. /\ j \in Nat /\ i \in 1 .. m /\ i - 1 = j /\ i = m - (d - 1)
        /\ d \in Nat /\ d # 0
    BY <2>1, <2>2
  <2> DEFINE a == A[i]
             p == H \o a
             e == E(j)
  <2>4. /\ e \in Nat /\ E(i) = e + Len(p) /\ e + Len(p) <= n
        /\ (\A l \in 1 .. Len(p) : q[e + l] = p[l])
        /\ 6 <= Len(p) /\ Len(p) \in Nat
    BY <1>6, <1>7, <2>3
  <2>5. WholeMessage(H) /\ WholeMessage(a)
    BY <1>1, <2>3
  <2>6. n - e <= k
    BY <2>1
  <2> HIDE DEF a, T
  <2>7. k \in 2 .. n /\ k - 2 \in 0 .. n /\ n - E(i) <= k - 2
    <3> HIDE DEF p, e
    <3> QED BY <1>3, <2>4, <2>6
  <2> DEFINE x == g[k - 2][SubSeq(q, (e + Len(p)) + 1, Len(q))]
             y == g[k][SubSeq(q, e + 1, Len(q))]
  <2>8. y = <<H>> \o (<<a>> \o x)
    <3>1. Len(q) = n
      BY DEF n
    <3>2. e + Len(H \o a) <= Len(q) /\ \A l \in 1 .. Len(H \o a) : q[e + l] = (H \o a)[l]
      BY <2>4, <3>1
    <3>3. Reads(g, n) /\ e \in Nat /\ q \in Seq(Byte)
      BY <1>2, <1>4, <2>4
    <3> HIDE DEF e
    <3>4. ThenPair(g, k, SubSeq(q, e + 1, Len(q)), H, a,
                   SubSeq(q, (e + Len(H \o a)) + 1, Len(q)))
      BY <1>3, <2>5, <2>7, <3>2, <3>3, ReadsPair
    <3> QED BY <3>4 DEF ThenPair
  <2>9. Good(d - 1)
    BY <1>9 DEF T
  <2>10. x = g[k - 2][rest(m - (d - 1))]
    <3>1. Len(q) = n /\ e + Len(p) = E(i) /\ i = m - (d - 1)
      BY <2>3, <2>4 DEF n
    <3> HIDE DEF e, p
    <3> QED BY <3>1
  <2>11. Alternates(x, H, A, j + 1, d - 1)
    <3>1. n - E(m - (d - 1)) <= k - 2 /\ m - (d - 1) = j + 1
      BY <2>2, <2>3, <2>7
    <3> HIDE DEF x
    <3>2. Alternates(g[k - 2][rest(m - (d - 1))], H, A, m - (d - 1), d - 1)
      BY <2>7, <2>9, <3>1
    <3> QED BY <2>10, <3>1, <3>2
  <2>12. H \in Seq(Byte) /\ a \in Seq(Byte) /\ a = A[j + 1]
    BY <2>2, <2>5, MessageIs DEF a
  <2>13. y = g[k][rest(m - d)]
    BY <2>1 DEF n
  <2> HIDE DEF x, y
  <2>14. Alternates(y, H, A, j, d)
    BY <2>3, <2>8, <2>11, <2>12, AlternatesMore
  <2> QED BY <2>1, <2>13, <2>14
<1>10. T = 0 .. m
  <2> HIDE DEF Good
  <2>1. T \in SUBSET (0 .. m)
    OBVIOUS
  <2> HIDE DEF T
  <2> QED BY <1>8, <1>9, <2>1, UpTo
<1>11. Good(m)
  <2>1. m \in 0 .. m
    OBVIOUS
  <2> HIDE DEF Good
  <2>2. \A d \in 0 .. m : d \in T => Good(d)
    OBVIOUS
  <2> HIDE DEF T
  <2> QED BY <1>10, <2>1, <2>2
<1>12. rest(m - m) = q
  <2>1. m - m = 0 /\ E(0) + 1 = 1
    BY <1>5
  <2>2. SubSeq(q, 1, n) = q
    BY <1>2 DEF n
  <2> QED BY <2>1, <2>2
<1>13. Alternates(g[n][rest(m - m)], H, A, m - m, m)
  <2>1. n \in 0 .. n /\ n - E(m - m) <= n
    <3>1. m - m = 0
      OBVIOUS
    <3> QED BY <1>3, <1>5, <3>1
  <2> HIDE DEF rest
  <2> QED BY <1>11, <2>1
<1>14. m - m = 0
  OBVIOUS
<1> HIDE DEF rest
<1> QED BY <1>4, <1>12, <1>13, <1>14 DEF q

--------------------------------------------------------------------------------
(* What is told of a frame.                                                  *)
\* An alarm is a message, and its reader learns what the frame told.
LEMMA TellIs ==
    ASSUME NEW f \in Frames["serial"]
    PROVE  /\ WholeMessage(encode_alarm(dataparse(f)))
           /\ Learnt(encode_alarm(dataparse(f))) = Told(f)
<1>1. WholeFrame(f) /\ DataLen = 11
  BY FramesAssumption, AlarmsAssumption
<1>2. f \in [1 .. 13 -> Byte]
  <2>1. 11 + 2 = 13
    OBVIOUS
  <2> QED BY <1>1, <2>1 DEF WholeFrame
<1>3. Len(f) = 13
  <2>1. 13 \in Nat
    OBVIOUS
  <2> QED BY <1>2, <2>1, ListIs
<1>4. At(f, 3) = f[3] /\ At(f, 11) = f[11] /\ At(f, 12) = f[12]
  BY <1>3 DEF At
<1>5. f[3] \in 0 .. 255 /\ f[11] \in 0 .. 255 /\ f[12] \in 0 .. 255
  BY <1>2 DEF Byte
<1> DEFINE d == dataparse(f)
<1>6. d.zonetype = 256 * f[11] + f[12]
  <2>1. d.zonetype = readword(f, 11)
    BY DEF dataparse
  <2>2. readword(f, 11) = 256 * f[11] + f[12]
    BY <1>4 DEF readword
  <2> QED BY <2>1, <2>2
<1>7. d.zonetype \in Nat /\ d.zonetype % 256 = f[12]
  <2>1. ASSUME NEW a \in 0 .. 255, NEW b \in 0 .. 255
        PROVE  256 * a + b \in Nat /\ (256 * a + b) % 256 = b
    <3>1. 256 * a + b \in Nat
      OBVIOUS
    <3>2. \A x, y \in Int, c \in 0 .. 255 : x = 256 * y + c => x % 256 = c
      OBVIOUS
    <3> QED BY <3>1, <3>2
  <2> HIDE DEF d
  <2>2. PICK a, b : a = f[11] /\ b = f[12]
    OBVIOUS
  <2>3. a \in 0 .. 255 /\ b \in 0 .. 255 /\ d.zonetype = 256 * a + b
    BY <1>5, <1>6, <2>2
  <2>4. 256 * a + b \in Nat /\ (256 * a + b) % 256 = b
    BY <2>1, <2>3
  <2> QED BY <2>2, <2>3, <2>4
<1>8. d.status[Alarm1] = f[3] % 2 /\ f[3] % 2 \in {0, 1}
  <2>1. d.status[Alarm1] = (f[3] \div 2 ^ 0) % 2
    <3>1. d.status = [bit \in 0 .. 7 |-> (At(f, 3) \div 2 ^ bit) % 2]
      BY DEF dataparse
    <3>2. Alarm1 = 0 /\ 0 \in 0 .. 7
      BY DEF Alarm1
    <3> HIDE DEF d
    <3> QED BY <1>4, <3>1, <3>2
  <2>2. 2 ^ 0 = 1
    OBVIOUS
  <2>3. \A b \in 0 .. 255 : b \div 1 = b /\ b % 2 \in {0, 1}
    OBVIOUS
  <2> HIDE DEF d
  <2> QED BY <1>5, <2>1, <2>2, <2>3
<1> DEFINE m == encode_alarm(d)
<1>9. WholeMessage(m) /\ Learnt(m) = <<ALARM, d.zonetype % 256, d.status[Alarm1]>>
  <2>1. d.status[Alarm1] \in {0, 1}
    <3> HIDE DEF d
    <3> QED BY <1>8
  <2> HIDE DEF d
  <2> QED BY <1>7, <2>1, AlarmIs
<1>10. Told(f) = <<ALARM, f[12], f[3] % 2>>
  <2>1. Len(f) - 1 = 12
    BY <1>3
  <2> QED BY <2>1 DEF Told
<1> HIDE DEF d
<1>11. Learnt(m) = Told(f)
  BY <1>7, <1>8, <1>9, <1>10
<1> QED BY <1>9, <1>11 DEF d

\* Messages cut at their ends tell each frame.
LEMMA InvTells == FramingInv => AlarmsArrive
<1> SUFFICES ASSUME FramingInv, Clean, ~dropped, bursts = 0
             PROVE  /\ Len(got) = Received(pos)
                    /\ side = "serial" =>
                          LET msgs == Messages(FlattenSeq([i \in DOMAIN got |-> Sends(got[i])]))
                          IN /\ Len(msgs) = 2 * Received(pos)
                             /\ \A i \in 1 .. Received(pos) :
                                   /\ msgs[2 * i - 1] = encode_heart
                                   /\ Learnt(msgs[2 * i]) = Told(stream[i])
  BY DEF AlarmsArrive
<1>1. Sound /\ Cut /\ Len(got) = Received(pos)
  BY DEF FramingInv, Prompt
<1> DEFINE H == encode_heart
           ss == [i \in DOMAIN got |-> Sends(got[i])]
           msgs == Messages(FlattenSeq(ss))
<1> SUFFICES ASSUME side = "serial"
             PROVE  /\ Len(msgs) = 2 * Received(pos)
                    /\ \A i \in 1 .. Received(pos) :
                          msgs[2 * i - 1] = H /\ Learnt(msgs[2 * i]) = Told(stream[i])
  BY <1>1
<1>2. PICK m : m = Len(got)
  OBVIOUS
<1>3. /\ m \in Nat /\ m = Received(pos) /\ m <= Len(stream) /\ Len(stream) \in Nat
      /\ got = SubSeq(stream, 0 + 1, m) /\ stream \in Seq(Seq(Byte))
  <2>1. stream \in Seq(Seq(Byte)) /\ Len(stream) \in Nat
    BY <1>1, StreamIs
  <2>2. 0 + 1 = 1
    OBVIOUS
  <2> QED BY <1>1, <1>2, <2>1, <2>2 DEF Cut
<1>4. got \in Seq(Seq(Byte)) /\ \A i \in 1 .. m : got[i] = stream[i]
  <2> DEFINE X == Seq(Byte)
             p == SubSeq(stream, 0 + 1, m)
  <2>1. stream \in Seq(X) /\ 0 \in Nat /\ 0 <= m
    BY <1>3
  <2> HIDE DEF X
  <2>2. p \in Seq(X) /\ \A i \in 1 .. m - 0 : p[i] = stream[0 + i]
    BY <1>3, <2>1, PartIs
  <2> HIDE DEF p
  <2>3. got = p
    BY <1>3 DEF p
  <2>4. \A i \in 1 .. m : got[i] = stream[i]
    BY <1>3, <2>2, <2>3
  <2> QED BY <2>2, <2>3, <2>4 DEF X
<1>5. \A i \in 1 .. m : stream[i] \in Frames["serial"]
  <2> TAKE i \in 1 .. m
  <2>1. i \in 1 .. Len(stream)
    BY <1>3
  <2> QED BY <1>1, <2>1, FramesGrow
<1> DEFINE A == [i \in 1 .. m |-> encode_alarm(dataparse(got[i]))]
<1>6. ASSUME NEW i \in 1 .. m
      PROVE  WholeMessage(A[i]) /\ Learnt(A[i]) = Told(stream[i])
  <2>1. A[i] = encode_alarm(dataparse(stream[i]))
    BY <1>4
  <2>2. stream[i] \in Frames["serial"]
    BY <1>5
  <2> HIDE DEF A
  <2> QED BY <2>1, <2>2, TellIs
<1>7. WholeMessage(H)
  BY HeartIs
<1>8. DOMAIN got = 1 .. m
  BY <1>2, <1>4
<1>9. \A i \in 1 .. m : ss[i] = H \o A[i]
  BY <1>8 DEF Sends
<1>10. ss \in Seq(Seq(Byte)) /\ Len(ss) = m
  <2> DEFINE X == Seq(Byte)
  <2>1. ASSUME NEW i \in 1 .. m
        PROVE  ss[i] \in X
    <3>1. H \in Seq(Byte) /\ A[i] \in Seq(Byte)
      BY <1>6, <1>7, MessageIs
    <3> HIDE DEF H, A
    <3>2. H \o A[i] \in X
      BY <3>1, PairIs
    <3> HIDE DEF X
    <3> QED BY <1>9, <3>2
  <2>2. ss = [i \in 1 .. m |-> ss[i]]
    BY <1>8
  <2> HIDE DEF ss, X
  <2>3. ss \in [1 .. m -> X]
    BY <2>1, <2>2
  <2>4. ss \in Seq(X) /\ Len(ss) = m
    BY <1>3, <2>3, ListIs
  <2> QED BY <2>4 DEF X
<1> HIDE DEF H, A, ss
<1>11. Pairs(ss, H, A, m)
  BY <1>6, <1>7, <1>9, <1>10 DEF Pairs
<1>12. Alternates(msgs, H, A, 0, m)
  BY <1>3, <1>11, PairsAreRead
<1> HIDE DEF msgs
<1>13. Len(msgs) = 2 * m /\ \A i \in 1 .. m : msgs[2 * i - 1] = H /\ msgs[2 * i] = A[0 + i]
  BY <1>12 DEF Alternates
<1>14. ASSUME NEW i \in 1 .. m
       PROVE  msgs[2 * i - 1] = H /\ Learnt(msgs[2 * i]) = Told(stream[i])
  <2>1. 0 + i = i
    BY <1>3
  <2> QED BY <1>6, <1>13, <2>1
<1> QED BY <1>3, <1>13, <1>14

\* Each frame from the serial line reaches the socket peers as one alarm, which they can
\* tell from the heartbeats by the gateway's own rule for messages and which says what the
\* device said (event.c:112-127, parseserver.c:86-149).
THEOREM AlarmsAlwaysArrive == Spec => []AlarmsArrive
BY FramesAreCut, InvTells, PTL

--------------------------------------------------------------------------------
(* A stream of frames and stray bytes, with no frame damaged.                *)
Undamaged == Damaged = {}

\* Byte c + 1 of the stream is item i's.
InItem(i, c) == i \in 1 .. Len(stream) /\ EndOf(i - 1) <= c /\ c < EndOf(i)

\* How many of the noise's items have been passed when c bytes have.
NoiseBy(c) == Cardinality({i \in DOMAIN stream : ~IsFrame(stream[i]) /\ EndOf(i) <= c})

\* c bytes do not end within a frame.
Aligned(c) ==
    \A i \in 1 .. Len(stream) : IsFrame(stream[i]) => c <= EndOf(i - 1) \/ EndOf(i) <= c

\* No item is empty, and noise holds no start of frame.
LEMMA ItemsGrow ==
    ASSUME Sound, Undamaged, NEW i \in 1 .. Len(stream)
    PROVE  /\ Len(stream[i]) \in Nat /\ 1 <= Len(stream[i]) /\ EndOf(i - 1) < EndOf(i)
           /\ IsFrame(stream[i]) => stream[i] \in Frames[side] /\ 3 <= Len(stream[i])
           /\ ~IsFrame(stream[i]) => \A k \in 1 .. Len(stream[i]) : stream[i][k] # Sof
<1> DEFINE s == stream[i]
<1>1. side \in Sides /\ s \in Frames[side] \cup Noise
  <2>1. s \in Frames[side] \cup Noise \cup Damaged
    BY DEF Sound
  <2> QED BY <2>1 DEF Undamaged, Sound
<1>2. EndOf(i - 1) \in Nat /\ EndOf(i) = EndOf(i - 1) + Len(s) /\ s \in Seq(Byte)
  BY ItemIs
<1>3. Len(s) \in Nat
  BY <1>2
<1> HIDE DEF s
<1>4. CASE s \in Frames[side]
  <2>1. IsFrame(s) /\ 3 <= Len(s)
    BY <1>1, <1>4, FrameIs DEF IsFrame
  <2> QED BY <1>2, <1>3, <1>4, <2>1 DEF s
<1>5. CASE s \notin Frames[side]
  <2>1. ~IsFrame(s)
    BY <1>5 DEF IsFrame
  <2> DEFINE X == Byte \ {Sof}
  <2>2. s \in Seq(X) /\ s # << >>
    BY <1>1, <1>5, FramingAssumption
  <2> HIDE DEF X
  <2>3. Len(s) # 0 /\ \A k \in 1 .. Len(s) : s[k] \in X
    BY <2>2
  <2>4. \A k \in 1 .. Len(s) : s[k] # Sof
    BY <2>3 DEF X
  <2> QED BY <1>2, <1>3, <2>1, <2>3, <2>4 DEF s
<1> QED BY <1>4, <1>5

\* Every byte is some item's ...
LEMMA ItemFound ==
    ASSUME Sound, NEW c \in Nat, c < Len(Bytes)
    PROVE  \E i : InItem(i, c)
<1> DEFINE n == Len(stream)
           S == {i \in 0 .. n : c < EndOf(i)}
<1>1. n \in Nat /\ EndOf(n) = Len(Bytes) /\ EndOf(0) = 0
  BY StreamIs, EndIs
<1>2. \A i \in 0 .. n : EndOf(i) \in Nat
  BY EndIs
<1> HIDE DEF n
<1>3. S \in SUBSET Nat /\ S # {}
  <2>1. n \in S
    BY <1>1
  <2> QED BY <2>1
<1>4. PICK i \in S : \A j \in S : i <= j
  <2> HIDE DEF S
  <2> QED BY <1>3, LeastOf
<1>5. i # 0
  BY <1>1, <1>4
<1>6. i \in 1 .. n /\ i - 1 \in 0 .. n /\ i - 1 \notin S
  BY <1>1, <1>4, <1>5
<1>7. EndOf(i - 1) <= c
  <2>1. EndOf(i - 1) \in Nat /\ ~(c < EndOf(i - 1))
    BY <1>2, <1>6
  <2> QED BY <2>1
<1> QED BY <1>4, <1>6, <1>7 DEF InItem, n

\* ... and the items that have ended by then are those before it.
LEMMA EndsBefore ==
    ASSUME Sound, NEW c \in Nat, NEW i, InItem(i, c), NEW l \in 1 .. Len(stream)
    PROVE  EndOf(l) <= c <=> l < i
<1> DEFINE n == Len(stream)
<1>1. n \in Nat /\ i \in 1 .. n /\ EndOf(i - 1) <= c /\ c < EndOf(i) /\ l \in 1 .. n
  BY StreamIs DEF InItem
<1>2. /\ \A j \in 0 .. n : EndOf(j) \in Nat
      /\ \A j \in 0 .. n : \A k \in j .. n : EndOf(j) <= EndOf(k)
  BY EndIs
<1> HIDE DEF n
<1>3. EndOf(l) \in Nat /\ EndOf(i) \in Nat /\ EndOf(i - 1) \in Nat
  <2>1. l \in 0 .. n /\ i \in 0 .. n /\ i - 1 \in 0 .. n
    BY <1>1
  <2> QED BY <1>2, <2>1
<1>4. CASE l < i
  <2>1. l \in 0 .. n /\ i - 1 \in l .. n
    BY <1>1, <1>4
  <2>2. EndOf(l) <= EndOf(i - 1)
    BY <1>2, <2>1
  <2> QED BY <1>1, <1>3, <1>4, <2>2
<1>5. CASE ~(l < i)
  <2>1. i \in 0 .. n /\ l \in i .. n
    BY <1>1, <1>5
  <2>2. EndOf(i) <= EndOf(l)
    BY <1>2, <2>1
  <2> QED BY <1>1, <1>3, <1>5, <2>2
<1> QED BY <1>4, <1>5

\* The more bytes have passed, the more frames and the more noise.
LEMMA CountsGrow ==
    ASSUME Sound, NEW c \in Nat, NEW d \in Nat, c <= d
    PROVE  /\ Received(c) \in Nat /\ Received(d) \in Nat /\ Received(c) <= Received(d)
           /\ NoiseBy(c) \in Nat /\ NoiseBy(d) \in Nat /\ NoiseBy(c) <= NoiseBy(d)
<1> DEFINE n == Len(stream)
           F(p) == {i \in DOMAIN stream : IsFrame(stream[i]) /\ EndOf(i) <= p}
           N(p) == {i \in DOMAIN stream : ~IsFrame(stream[i]) /\ EndOf(i) <= p}
<1>1. n \in Nat /\ DOMAIN stream = 1 .. n
  BY StreamIs
<1>2. \A i \in 1 .. n : EndOf(i) \in Nat
  <2>1. \A i \in 1 .. n : i \in 0 .. n
    BY <1>1
  <2> QED BY <2>1, EndIs
<1> HIDE DEF n
<1>3. F(d) \subseteq 1 .. n /\ N(d) \subseteq 1 .. n /\ F(c) \subseteq F(d) /\ N(c) \subseteq N(d)
  BY <1>1, <1>2
<1>4. IsFiniteSet(1 .. n)
  BY <1>1, FS_Interval
<1>5. Received(c) = Cardinality(F(c)) /\ Received(d) = Cardinality(F(d))
      /\ NoiseBy(c) = Cardinality(N(c)) /\ NoiseBy(d) = Cardinality(N(d))
  BY DEF Received, NoiseBy
<1> HIDE DEF F, N
<1>6. IsFiniteSet(F(d)) /\ IsFiniteSet(N(d)) /\ IsFiniteSet(F(c)) /\ IsFiniteSet(N(c))
  BY <1>3, <1>4, FS_Subset
<1>7. Cardinality(F(c)) <= Cardinality(F(d)) /\ Cardinality(N(c)) <= Cardinality(N(d))
  BY <1>3, <1>6, FS_Subset
<1>8. /\ Cardinality(F(c)) \in Nat /\ Cardinality(F(d)) \in Nat
      /\ Cardinality(N(c)) \in Nat /\ Cardinality(N(d)) \in Nat
  BY <1>6, FS_CardinalityType
<1> QED BY <1>5, <1>7, <1>8

\* To pass the end of noise is to pass more of it.
LEMMA NoisePassed ==
    ASSUME Sound, NEW c \in Nat, NEW d \in Nat, c <= d, NEW i \in 1 .. Len(stream),
           ~IsFrame(stream[i]), c < EndOf(i), EndOf(i) <= d
    PROVE  NoiseBy(c) < NoiseBy(d)
<1> DEFINE n == Len(stream)
           N(p) == {j \in DOMAIN stream : ~IsFrame(stream[j]) /\ EndOf(j) <= p}
<1>1. n \in Nat /\ DOMAIN stream = 1 .. n
  BY StreamIs
<1>2. \A j \in 1 .. n : EndOf(j) \in Nat
  <2>1. \A j \in 1 .. n : j \in 0 .. n
    BY <1>1
  <2> QED BY <2>1, EndIs
<1>3. i \in 1 .. n
  OBVIOUS
<1> HIDE DEF n
<1>4. N(d) \subseteq 1 .. n /\ N(c) \subseteq N(d) /\ i \in N(d) /\ i \notin N(c)
  <2>1. ~(EndOf(i) <= c)
    BY <1>2, <1>3
  <2> QED BY <1>1, <1>2, <1>3, <2>1
<1>5. IsFiniteSet(1 .. n)
  BY <1>1, FS_Interval
<1>6. NoiseBy(c) = Cardinality(N(c)) /\ NoiseBy(d) = Cardinality(N(d))
  BY DEF NoiseBy
<1> HIDE DEF N
<1>7. IsFiniteSet(N(d)) /\ N(c) # N(d)
  BY <1>4, <1>5, FS_Subset
<1>8. Cardinality(N(c)) < Cardinality(N(d))
  <2>1. IsFiniteSet(N(c)) /\ Cardinality(N(c)) <= Cardinality(N(d))
    BY <1>4, <1>7, FS_Subset
  <2>2. Cardinality(N(c)) # Cardinality(N(d))
    BY <1>4, <1>7, FS_Subset
  <2>3. Cardinality(N(c)) \in Nat /\ Cardinality(N(d)) \in Nat
    BY <1>7, <2>1, FS_CardinalityType
  <2> QED BY <2>1, <2>2, <2>3
<1> QED BY <1>6, <1>8

\* No frame ends where none does.
LEMMA NoneReceived ==
    ASSUME Sound, NEW c \in Nat, NEW d \in Nat, c <= d,
           \A i \in 1 .. Len(stream) : IsFrame(stream[i]) /\ EndOf(i) <= d => EndOf(i) <= c
    PROVE  Received(d) = Received(c)
<1> DEFINE n == Len(stream)
           F(p) == {i \in DOMAIN stream : IsFrame(stream[i]) /\ EndOf(i) <= p}
<1>1. n \in Nat /\ DOMAIN stream = 1 .. n
  BY StreamIs
<1>2. \A i \in 1 .. n : EndOf(i) \in Nat
  <2>1. \A i \in 1 .. n : i \in 0 .. n
    BY <1>1
  <2> QED BY <2>1, EndIs
<1>3. \A i \in 1 .. n : EndOf(i) <= c => EndOf(i) <= d
  BY <1>2
<1>4. F(d) = F(c)
  BY <1>1, <1>3
<1> QED BY <1>4 DEF Received

--------------------------------------------------------------------------------
(* Where a check of the bytes behind the first c of the first p leads: it    *)
(* leaves those behind the first d, and waits for more of them, or finds the *)
(* frame that lies there, or has dropped noise and loses its message id.     *)
Whole(i, c, p) ==
    /\ i \in 1 .. Len(stream) /\ IsFrame(stream[i])
    /\ EndOf(i - 1) = c /\ EndOf(i) <= p

Waits(o, c, p) ==
    o.id \notin {"business", "message", "fault"} /\ o.ret = 0 /\ Received(p) = Received(c)
Finds(o, c, d, p) ==
    /\ d = c /\ o.id \in {"business", "message"}
    /\ \E i : Whole(i, c, p) /\ o.ret = Len(stream[i])
Loses(o, c, d, p) ==
    /\ o.id = "none" /\ NoiseBy(c) < NoiseBy(d)
    /\ o.ret = 0 \/ \E i : Whole(i, d, p) /\ o.ret = Len(stream[i])
Leads(o, c, p) ==
    \E d \in c .. p : /\ Aligned(d) /\ o.rest = SubSeq(Bytes, d + 1, p)
                      /\ Waits(o, c, p) \/ Finds(o, c, d, p) \/ Loses(o, c, d, p)

\* At a frame: the frame starts there.
LEMMA AtFrame ==
    ASSUME Sound, NEW c \in Nat, Aligned(c), NEW i, InItem(i, c), IsFrame(stream[i])
    PROVE  EndOf(i - 1) = c
<1>1. i \in 1 .. Len(stream) /\ EndOf(i - 1) <= c /\ c < EndOf(i)
  BY DEF InItem
<1>2. EndOf(i - 1) \in Nat /\ EndOf(i) \in Nat
  <2>1. i - 1 \in 0 .. Len(stream) /\ i \in 0 .. Len(stream)
    BY <1>1, StreamIs
  <2> QED BY <2>1, EndIs
<1>3. c <= EndOf(i - 1) \/ EndOf(i) <= c
  BY <1>1 DEF Aligned
<1> QED BY <1>1, <1>2, <1>3

\* A frame that is not all there: none has come.
LEMMA FrameMissing ==
    ASSUME Sound, NEW c \in Nat, NEW p \in Nat, c <= p,
           NEW i, InItem(i, c), p < EndOf(i)
    PROVE  Received(p) = Received(c)
<1>1. i \in 1 .. Len(stream) /\ EndOf(i - 1) <= c
  BY DEF InItem
<1>2. EndOf(i - 1) \in Nat
  <2>1. i - 1 \in 0 .. Len(stream)
    BY <1>1, StreamIs
  <2> QED BY <2>1, EndIs
<1>3. InItem(i, p)
  BY <1>1, <1>2 DEF InItem
<1>4. \A l \in 1 .. Len(stream) : EndOf(l) <= p => EndOf(l) <= c
  BY <1>3, EndsBefore
<1> QED BY <1>4, NoneReceived

\* A byte of noise.
LEMMA PastNoise ==
    ASSUME Sound, Undamaged, NEW c \in Nat, Aligned(c),
           NEW i, InItem(i, c), ~IsFrame(stream[i])
    PROVE  /\ Aligned(c + 1) /\ Received(c + 1) = Received(c)
           /\ \A j, p : Whole(j, c + 1, p) => NoiseBy(c) < NoiseBy(c + 1)
<1> DEFINE n == Len(stream)
<1>1. i \in 1 .. n /\ EndOf(i - 1) <= c /\ c < EndOf(i) /\ n \in Nat
  BY StreamIs DEF InItem
<1>2. /\ \A j \in 1 .. n : EndOf(j) \in Nat /\ EndOf(j - 1) \in Nat
      /\ EndOf(0) = 0
  <2>1. \A j \in 1 .. n : j \in 0 .. n /\ j - 1 \in 0 .. n
    BY <1>1
  <2> QED BY <2>1, EndIs
<1>3. \A j \in 1 .. n : EndOf(j - 1) < EndOf(j)
  BY ItemsGrow
<1>4. \A j \in 1 .. n : EndOf(j) <= c <=> j < i
  BY EndsBefore
<1>5. ASSUME NEW j \in 1 .. n, IsFrame(stream[j])
      PROVE  c + 1 <= EndOf(j - 1) \/ EndOf(j) <= c
  <2>1. c <= EndOf(j - 1) \/ EndOf(j) <= c
    BY <1>5 DEF Aligned
  <2>2. CASE c = EndOf(j - 1)
    <3>1. InItem(j, c)
      BY <1>2, <1>3, <2>2 DEF InItem
    <3>2. EndOf(i) <= c <=> i < j
      BY <1>1, <3>1, EndsBefore
    <3>3. ~(EndOf(i) <= c)
      BY <1>1, <1>2
    <3>4. ~(EndOf(j) <= c)
      BY <1>2, <1>3, <2>2
    <3>5. i = j
      BY <1>1, <1>4, <3>2, <3>3, <3>4
    <3> QED BY <1>5, <3>5
  <2> HIDE DEF n
  <2> QED BY <1>2, <2>1, <2>2
<1>6. Aligned(c + 1)
  <2> SUFFICES ASSUME NEW j \in 1 .. n, IsFrame(stream[j])
               PROVE  c + 1 <= EndOf(j - 1) \/ EndOf(j) <= c + 1
    BY DEF Aligned
  <2>1. c + 1 <= EndOf(j - 1) \/ EndOf(j) <= c
    BY <1>5
  <2> HIDE DEF n
  <2> QED BY <1>2, <2>1
<1>7. Received(c + 1) = Received(c)
  <2>1. ASSUME NEW j \in 1 .. n, IsFrame(stream[j]), EndOf(j) <= c + 1
        PROVE  EndOf(j) <= c
    <3>1. c + 1 <= EndOf(j - 1) \/ EndOf(j) <= c
      BY <1>5, <2>1
    <3> HIDE DEF n
    <3> QED BY <1>2, <1>3, <2>1, <3>1
  <2>2. c + 1 \in Nat /\ c <= c + 1
    OBVIOUS
  <2> QED BY <2>1, <2>2, NoneReceived
<1>8. ASSUME NEW j, NEW p, Whole(j, c + 1, p)
      PROVE  NoiseBy(c) < NoiseBy(c + 1)
  <2>1. j \in 1 .. n /\ EndOf(j - 1) = c + 1
    BY <1>8 DEF Whole
  <2>2. j - 1 \in 1 .. n
    BY <1>1, <1>2, <2>1
  <2>3. ~(j - 1 < i)
    <3>1. ~(EndOf(j - 1) <= c)
      BY <2>1
    <3> QED BY <1>4, <2>2, <3>1
  <2>4. EndOf(i) <= EndOf(j - 1)
    <3>1. i \in 0 .. n /\ j - 1 \in i .. n
      BY <1>1, <2>2, <2>3
    <3> QED BY <3>1, EndIs
  <2>5. EndOf(i) <= c + 1 /\ c < EndOf(i) /\ c + 1 \in Nat /\ c <= c + 1
    BY <1>1, <2>1, <2>4
  <2> QED BY <1>1, <2>5, NoisePassed
<1> QED BY <1>6, <1>7, <1>8

\* What a call becomes that is not returned.
LEMMA UnreturnedIs ==
    ASSUME NEW outs, NEW o \in Unreturned(outs), \A x \in outs : x.id # "fault"
    PROVE  \E x \in outs : o.rest = x.rest /\ o.ret \in {x.ret, 0} /\ o.id = "none"
<1>1. PICK x \in outs : o \in IF x.id = "fault" THEN {x}
                              ELSE {Out(x.rest, r, "none") : r \in {x.ret, 0}}
  BY DEF Unreturned
<1>2. PICK r \in {x.ret, 0} : o = Out(x.rest, r, "none")
  BY <1>1
<1> QED BY <1>2 DEF Out

\* q is a part of the stream.
PartOf(q, a, b) == q = SubSeq(Bytes, a + 1, b)

\* ... and without its first byte another.
LEMMA TailOfPart ==
    ASSUME Bytes \in Seq(Byte), NEW a \in Nat, NEW b \in Nat, a < b, b <= Len(Bytes),
           NEW q, PartOf(q, a, b)
    PROVE  Tail(q) = SubSeq(Bytes, (a + 1) + 1, b)
<1> DEFINE t == SubSeq(Bytes, (a + 1) + 1, b)
<1>1. q = SubSeq(Bytes, a + 1, b)
  BY DEF PartOf
<1>2. q \in Seq(Byte) /\ Len(q) = b - a /\ \A k \in 1 .. b - a : q[k] = Bytes[a + k]
  BY <1>1, PartIs
<1>3. /\ t \in Seq(Byte) /\ Len(t) = b - (a + 1)
      /\ \A k \in 1 .. b - (a + 1) : t[k] = Bytes[(a + 1) + k]
  <2>1. a + 1 \in Nat /\ a + 1 <= b
    OBVIOUS
  <2> QED BY <2>1, PartIs
<1> HIDE DEF t
<1> DEFINE u == Tail(q)
<1>4. Len(q) # 0 /\ u \in Seq(Byte) /\ Len(u) = b - (a + 1)
      /\ \A k \in 1 .. b - (a + 1) : u[k] = q[k + 1]
  BY <1>2
<1> HIDE DEF u
<1>5. \A k \in 1 .. Len(u) : u[k] = t[k]
  <2> TAKE k \in 1 .. Len(u)
  <2>1. PICK l : l = k + 1
    OBVIOUS
  <2>2. l \in 1 .. b - a /\ k \in 1 .. b - (a + 1) /\ a + l = (a + 1) + k
    <3>1. k \in Nat /\ 1 <= k /\ k <= b - (a + 1)
      BY <1>4
    <3> QED BY <2>1, <3>1
  <2>3. u[k] = q[l] /\ q[l] = Bytes[a + l] /\ t[k] = Bytes[(a + 1) + k]
    BY <1>2, <1>3, <1>4, <2>1, <2>2
  <2> QED BY <2>2, <2>3
<1>6. u = t
  BY <1>3, <1>4, <1>5, SameSeq
<1> QED BY <1>6 DEF t, u

--------------------------------------------------------------------------------
\* What noise makes of what the check of the bytes behind it comes to.
LEMMA NoiseLeads ==
    ASSUME Sound, Undamaged, NEW c \in Nat, NEW p \in Nat, c < p, Aligned(c),
           NEW i, InItem(i, c), ~IsFrame(stream[i]),
           NEW x, Leads(x, c + 1, p),
           NEW o, o.rest = x.rest, o.ret \in {x.ret, 0}, o.id = "none"
    PROVE  Leads(o, c, p)
<1>1. /\ Aligned(c + 1) /\ Received(c + 1) = Received(c)
      /\ \A j, q : Whole(j, c + 1, q) => NoiseBy(c) < NoiseBy(c + 1)
  BY PastNoise
<1>2. PICK d \in c + 1 .. p :
          /\ Aligned(d) /\ x.rest = SubSeq(Bytes, d + 1, p)
          /\ Waits(x, c + 1, p) \/ Finds(x, c + 1, d, p) \/ Loses(x, c + 1, d, p)
  BY DEF Leads
<1>3. d \in c .. p /\ o.rest = SubSeq(Bytes, d + 1, p)
  BY <1>2
<1>4. CASE Waits(x, c + 1, p)
  <2>1. Waits(o, c, p)
    BY <1>1, <1>4 DEF Waits
  <2> QED BY <1>2, <1>3, <2>1 DEF Leads
<1>5. CASE Finds(x, c + 1, d, p)
  <2>1. d = c + 1 /\ \E j : Whole(j, d, p) /\ x.ret = Len(stream[j])
    BY <1>5 DEF Finds
  <2>2. NoiseBy(c) < NoiseBy(d)
    BY <1>1, <2>1
  <2>3. Loses(o, c, d, p)
    BY <2>1, <2>2 DEF Loses
  <2> QED BY <1>2, <1>3, <2>3 DEF Leads
<1>6. CASE Loses(x, c + 1, d, p)
  <2>1. NoiseBy(c) <= NoiseBy(c + 1) /\ NoiseBy(c) \in Nat /\ NoiseBy(c + 1) \in Nat
    BY CountsGrow
  <2>2. NoiseBy(d) \in Nat
    <3>1. d \in Nat /\ d <= d
      BY <1>2
    <3> QED BY <3>1, CountsGrow
  <2>3. NoiseBy(c) < NoiseBy(d)
    BY <1>6, <2>1, <2>2 DEF Loses
  <2>4. Loses(o, c, d, p)
    BY <1>6, <2>3 DEF Loses
  <2> QED BY <1>2, <1>3, <2>4 DEF Leads
<1> QED BY <1>2, <1>4, <1>5, <1>6

\* What a check of the bytes behind the first c finds, if there are any.
LEMMA CheckStarts ==
    ASSUME Sound, Undamaged, NEW p \in Nat, p <= Len(Bytes),
           NEW c \in Nat, c < p, Aligned(c),
           Aligned(c + 1) => \A x \in Check(side, SubSeq(Bytes, (c + 1) + 1, p)) :
                                Leads(x, c + 1, p),
           NEW o \in Check(side, SubSeq(Bytes, c + 1, p))
    PROVE  Leads(o, c, p)
<1> DEFINE q == SubSeq(Bytes, c + 1, p)
           t == SubSeq(Bytes, (c + 1) + 1, p)
<1>1. Bytes \in Seq(Byte) /\ Len(Bytes) \in Nat /\ side \in Sides
  BY StreamIs, EndIs DEF Sound
<1>2. q \in Seq(Byte) /\ Len(q) = p - c /\ \A k \in 1 .. p - c : q[k] = Bytes[c + k]
  BY <1>1, PartIs
<1>3. c \in c .. p
  OBVIOUS
<1>4. PICK i : InItem(i, c)
  <2>1. c < Len(Bytes)
    BY <1>1
  <2> QED BY <2>1, ItemFound
<1> DEFINE f == stream[i]
<1>5. /\ i \in 1 .. Len(stream) /\ EndOf(i - 1) <= c /\ c < EndOf(i)
      /\ EndOf(i - 1) \in Nat /\ f \in Seq(Byte) /\ Len(f) \in Nat
      /\ EndOf(i) = EndOf(i - 1) + Len(f)
      /\ \A k \in 1 .. Len(f) : Bytes[EndOf(i - 1) + k] = f[k]
  <2>1. i \in 1 .. Len(stream) /\ EndOf(i - 1) <= c /\ c < EndOf(i)
    BY <1>4 DEF InItem
  <2>2. Len(f) \in Nat
    BY <2>1, ItemsGrow
  <2> QED BY <2>1, <2>2, ItemIs
<1>6. q # << >>
  <2>1. p - c \in Nat /\ p - c # 0
    OBVIOUS
  <2> HIDE DEF q
  <2> QED BY <1>2, <2>1
<1> HIDE DEF f
<1>7. CASE IsFrame(f)
  <2>1. EndOf(i - 1) = c
    BY <1>4, <1>7, AtFrame DEF f
  <2>2. f \in Frames[side]
    BY <1>7 DEF IsFrame
  <2>3. \A k \in 1 .. Len(q) : k <= Len(f) => q[k] = f[k]
    <3> HIDE DEF q
    <3> TAKE k \in 1 .. Len(q)
    <3>1. k \in 1 .. p - c
      BY <1>2
    <3>2. k <= Len(f) => k \in 1 .. Len(f)
      BY <1>5, <3>1
    <3> QED BY <1>2, <1>5, <2>1, <3>1, <3>2
  <2>4. Check(side, q) = IF Len(q) < Len(f) THEN {Out(q, 0, "half")}
                         ELSE {Out(q, Len(f), IdOf(side))}
    <3> HIDE DEF q
    <3> QED BY <1>1, <1>2, <1>6, <2>2, <2>3, CheckOfFrame
  <2>5. CASE Len(q) < Len(f)
    <3>1. o = Out(q, 0, "half")
      <4> HIDE DEF q
      <4> QED BY <2>4, <2>5 DEF q
    <3>2. o.rest = q /\ o.ret = 0 /\ o.id = "half"
      BY <3>1 DEF Out
    <3>3. p < EndOf(i)
      <4> HIDE DEF q
      <4> QED BY <1>2, <1>5, <2>1, <2>5
    <3>4. Received(p) = Received(c)
      BY <1>4, <3>3, FrameMissing
    <3>5. Waits(o, c, p)
      BY <3>2, <3>4 DEF Waits
    <3> QED BY <1>3, <3>2, <3>5 DEF Leads
  <2>6. CASE ~(Len(q) < Len(f))
    <3>1. o = Out(q, Len(f), IdOf(side))
      <4> HIDE DEF q
      <4> QED BY <2>4, <2>6 DEF q
    <3>2. o.rest = q /\ o.ret = Len(f) /\ o.id = IdOf(side)
      BY <3>1 DEF Out
    <3>3. EndOf(i) <= p
      <4> HIDE DEF q
      <4> QED BY <1>2, <1>5, <2>1, <2>6
    <3>4. Whole(i, c, p)
      BY <1>5, <1>7, <2>1, <3>3 DEF Whole, f
    <3>5. Finds(o, c, c, p)
      BY <3>2, <3>4 DEF Finds, IdOf, f
    <3> QED BY <1>3, <3>2, <3>5 DEF Leads
  <2> QED BY <2>5, <2>6
<1>8. CASE ~IsFrame(f)
  <2>1. q[1] # Sof
    <3>1. PICK k : k = c + 1 - EndOf(i - 1)
      OBVIOUS
    <3>2. k \in 1 .. Len(f) /\ EndOf(i - 1) + k = c + 1
      BY <1>5, <3>1
    <3>3. f[k] # Sof
      BY <1>5, <1>8, <3>2, ItemsGrow DEF f
    <3>4. Bytes[c + 1] = f[k]
      <4>1. Bytes[EndOf(i - 1) + k] = f[k]
        BY <1>5, <3>2
      <4> QED BY <3>2, <4>1
    <3>5. q[1] = Bytes[c + 1]
      <4>1. 1 \in 1 .. p - c
        OBVIOUS
      <4> HIDE DEF q
      <4> QED BY <1>2, <4>1
    <3> QED BY <3>3, <3>4, <3>5
  <2>2. Tail(q) = t
    <3>1. PartOf(q, c, p)
      BY <1>1 DEF PartOf
    <3> QED BY <1>1, <3>1, TailOfPart
  <2>3. PICK inner \in [Seq(Byte) -> Outcomes] :
            Check(side, q) = Call(side, q, inner) /\ inner[Tail(q)] = Check(side, Tail(q))
    <3> HIDE DEF q
    <3> QED BY <1>2, <1>6, CheckSteps
  <2>4. Check(side, q) = Unreturned(inner[Pop(q)]) /\ Pop(q) = Tail(q)
    <3> HIDE DEF q
    <3> QED BY <1>6, <2>1, <2>3 DEF Call, Znp, Protocol, Pop
  <2>5. o \in Unreturned(Check(side, t))
    <3> HIDE DEF t
    <3>1. o \in Check(side, q)
      OBVIOUS
    <3> HIDE DEF q
    <3> QED BY <2>2, <2>3, <2>4, <3>1
  <2>6. Aligned(c + 1)
    BY <1>4, <1>8, PastNoise DEF f
  <2>7. \A x \in Check(side, t) : Leads(x, c + 1, p)
    BY <2>6
  <2> HIDE DEF q, t
  <2>8. \A x \in Check(side, t) : x.id # "fault"
    <3> TAKE x \in Check(side, t)
    <3>1. Leads(x, c + 1, p)
      BY <2>7
    <3> QED BY <3>1 DEF Leads, Waits, Finds, Loses
  <2>9. PICK x \in Check(side, t) : o.rest = x.rest /\ o.ret \in {x.ret, 0} /\ o.id = "none"
    BY <2>5, <2>8, UnreturnedIs
  <2> QED BY <1>4, <1>8, <2>7, <2>9, NoiseLeads DEF f
<1> QED BY <1>7, <1>8

\* So wherever it starts between frames, a check leads somewhere.
LEMMA CheckLeads ==
    ASSUME Sound, Undamaged, NEW p \in Nat, p <= Len(Bytes), NEW c \in 0 .. p, Aligned(c),
           NEW o \in Check(side, SubSeq(Bytes, c + 1, p))
    PROVE  Leads(o, c, p)
<1> DEFINE Good(a) == Aligned(a) => \A x \in Check(side, SubSeq(Bytes, a + 1, p)) :
                                       Leads(x, a, p)
           T == {n \in 0 .. p : Good(p - n)}
<1>1. Bytes \in Seq(Byte) /\ Len(Bytes) \in Nat
  BY StreamIs, EndIs
<1>2. 0 \in T
  <2>1. SUFFICES ASSUME Aligned(p), NEW x \in Check(side, SubSeq(Bytes, p + 1, p))
                 PROVE  Leads(x, p, p)
    BY DEF T
  <2>2. SubSeq(Bytes, p + 1, p) = << >>
    BY <1>1
  <2>3. x = Out(<< >>, 0, "none")
    BY <2>1, <2>2, CheckNothing
  <2>4. x.rest = << >> /\ x.ret = 0 /\ x.id = "none"
    BY <2>3 DEF Out
  <2>5. Waits(x, p, p)
    BY <2>4 DEF Waits
  <2>6. p \in p .. p
    OBVIOUS
  <2> QED BY <2>1, <2>2, <2>4, <2>5, <2>6 DEF Leads
<1>3. ASSUME NEW n \in 1 .. p, n - 1 \in T
      PROVE  n \in T
  <2>1. PICK a : a = p - n
    OBVIOUS
  <2>2. a \in Nat /\ a < p /\ p - (n - 1) = a + 1 /\ n \in 0 .. p
    BY <2>1
  <2>3. Good(a + 1)
    <3> HIDE DEF Good
    <3> QED BY <1>3, <2>2
  <2>4. Good(a)
    <3> SUFFICES ASSUME Aligned(a), NEW x \in Check(side, SubSeq(Bytes, a + 1, p))
                 PROVE  Leads(x, a, p)
      OBVIOUS
    <3> QED BY <2>2, <2>3, CheckStarts
  <2> HIDE DEF Good
  <2> QED BY <2>1, <2>2, <2>4
<1>4. T = 0 .. p
  <2> HIDE DEF Good
  <2>1. T \in SUBSET (0 .. p)
    OBVIOUS
  <2> HIDE DEF T
  <2> QED BY <1>2, <1>3, <2>1, UpTo
<1>5. Good(c)
  <2>1. p - c \in 0 .. p /\ p - (p - c) = c
    OBVIOUS
  <2> HIDE DEF Good
  <2>2. p - c \in T
    <3> HIDE DEF T
    <3> QED BY <1>4, <2>1
  <2>3. Good(p - (p - c))
    BY <2>2
  <2> QED BY <2>1, <2>3
<1> QED BY <1>5

--------------------------------------------------------------------------------
(* The inductive invariant for streams with noise.                           *)

\* g is the stream's frames m[1], m[2] and so on, all among its first c bytes.
Picks(g, m, c) ==
    /\ m \in [1 .. Len(g) -> 1 .. Len(stream)]
    /\ \A i \in 1 .. Len(g) : /\ IsFrame(stream[m[i]]) /\ EndOf(m[i]) <= c
                              /\ g[i] = stream[m[i]]
    /\ \A i, j \in 1 .. Len(g) : i < j => m[i] < m[j]

\* What is buffered follows the first c bytes, that hold the frames dispatched; of the
\* frames that have come, no more are missing than the noise in these bytes explains.
Tracks(c) ==
    /\ c \in 0 .. pos /\ Aligned(c)
    /\ fifo = SubSeq(Bytes, c + 1, pos)
    /\ \E m : Picks(got, m, c)
    /\ bursts = 0 => Received(pos) <= Len(got) + NoiseBy(c)

NoiseInv ==
    /\ Sound
    /\ ~dropped => got \in Seq(Seq(Byte)) /\ status = "run" /\ \E c : Tracks(c)

--------------------------------------------------------------------------------

\* A whole frame of the stream.
LEMMA WholeIs ==
    ASSUME Sound, Undamaged, NEW c \in Nat, NEW p \in Nat, NEW i, Whole(i, c, p)
    PROVE  /\ InItem(i, c) /\ EndOf(i) \in Nat /\ c <= EndOf(i)
           /\ stream[i] \in Seq(Byte) /\ Len(stream[i]) \in Nat
           /\ EndOf(i) - c = Len(stream[i])
           /\ \A k \in 1 .. Len(stream[i]) : Bytes[c + k] = stream[i][k]
<1>1. i \in 1 .. Len(stream) /\ EndOf(i - 1) = c
  BY DEF Whole
<1>2. Len(stream[i]) \in Nat /\ EndOf(i - 1) < EndOf(i)
  BY <1>1, ItemsGrow
<1>3. stream[i] \in Seq(Byte) /\ EndOf(i) = c + Len(stream[i])
      /\ \A k \in 1 .. Len(stream[i]) : Bytes[c + k] = stream[i][k]
  BY <1>1, ItemIs
<1>4. InItem(i, c)
  BY <1>1, <1>2 DEF InItem
<1> QED BY <1>2, <1>3, <1>4

\* What is taken out of a buffer that starts with a frame of the stream.
LEMMA TakeIs ==
    ASSUME Sound, Undamaged, NEW c \in Nat, NEW p \in Nat, c <= p, p <= Len(Bytes),
           NEW i, Whole(i, c, p), NEW q, PartOf(q, c, p)
    PROVE  LET n == Min2(Len(stream[i]), Len(q))
           IN /\ PartOf(SubSeq(q, n + 1, Len(q)), EndOf(i), p)
              /\ SubSeq(q, 1, n) = stream[i]
<1> DEFINE f == stream[i]
           b == EndOf(i)
           n == Min2(Len(f), Len(q))
<1>1. /\ b \in Nat /\ c <= b /\ f \in Seq(Byte) /\ Len(f) \in Nat /\ b - c = Len(f)
      /\ \A k \in 1 .. Len(f) : Bytes[c + k] = f[k]
  BY WholeIs
<1>2. b <= p
  BY DEF Whole
<1>3. Bytes \in Seq(Byte) /\ Len(Bytes) \in Nat
  BY StreamIs, EndIs
<1>4. q = SubSeq(Bytes, c + 1, p)
  BY DEF PartOf
<1> HIDE DEF b, f
<1>5. Len(q) = p - c
  BY <1>3, <1>4, PartIs
<1>6. n = b - c
  BY <1>1, <1>2, <1>5 DEF Min2
<1>7. LET t == SubSeq(Bytes, c + 1, p)
      IN /\ SubSeq(t, (b - c) + 1, Len(t)) = SubSeq(Bytes, b + 1, p)
         /\ SubSeq(t, 1, b - c) = SubSeq(Bytes, c + 1, b)
  BY <1>1, <1>2, <1>3, PartOfPart
<1>8. SubSeq(Bytes, c + 1, b) = f
  <2> DEFINE g == SubSeq(Bytes, c + 1, b)
  <2>1. b <= Len(Bytes)
    BY <1>1, <1>2, <1>3
  <2>2. g \in Seq(Byte) /\ Len(g) = b - c /\ \A k \in 1 .. b - c : g[k] = Bytes[c + k]
    BY <1>1, <1>3, <2>1, PartIs
  <2> HIDE DEF g
  <2>3. Len(g) = Len(f) /\ \A k \in 1 .. Len(g) : g[k] = f[k]
    BY <1>1, <2>2
  <2>4. g = f
    BY <1>1, <2>2, <2>3, SameSeq
  <2> QED BY <2>4 DEF g
<1> HIDE DEF n
<1> QED BY <1>4, <1>6, <1>7, <1>8 DEF PartOf, n, f, b

\* Frames among the first bytes are among more of them ...
LEMMA PicksStay ==
    ASSUME Sound, NEW g \in Seq(Seq(Byte)), NEW c \in Nat, NEW d \in Nat, c <= d,
           NEW m, Picks(g, m, c)
    PROVE  Picks(g, m, d)
<1>1. \A j \in 1 .. Len(stream) : EndOf(j) \in Nat
  <2>1. \A j \in 1 .. Len(stream) : j \in 0 .. Len(stream)
    BY StreamIs
  <2> QED BY <2>1, EndIs
<1>2. ASSUME NEW i \in 1 .. Len(g)
      PROVE  EndOf(m[i]) <= d
  <2>1. m[i] \in 1 .. Len(stream) /\ EndOf(m[i]) <= c
    BY DEF Picks
  <2>2. EndOf(m[i]) \in Nat
    BY <1>1, <2>1
  <2> QED BY <2>1, <2>2
<1> QED BY <1>2 DEF Picks

\* ... and the frame that follows these bytes is one more.
LEMMA PicksNext ==
    ASSUME Sound, Undamaged, NEW g \in Seq(Seq(Byte)), NEW c \in Nat, NEW p \in Nat,
           NEW m, Picks(g, m, c), NEW i, Whole(i, c, p)
    PROVE  \E l : Picks(Append(g, stream[i]), l, EndOf(i))
<1> DEFINE X == Seq(Byte)
           f == stream[i]
           b == EndOf(i)
           n == Len(g)
           h == Append(g, f)
           s == Len(stream)
           l == [k \in 1 .. n + 1 |-> IF k = n + 1 THEN i ELSE m[k]]
<1>1. InItem(i, c) /\ b \in Nat /\ c <= b /\ f \in X
  BY WholeIs
<1>2. i \in 1 .. s /\ IsFrame(f)
  BY DEF Whole
<1>3. Picks(g, m, b)
  BY <1>1, PicksStay
<1>4. /\ m \in [1 .. n -> 1 .. s]
      /\ \A k \in 1 .. n : /\ IsFrame(stream[m[k]]) /\ EndOf(m[k]) <= b /\ EndOf(m[k]) <= c
                           /\ g[k] = stream[m[k]]
      /\ \A k, j \in 1 .. n : k < j => m[k] < m[j]
  <2> HIDE DEF b
  <2> QED BY <1>3 DEF Picks
<1>5. \A k \in 1 .. n : m[k] < i
  <2> TAKE k \in 1 .. n
  <2>1. m[k] \in 1 .. s /\ EndOf(m[k]) <= c
    BY <1>4
  <2> QED BY <1>1, <2>1, EndsBefore
<1>6. g \in Seq(X) /\ n \in Nat
  OBVIOUS
<1> HIDE DEF X, f, s
<1>7. Len(h) = n + 1 /\ h[n + 1] = f /\ \A k \in 1 .. n : h[k] = g[k]
  BY <1>1, <1>6
<1>8. b <= b
  BY <1>1
<1> HIDE DEF b, h, n
<1>9. l \in [1 .. n + 1 -> 1 .. s] /\ l[n + 1] = i /\ \A k \in 1 .. n : l[k] = m[k]
  BY <1>2, <1>4, <1>6
<1> HIDE DEF l
<1>10. ASSUME NEW k \in 1 .. n + 1
       PROVE  /\ IsFrame(stream[l[k]]) /\ EndOf(l[k]) <= b /\ h[k] = stream[l[k]]
  <2>1. CASE k = n + 1
    BY <1>2, <1>7, <1>8, <1>9, <2>1 DEF f, b
  <2>2. CASE k # n + 1
    <3>1. k \in 1 .. n
      BY <1>6, <2>2
    <3> QED BY <1>4, <1>7, <1>9, <3>1
  <2> QED BY <2>1, <2>2
<1>11. ASSUME NEW k \in 1 .. n + 1, NEW j \in 1 .. n + 1, k < j
       PROVE  l[k] < l[j]
  <2>1. k \in 1 .. n
    BY <1>6, <1>11
  <2>2. CASE j = n + 1
    BY <1>5, <1>9, <2>1, <2>2
  <2>3. CASE j # n + 1
    <3>1. j \in 1 .. n
      BY <1>6, <2>3
    <3> QED BY <1>4, <1>9, <1>11, <2>1, <3>1
  <2> QED BY <2>2, <2>3
<1>12. Picks(h, l, b)
  BY <1>7, <1>9, <1>10, <1>11 DEF Picks, s
<1> QED BY <1>12 DEF h, f, b

--------------------------------------------------------------------------------

\* The invariant holds at first.
LEMMA NoiseInitially == Undamaged /\ Init => NoiseInv
<1> SUFFICES ASSUME Undamaged, Init PROVE NoiseInv
  OBVIOUS
<1>1. Sound /\ got = << >> /\ status = "run" /\ pos = 0 /\ fifo = << >>
  BY FramingInitially DEF FramingInv, Init
<1>2. \A i \in 1 .. Len(stream) : EndOf(i - 1) \in Nat /\ EndOf(i) \in Nat
                                  /\ EndOf(i - 1) < EndOf(i)
  <2>1. \A i \in 1 .. Len(stream) : i - 1 \in 0 .. Len(stream) /\ i \in 0 .. Len(stream)
    BY <1>1, StreamIs
  <2> QED BY <1>1, <2>1, EndIs, ItemsGrow
<1>3. Aligned(0)
  <2> SUFFICES ASSUME NEW i \in 1 .. Len(stream) PROVE 0 <= EndOf(i - 1)
    BY DEF Aligned
  <2> QED BY <1>2
<1>4. fifo = SubSeq(Bytes, 0 + 1, pos)
  <2>1. Bytes \in Seq(Byte)
    BY <1>1, StreamIs
  <2> QED BY <1>1, <2>1
<1>5. \E m : Picks(got, m, 0)
  <2> DEFINE m == [i \in 1 .. 0 |-> 1]
  <2>1. Len(got) = 0
    BY <1>1
  <2>2. m \in [1 .. Len(got) -> 1 .. Len(stream)] /\ \A i \in 1 .. Len(got) : FALSE
    BY <2>1
  <2> HIDE DEF m
  <2>3. Picks(got, m, 0)
    BY <2>2 DEF Picks
  <2> QED BY <2>3
<1>6. Received(pos) <= Len(got) + NoiseBy(0)
  <2>1. Received(0) = 0
    <3>1. {i \in DOMAIN stream : IsFrame(stream[i]) /\ EndOf(i) <= 0} = {}
      <4>1. DOMAIN stream = 1 .. Len(stream)
        BY <1>1, StreamIs
      <4>2. \A i \in 1 .. Len(stream) : ~(EndOf(i) <= 0)
        BY <1>2
      <4> QED BY <4>1, <4>2
    <3> QED BY <3>1, FS_EmptySet DEF Received
  <2>2. NoiseBy(0) \in Nat
    BY <1>1, CountsGrow
  <2>3. Len(got) = 0
    BY <1>1
  <2> QED BY <1>1, <2>1, <2>2, <2>3
<1>7. Tracks(0)
  BY <1>1, <1>3, <1>4, <1>5, <1>6 DEF Tracks
<1>8. got \in Seq(Seq(Byte))
  BY <1>1
<1> QED BY <1>1, <1>7, <1>8 DEF NoiseInv

\* A read whose check leads to d: from where its bytes are tracked on.
LEMMA ReadTracks ==
    ASSUME Sound, Undamaged, got \in Seq(Seq(Byte)), NEW c, Tracks(c),
           NEW k \in 1 .. Len(Bytes) - pos, Recv(k), ~dropped'
    PROVE  /\ status' = status
           /\ \E b \in 0 .. pos + k :
                 /\ Aligned(b) /\ fifo' = SubSeq(Bytes, b + 1, pos + k)
                 /\ \E m : Picks(got', m, b)
                 /\ got' \in Seq(Seq(Byte))
                 /\ bursts' = 0 => Received(pos + k) <= Len(got') + NoiseBy(b)
<1> DEFINE p == pos + k
           q == SubSeq(Bytes, c + 1, p)
           n == Len(Bytes)
<1>1. /\ Bytes \in Seq(Byte) /\ n \in Nat /\ pos \in Nat /\ p \in Nat /\ pos < p /\ p <= n
      /\ bursts \in Nat
  <2>1. Bytes \in Seq(Byte) /\ n \in Nat
    BY StreamIs, EndIs
  <2> HIDE DEF n
  <2>2. pos \in 0 .. n /\ k \in 1 .. n - pos /\ bursts \in Nat
    BY DEF Sound, n
  <2> QED BY <2>1, <2>2
<1>2. /\ c \in 0 .. pos /\ Aligned(c) /\ fifo = SubSeq(Bytes, c + 1, pos)
      /\ (\E m : Picks(got, m, c))
      /\ bursts = 0 => Received(pos) <= Len(got) + NoiseBy(c)
  BY DEF Tracks
<1>3. c \in Nat /\ c <= pos /\ c < p /\ c \in 0 .. p
  <2> HIDE DEF p
  <2> QED BY <1>1, <1>2
<1>4. Put(fifo, SubSeq(Bytes, pos + 1, p)) = q
  BY <1>2, <1>3, ReadKeeps
<1>5. PICK o \in Check(side, q) :
          IF o.id = "fault" THEN status' = "fault" /\ UNCHANGED <<fifo, got>>
          ELSE Take(o) /\ UNCHANGED status
  <2>1. \E o \in Check(side, Put(fifo, SubSeq(Bytes, pos + 1, pos + k))) :
            IF o.id = "fault" THEN status' = "fault" /\ UNCHANGED <<fifo, got>>
            ELSE Take(o) /\ UNCHANGED status
    BY DEF Recv
  <2> HIDE DEF q
  <2> QED BY <1>4, <2>1
<1>6. bursts' = IF Received(p) > Received(pos) + 1 THEN bursts + 1 ELSE bursts
  BY DEF Recv
<1> DEFINE g == Len(got)
<1>7. g \in Nat
  OBVIOUS
<1> HIDE DEF p, n, g
<1>8. Received(pos) \in Nat /\ Received(p) \in Nat
  <2>1. pos <= p
    BY <1>1
  <2> QED BY <1>1, <2>1, CountsGrow
<1>9. bursts' = 0 => /\ Received(p) <= Received(pos) + 1
                     /\ Received(pos) <= g + NoiseBy(c)
  <2>1. bursts' = 0 => bursts = 0 /\ ~(Received(p) > Received(pos) + 1)
    BY <1>1, <1>6
  <2> QED BY <1>2, <1>8, <2>1 DEF g
<1>10. PICK d \in c .. p : /\ Aligned(d) /\ o.rest = SubSeq(Bytes, d + 1, p)
                           /\ Waits(o, c, p) \/ Finds(o, c, d, p) \/ Loses(o, c, d, p)
  <2>1. Leads(o, c, p)
    <3>1. p <= Len(Bytes)
      BY <1>1 DEF n
    <3> QED BY <1>1, <1>2, <1>3, <3>1, CheckLeads
  <2> QED BY <2>1 DEF Leads
<1>11. /\ d \in Nat /\ c <= d /\ d <= p /\ p <= Len(Bytes)
       /\ NoiseBy(c) \in Nat /\ NoiseBy(d) \in Nat /\ NoiseBy(c) <= NoiseBy(d)
       /\ PartOf(o.rest, d, p)
  <2>1. d \in Nat /\ c <= d /\ d <= p /\ p <= Len(Bytes)
    BY <1>1, <1>3, <1>10 DEF n
  <2>2. PartOf(o.rest, d, p)
    BY <1>10 DEF PartOf
  <2> QED BY <1>3, <2>1, <2>2, CountsGrow
<1>12. o.id # "fault"
  BY <1>10 DEF Waits, Finds, Loses
<1>13. Take(o) /\ status' = status
  BY <1>5, <1>12
<1>14. /\ fifo' = SubSeq(o.rest, Min2(o.ret, Len(o.rest)) + 1, Len(o.rest))
       /\ got' = IF o.id \in {"business", "message"}
                 THEN Append(got, SubSeq(o.rest, 1, Min2(o.ret, Len(o.rest)))) ELSE got
  BY <1>13 DEF Take
\* nothing is taken out
<1>15. ASSUME o.ret = 0
       PROVE  fifo' = SubSeq(Bytes, d + 1, p)
  <2>1. o.rest \in Seq(Byte)
    <3>1. SubSeq(Bytes, d + 1, p) \in Seq(Byte)
      BY <1>1, <1>11, PartIs
    <3> QED BY <1>10, <3>1
  <2>2. Min2(o.ret, Len(o.rest)) = 0
    <3>1. Len(o.rest) \in Nat
      BY <2>1
    <3> QED BY <1>15, <3>1 DEF Min2
  <2>3. fifo' = SubSeq(o.rest, 0 + 1, Len(o.rest))
    BY <1>14, <2>2
  <2>4. SubSeq(o.rest, 0 + 1, Len(o.rest)) = o.rest
    BY <2>1, PrefixIs
  <2> QED BY <1>10, <2>3, <2>4
\* a frame is taken out
<1>16. ASSUME NEW i, Whole(i, d, p), o.ret = Len(stream[i])
       PROVE  /\ fifo' = SubSeq(Bytes, EndOf(i) + 1, p)
              /\ SubSeq(o.rest, 1, Min2(o.ret, Len(o.rest))) = stream[i]
              /\ EndOf(i) \in 0 .. p /\ Aligned(EndOf(i)) /\ d <= EndOf(i)
              /\ NoiseBy(EndOf(i)) \in Nat /\ NoiseBy(d) <= NoiseBy(EndOf(i))
  <2> DEFINE l == Min2(Len(stream[i]), Len(o.rest))
  <2>1. /\ PartOf(SubSeq(o.rest, l + 1, Len(o.rest)), EndOf(i), p)
        /\ SubSeq(o.rest, 1, l) = stream[i]
    BY <1>1, <1>11, <1>16, TakeIs
  <2>2. EndOf(i) \in Nat /\ d <= EndOf(i) /\ EndOf(i) <= p /\ i \in 1 .. Len(stream)
    BY <1>1, <1>11, <1>16, WholeIs DEF Whole
  <2>3. fifo' = SubSeq(Bytes, EndOf(i) + 1, p)
    BY <1>14, <1>16, <2>1 DEF PartOf
  <2>4. Aligned(EndOf(i))
    <3> SUFFICES ASSUME NEW j \in 1 .. Len(stream)
                 PROVE  EndOf(i) <= EndOf(j - 1) \/ EndOf(j) <= EndOf(i)
      BY DEF Aligned
    <3>1. Len(stream) \in Nat
      BY StreamIs
    <3>2. CASE i < j
      <4>1. i \in 0 .. Len(stream) /\ j - 1 \in i .. Len(stream)
        BY <2>2, <3>1, <3>2
      <4> QED BY <4>1, EndIs
    <3>3. CASE ~(i < j)
      <4>1. j \in 0 .. Len(stream) /\ i \in j .. Len(stream)
        BY <2>2, <3>1, <3>3
      <4> QED BY <4>1, EndIs
    <3> QED BY <3>2, <3>3
  <2>5. NoiseBy(EndOf(i)) \in Nat /\ NoiseBy(d) <= NoiseBy(EndOf(i))
    BY <1>11, <2>2, CountsGrow
  <2> HIDE DEF l
  <2>6. SubSeq(o.rest, 1, Min2(o.ret, Len(o.rest))) = stream[i]
    BY <1>16, <2>1 DEF l
  <2>7. EndOf(i) \in 0 .. p
    BY <1>1, <2>2
  <2> QED BY <2>2, <2>3, <2>4, <2>5, <2>6, <2>7
<1> DEFINE From(b) ==
               /\ Aligned(b) /\ fifo' = SubSeq(Bytes, b + 1, p)
               /\ \E m : Picks(got', m, b)
               /\ got' \in Seq(Seq(Byte))
               /\ bursts' = 0 => Received(p) <= Len(got') + NoiseBy(b)
           Result == \E b \in 0 .. p : From(b)
<1> SUFFICES Result
  BY <1>13 DEF p
<1>17. d \in 0 .. p
  BY <1>1, <1>11
<1>18. PICK m : Picks(got, m, c)
  BY <1>2
<1>19. CASE Waits(o, c, p)
  <2>1. fifo' = SubSeq(Bytes, d + 1, p) /\ got' = got
    BY <1>14, <1>15, <1>19 DEF Waits
  <2>2. Received(c) \in Nat /\ Received(c) <= Received(pos)
    BY <1>1, <1>3, CountsGrow
  <2>3. Received(p) = Received(c)
    BY <1>19 DEF Waits
  <2>4. bursts' = 0 => Received(p) <= Len(got') + NoiseBy(d)
    <3>1. Len(got') = g
      BY <2>1 DEF g
    <3> QED BY <1>7, <1>8, <1>9, <1>11, <2>2, <2>3, <3>1
  <2>5. Picks(got', m, d)
    BY <1>3, <1>11, <1>18, <2>1, PicksStay
  <2>6. got' \in Seq(Seq(Byte))
    BY <2>1
  <2>7. From(d)
    BY <1>10, <2>1, <2>4, <2>5, <2>6
  <2> HIDE DEF From
  <2> QED BY <1>17, <2>7
<1>20. CASE Finds(o, c, d, p)
  <2>1. PICK i : Whole(i, d, p) /\ o.ret = Len(stream[i])
    BY <1>20 DEF Finds
  <2>2. d = c /\ got' = Append(got, stream[i])
    <3>1. d = c /\ o.id \in {"business", "message"}
      BY <1>20 DEF Finds
    <3> QED BY <1>14, <1>16, <2>1, <3>1
  <2>3. \E l : Picks(got', l, EndOf(i))
    BY <1>1, <1>3, <1>18, <2>1, <2>2, PicksNext
  <2>4. got' \in Seq(Seq(Byte)) /\ Len(got') = g + 1
    <3>1. stream[i] \in Seq(Byte)
      BY <1>1, <1>11, <2>1, WholeIs
    <3> DEFINE X == Seq(Byte)
    <3>2. got \in Seq(X) /\ stream[i] \in X
      BY <3>1
    <3> HIDE DEF X
    <3>3. got' \in Seq(X) /\ Len(got') = g + 1
      BY <2>2, <3>2 DEF g
    <3> QED BY <3>3 DEF X
  <2> DEFINE b == EndOf(i)
  <2>5. /\ fifo' = SubSeq(Bytes, b + 1, p) /\ b \in 0 .. p /\ Aligned(b)
        /\ NoiseBy(b) \in Nat /\ NoiseBy(d) <= NoiseBy(b)
    BY <1>16, <2>1
  <2> HIDE DEF b
  <2>6. bursts' = 0 => Received(p) <= Len(got') + NoiseBy(b)
    BY <1>7, <1>8, <1>9, <1>11, <2>2, <2>4, <2>5
  <2>7. \E l : Picks(got', l, b)
    BY <2>3 DEF b
  <2>8. From(b)
    BY <2>4, <2>5, <2>6, <2>7
  <2> HIDE DEF From
  <2> QED BY <2>5, <2>8
<1>21. CASE Loses(o, c, d, p)
  <2>1. o.id = "none" /\ NoiseBy(c) < NoiseBy(d)
        /\ (o.ret = 0 \/ \E i : Whole(i, d, p) /\ o.ret = Len(stream[i]))
    BY <1>21 DEF Loses
  <2>2. got' = got
    BY <1>14, <2>1
  <2>3. got' \in Seq(Seq(Byte)) /\ Len(got') = g
    BY <2>2 DEF g
  <2>4. ASSUME NEW b \in 0 .. p, d <= b, NoiseBy(b) \in Nat, NoiseBy(d) <= NoiseBy(b),
               Aligned(b), fifo' = SubSeq(Bytes, b + 1, p)
        PROVE  Result
    <3>1. bursts' = 0 => Received(p) <= Len(got') + NoiseBy(b)
      BY <1>7, <1>8, <1>9, <1>11, <2>1, <2>3, <2>4
    <3>2. Picks(got', m, b)
      <4>1. b \in Nat /\ c <= b
        BY <1>1, <1>3, <1>11, <2>4
      <4> QED BY <1>3, <1>18, <2>2, <4>1, PicksStay
    <3>3. From(b)
      BY <2>3, <2>4, <3>1, <3>2
    <3> HIDE DEF From
    <3> QED BY <3>3
  <2> HIDE DEF Result
  <2>5. CASE o.ret = 0
    <3>1. d <= d /\ NoiseBy(d) <= NoiseBy(d)
      BY <1>11
    <3> QED BY <1>10, <1>11, <1>15, <1>17, <2>4, <2>5, <3>1
  <2>6. CASE \E i : Whole(i, d, p) /\ o.ret = Len(stream[i])
    <3>1. PICK i : Whole(i, d, p) /\ o.ret = Len(stream[i])
      BY <2>6
    <3> QED BY <1>16, <2>4, <3>1
  <2> QED BY <2>1, <2>5, <2>6
<1> HIDE DEF Result
<1> QED BY <1>10, <1>19, <1>20, <1>21

--------------------------------------------------------------------------------

\* A step leaves the stream, so what tracks it after a read does so in the next state.
LEMMA TracksStay ==
    ASSUME side' = side, stream' = stream, NEW b, NEW p, pos' = p,
           b \in 0 .. p, Aligned(b), fifo' = SubSeq(Bytes, b + 1, p),
           \E m : Picks(got', m, b),
           bursts' = 0 => Received(p) <= Len(got') + NoiseBy(b)
    PROVE  Tracks(b)'
<1>1. Bytes' = Bytes /\ \A i : EndOf(i)' = EndOf(i)
  BY StreamStays
<1>2. Aligned(b)' = Aligned(b)
  BY <1>1 DEF Aligned, IsFrame
<1>3. NoiseBy(b)' = NoiseBy(b)
  BY <1>1 DEF NoiseBy, IsFrame
<1>4. Received(pos)' = Received(p)
  BY DEF Received, EndOf, IsFrame
<1>5. \A m : Picks(got, m, b)' <=> Picks(got', m, b)
  BY <1>1 DEF Picks, IsFrame
<1> QED BY <1>1, <1>2, <1>3, <1>4, <1>5 DEF Tracks

\* Every step keeps the invariant.
LEMMA NoiseNext == Undamaged /\ NoiseInv /\ [Next]_vars => NoiseInv'
<1> SUFFICES ASSUME Undamaged, NoiseInv, [Next]_vars PROVE NoiseInv'
  OBVIOUS
<1>1. ASSUME NEW k \in 1 .. Len(Bytes) - pos, Recv(k)
      PROVE  NoiseInv'
  <2>1. Sound /\ Sound'
    BY <1>1, SoundStays DEF NoiseInv
  <2>2. SUFFICES ASSUME ~dropped'
                 PROVE  got' \in Seq(Seq(Byte)) /\ status' = "run" /\ \E b : Tracks(b)'
    BY <2>1 DEF NoiseInv
  <2>3. side' = side /\ stream' = stream /\ pos' = pos + k /\ (dropped => dropped')
    BY <1>1 DEF Recv
  <2>4. PICK c : got \in Seq(Seq(Byte)) /\ status = "run" /\ Tracks(c)
    BY <2>2, <2>3 DEF NoiseInv
  <2>5. /\ status' = status
        /\ \E b \in 0 .. pos + k :
              /\ Aligned(b) /\ fifo' = SubSeq(Bytes, b + 1, pos + k)
              /\ \E m : Picks(got', m, b)
              /\ got' \in Seq(Seq(Byte))
              /\ bursts' = 0 => Received(pos + k) <= Len(got') + NoiseBy(b)
    BY <1>1, <2>1, <2>2, <2>4, ReadTracks
  <2>6. PICK b \in 0 .. pos + k :
              /\ Aligned(b) /\ fifo' = SubSeq(Bytes, b + 1, pos + k)
              /\ \E m : Picks(got', m, b)
              /\ got' \in Seq(Seq(Byte))
              /\ bursts' = 0 => Received(pos + k) <= Len(got') + NoiseBy(b)
    BY <2>5
  <2>7. Tracks(b)'
    BY <2>3, <2>6, TracksStay
  <2> QED BY <2>4, <2>5, <2>6, <2>7
<1>2. CASE UNCHANGED vars
  <2>1. /\ side' = side /\ stream' = stream /\ pos' = pos /\ fifo' = fifo /\ got' = got
        /\ dropped' = dropped /\ bursts' = bursts /\ status' = status
    BY <1>2 DEF vars
  <2>2. Sound' = Sound
    BY <2>1 DEF Sound, Bytes
  <2>3. ASSUME NEW c, Tracks(c) PROVE Tracks(c)'
    <3>1. /\ c \in 0 .. pos /\ Aligned(c) /\ fifo' = SubSeq(Bytes, c + 1, pos)
          /\ (\E m : Picks(got', m, c))
          /\ bursts' = 0 => Received(pos) <= Len(got') + NoiseBy(c)
      BY <2>1, <2>3 DEF Tracks
    <3> QED BY <2>1, <3>1, TracksStay
  <2> QED BY <2>1, <2>2, <2>3 DEF NoiseInv
<1> QED BY <1>1, <1>2 DEF Next

\* With stray bytes between frames the buffer still starts where no frame is cut, the
\* frames dispatched are frames of the stream in its order, and no more of those received
\* are missing than noise has been passed; the check never reads past its buffer
\* (protocol.c:16-98).
THEOREM NoiseTracked == ASSUME Undamaged PROVE Spec => []NoiseInv
<1>1. Init => NoiseInv
  BY NoiseInitially
<1>2. NoiseInv /\ [Next]_vars => NoiseInv'
  BY NoiseNext
<1> QED BY <1>1, <1>2, PTL DEF Spec

\* On such streams, as long as the buffer has room, the check never reads past what it
\* was given, although both of its lengths come from the peer (protocol.c:33-40,75-92).
THEOREM CheckStaysInBuffer ==
    ASSUME Undamaged PROVE Spec => [](~dropped => status = "run")
<1>1. NoiseInv => (~dropped => status = "run")
  BY DEF NoiseInv
<1> QED BY <1>1, NoiseTracked, PTL

\* What is missing is no more than the noise explains.
LEMMA NoiseInvCosts == Undamaged /\ NoiseInv => NoiseCostsOneFrame
<1> DEFINE sent == {i \in DOMAIN stream : IsFrame(stream[i])}
           noisy == DOMAIN stream \ sent
           g == Len(got)
           n == Len(stream)
           missed == Len(got) + Cardinality(noisy)
<1> SUFFICES ASSUME Undamaged, NoiseInv, ~dropped
             PROVE  /\ \E m \in [DOMAIN got -> sent] :
                          /\ \A i, j \in DOMAIN got : i < j => m[i] < m[j]
                          /\ \A i \in DOMAIN got : got[i] = stream[m[i]]
                    /\ pos = Len(Bytes) /\ bursts = 0 => missed >= Cardinality(sent)
  BY DEF NoiseCostsOneFrame
<1>1. PICK c : Sound /\ got \in Seq(Seq(Byte)) /\ Tracks(c)
  BY DEF NoiseInv
<1>2. /\ c \in 0 .. pos
      /\ bursts = 0 => Received(pos) <= g + NoiseBy(c)
  BY <1>1 DEF Tracks
<1>3. PICK m : Picks(got, m, c)
  BY <1>1 DEF Tracks
<1>4. DOMAIN got = 1 .. g /\ DOMAIN stream = 1 .. n /\ n \in Nat /\ g \in Nat
  BY <1>1, StreamIs
<1>5. \A i \in 1 .. n : i \in 0 .. n /\ n \in i .. n
  <2> HIDE DEF n
  <2> QED BY <1>4
<1>6. \A i \in 1 .. n : EndOf(i) \in Nat /\ EndOf(i) <= Len(Bytes)
  BY <1>1, <1>5, EndIs
<1>7. pos \in Nat /\ c \in Nat
  <2>1. Len(Bytes) \in Nat
    BY <1>1, EndIs
  <2> QED BY <1>1, <1>2, <2>1 DEF Sound
<1> HIDE DEF g, n
<1>8. m \in [1 .. g -> sent] /\ (\A i, j \in 1 .. g : i < j => m[i] < m[j])
      /\ \A i \in 1 .. g : got[i] = stream[m[i]]
  BY <1>3, <1>4 DEF Picks, g, n
<1>9. ASSUME pos = Len(Bytes)
      PROVE  Received(pos) = Cardinality(sent)
  <2>1. {i \in DOMAIN stream : IsFrame(stream[i]) /\ EndOf(i) <= pos} = sent
    BY <1>4, <1>6, <1>9
  <2> HIDE DEF sent
  <2> QED BY <2>1 DEF Received
<1>10. NoiseBy(c) \in Nat /\ Cardinality(noisy) \in Nat /\ NoiseBy(c) <= Cardinality(noisy)
  <2> DEFINE N == {i \in DOMAIN stream : ~IsFrame(stream[i]) /\ EndOf(i) <= c}
  <2>1. N \subseteq noisy /\ noisy \subseteq 1 .. n
    BY <1>4
  <2>2. IsFiniteSet(1 .. n)
    BY <1>4, FS_Interval
  <2> HIDE DEF N, noisy
  <2>3. IsFiniteSet(noisy)
    BY <2>1, <2>2, FS_Subset
  <2>4. IsFiniteSet(N) /\ Cardinality(N) <= Cardinality(noisy)
    BY <2>1, <2>3, FS_Subset
  <2>5. Cardinality(N) \in Nat /\ Cardinality(noisy) \in Nat
    BY <2>3, <2>4, FS_CardinalityType
  <2> QED BY <2>4, <2>5 DEF NoiseBy, N
<1>11. Received(pos) \in Nat
  <2>1. pos <= pos
    BY <1>7
  <2> QED BY <1>1, <1>7, <2>1, CountsGrow
<1>12. pos = Len(Bytes) /\ bursts = 0 => missed >= Cardinality(sent)
  <2> HIDE DEF sent, noisy
  <2>1. missed = g + Cardinality(noisy)
    BY DEF g
  <2> HIDE DEF missed
  <2> QED BY <1>2, <1>4, <1>9, <1>10, <1>11, <2>1
<1> HIDE DEF sent, noisy, missed
<1> QED BY <1>4, <1>8, <1>12

\* Stray bytes that cannot start a frame cost at most one frame each time they come, never
\* invent a message and never reorder (protocol.c:26-28,71-73).
THEOREM NoiseCostsFrames == ASSUME Undamaged PROVE Spec => []NoiseCostsOneFrame
<1>1. NoiseInv => NoiseCostsOneFrame
  BY NoiseInvCosts
<1> QED BY <1>1, NoiseTracked, PTL

--------------------------------------------------------------------------------
(* A check leaves no more in the buffer than there was.                      *)
Fits(outs, n) == \A o \in outs : o.rest \in Seq(Byte) /\ Len(o.rest) <= n
Shrinks(inner) == \A s \in Seq(Byte) : Fits(inner[s], Len(s))

LEMMA PopFits ==
    ASSUME NEW inner, Shrinks(inner), NEW n \in Nat, NEW r \in Seq(Byte), Len(r) <= n
    PROVE  Fits(inner[Pop(r)], n)
<1>1. Pop(r) \in Seq(Byte) /\ Len(Pop(r)) <= n /\ Len(Pop(r)) \in Nat
  <2>1. CASE r = << >>
    BY <2>1 DEF Pop
  <2>2. CASE r # << >>
    <3>1. Tail(r) \in Seq(Byte) /\ Len(Tail(r)) = Len(r) - 1 /\ Len(r) \in Nat /\ Len(r) # 0
      BY <2>2
    <3>2. Pop(r) = Tail(r)
      BY <2>2 DEF Pop
    <3> QED BY <3>1, <3>2
  <2> QED BY <2>1, <2>2
<1> DEFINE p == Pop(r)
<1>2. Fits(inner[p], Len(p))
  BY <1>1 DEF Shrinks
<1> HIDE DEF p
<1>3. \A o \in inner[p] : o.rest \in Seq(Byte) /\ Len(o.rest) <= n
  <2> TAKE o \in inner[p]
  <2>1. o.rest \in Seq(Byte) /\ Len(o.rest) <= Len(p)
    BY <1>2 DEF Fits
  <2>2. Len(o.rest) \in Nat
    BY <2>1
  <2>3. Len(p) <= n /\ Len(p) \in Nat
    BY <1>1 DEF p
  <2> QED BY <2>1, <2>2, <2>3
<1> QED BY <1>3 DEF Fits, p

LEMMA UnreturnedFits ==
    ASSUME NEW outs, NEW n, Fits(outs, n)
    PROVE  Fits(Unreturned(outs), n)
<1> SUFFICES ASSUME NEW o \in Unreturned(outs)
             PROVE  o.rest \in Seq(Byte) /\ Len(o.rest) <= n
  BY DEF Fits
<1>1. PICK x \in outs : o \in IF x.id = "fault" THEN {x}
                              ELSE {Out(x.rest, r, "none") : r \in {x.ret, 0}}
  BY DEF Unreturned
<1>2. o.rest = x.rest
  <2>1. CASE x.id = "fault"
    BY <1>1, <2>1
  <2>2. CASE x.id # "fault"
    <3>1. PICK r \in {x.ret, 0} : o = Out(x.rest, r, "none")
      BY <1>1, <2>2
    <3> QED BY <3>1 DEF Out
  <2> QED BY <2>1, <2>2
<1> QED BY <1>2 DEF Fits

LEMMA AgainFits ==
    ASSUME NEW inner, Shrinks(inner), NEW n \in Nat, NEW outs, Fits(outs, n)
    PROVE  Fits(UNION {Unreturned(inner[Pop(r)]) : r \in {o.rest : o \in outs}}, n)
<1> SUFFICES ASSUME NEW r \in {o.rest : o \in outs}
             PROVE  Fits(Unreturned(inner[Pop(r)]), n)
  BY DEF Fits
<1>1. r \in Seq(Byte) /\ Len(r) <= n
  BY DEF Fits
<1> QED BY <1>1, PopFits, UnreturnedFits

LEMMA LeftFits ==
    ASSUME NEW n, NEW outs, Fits(outs, n), NEW ret, NEW id
    PROVE  Fits({Out(r, ret, id) : r \in {o.rest : o \in outs}}, n)
BY DEF Fits, Out

LEMMA OneFits ==
    ASSUME NEW q \in Seq(Byte), NEW ret, NEW id
    PROVE  Fits({Out(q, ret, id)}, Len(q)) /\ Fits({Fault}, Len(q)) /\ Fits({}, Len(q))
<1>1. << >> \in Seq(Byte) /\ Len(<< >>) <= Len(q) /\ Len(q) <= Len(q)
  OBVIOUS
<1> QED BY <1>1 DEF Fits, Out, Fault

LEMMA BothFit ==
    ASSUME NEW n, NEW a, NEW b, Fits(a, n), Fits(b, n)
    PROVE  Fits(a \cup b, n)
BY DEF Fits

\* Both checks leave what fits, if the calls they make do.
LEMMA ZnpFits ==
    ASSUME NEW inner, Shrinks(inner), NEW q \in Seq(Byte), q # << >>
    PROVE  Fits(Znp(q, inner), Len(q))
<1> DEFINE m == Len(q)
           datalen == q[2]
           n == (datalen + 2) % 256
           outs == IF datalen = DataLen THEN {Out(q, 0, "none")} ELSE inner[Pop(q)]
           left == {o.rest : o \in outs}
           again == UNION {Unreturned(inner[Pop(r)]) : r \in left}
           fcs == IF n = 0 THEN Byte ELSE {At(q, n)}
           good == Checksum(q, 3, datalen - 1) \in fcs
           bad == \E b \in fcs : b # Checksum(q, 3, datalen - 1)
           found == IF good THEN {Out(r, n, "business") : r \in left} ELSE {}
           none == IF bad THEN again ELSE {}
<1>1. m \in Nat /\ m <= m /\ Fits({Out(q, 0, "none")}, m) /\ Fits({Out(q, 0, "half")}, m)
      /\ Fits({Fault}, m) /\ Fits({}, m)
  <2>1. m \in Nat /\ m <= m
    OBVIOUS
  <2> QED BY <2>1, OneFits
<1>2. Fits(inner[Pop(q)], m)
  BY <1>1, PopFits
<1>3. Fits(Unreturned(inner[Pop(q)]), m)
  BY <1>2, UnreturnedFits
<1>4. Fits(outs, m)
  BY <1>1, <1>2
<1> HIDE DEF m, outs
<1>5. Fits({Out(r, 0, "half") : r \in left}, m) /\ Fits({Out(r, n, "business") : r \in left}, m)
  BY <1>4, LeftFits
<1>6. Fits(again, m)
  BY <1>1, <1>4, AgainFits
<1> HIDE DEF again, left, good, bad
<1>7. Fits(found, m) /\ Fits(none, m)
  BY <1>1, <1>5, <1>6
<1>8. Fits(found \cup none, m)
  BY <1>7, BothFit
<1>9. Znp(q, inner) =
        IF q[1] # Sof THEN Unreturned(inner[Pop(q)])
        ELSE IF m <= 2 THEN {Out(q, 0, "half")}
        ELSE IF Fault \in outs THEN {Fault}
             ELSE IF Half(n, q) THEN {Out(r, 0, "half") : r \in left}
             ELSE IF datalen = 0 THEN {Fault}
             ELSE found \cup none
  BY DEF Znp, outs, left, good, bad, again, m
<1> HIDE DEF n, datalen, found, none, fcs
<1> QED BY <1>1, <1>3, <1>5, <1>8, <1>9 DEF m

LEMMA ProtocolFits ==
    ASSUME NEW inner, Shrinks(inner), NEW q \in Seq(Byte), q # << >>
    PROVE  Fits(Protocol(q, inner), Len(q))
<1> DEFINE m == Len(q)
           n == 256 * q[2] + q[3]
           outs == IF n \in MinLen .. MaxLen THEN {Out(q, 0, "none")} ELSE inner[Pop(q)]
           left == {o.rest : o \in outs}
           again == UNION {Unreturned(inner[Pop(r)]) : r \in left}
<1>1. m \in Nat /\ m <= m /\ Fits({Out(q, 0, "none")}, m) /\ Fits({Out(q, 0, "half")}, m)
      /\ Fits({Fault}, m)
  <2>1. m \in Nat /\ m <= m
    OBVIOUS
  <2> QED BY <2>1, OneFits
<1>2. Fits(inner[Pop(q)], m)
  BY <1>1, PopFits
<1>3. Fits(Unreturned(inner[Pop(q)]), m)
  BY <1>2, UnreturnedFits
<1>4. Fits(outs, m)
  BY <1>1, <1>2
<1> HIDE DEF m, outs
<1>5. Fits({Out(r, 0, "half") : r \in left}, m) /\ Fits({Out(r, n, "message") : r \in left}, m)
  BY <1>4, LeftFits
<1>6. Fits(again, m)
  BY <1>1, <1>4, AgainFits
<1> HIDE DEF again, left
<1>7. Protocol(q, inner) =
        IF q[1] # Sof THEN Unreturned(inner[Pop(q)])
        ELSE IF m <= 2 THEN {Out(q, 0, "half")}
        ELSE IF Fault \in outs THEN {Fault}
             ELSE IF Half(n, q) THEN {Out(r, 0, "half") : r \in left}
             ELSE IF n < 2 THEN {Fault}
             ELSE IF Checksum(q, 1, n - 2) = At(q, n - 1) /\ At(q, n) = Sof
                  THEN {Out(r, n, "message") : r \in left}
             ELSE again
  BY DEF Protocol, outs, left, again, m
<1> HIDE DEF n
<1> QED BY <1>1, <1>3, <1>5, <1>6, <1>7 DEF m

--------------------------------------------------------------------------------

\* Every check leaves no more than it was given.
LEMMA CheckFits ==
    ASSUME NEW kind, NEW q \in Seq(Byte)
    PROVE  Fits(Check(kind, q), Len(q))
<1> DEFINE n == Len(q)
<1>1. n \in Nat
  OBVIOUS
<1>2. PICK f : Checks(f, kind, n) /\ Check(kind, q) = f[n][q]
  BY CheckRuns
<1> HIDE DEF n
<1> DEFINE T == {k \in 0 .. n : Shrinks(f[k])}
<1>3. 0 \in T
  <2>1. \A s \in Seq(Byte) : f[0][s] = {Out(s, 0, "none")}
    BY <1>2 DEF Checks
  <2>2. Shrinks(f[0])
    BY <2>1, OneFits DEF Shrinks
  <2> QED BY <1>1, <2>2
<1>4. ASSUME NEW k \in 1 .. n, k - 1 \in T
      PROVE  k \in T
  <2>1. Shrinks(f[k - 1])
    BY <1>4
  <2>2. ASSUME NEW s \in Seq(Byte)
        PROVE  Fits(f[k][s], Len(s))
    <3>1. f[k][s] = IF s = << >> THEN {Out(s, 0, "none")} ELSE Call(kind, s, f[k - 1])
      BY <1>2 DEF Checks
    <3>2. CASE s = << >>
      <4>1. Fits({Out(s, 0, "none")}, Len(s))
        BY OneFits
      <4>2. f[k][s] = {Out(s, 0, "none")}
        BY <3>1, <3>2
      <4> QED BY <4>1, <4>2
    <3>3. CASE s # << >>
      <4>1. Fits(Znp(s, f[k - 1]), Len(s)) /\ Fits(Protocol(s, f[k - 1]), Len(s))
        BY <2>1, <3>3, ZnpFits, ProtocolFits
      <4> QED BY <3>1, <3>3, <4>1 DEF Call
    <3> QED BY <3>2, <3>3
  <2>3. Shrinks(f[k])
    BY <2>2 DEF Shrinks
  <2> QED BY <1>1, <2>3
<1>5. T = 0 .. n
  <2> HIDE DEF T
  <2>1. T \in SUBSET (0 .. n)
    BY DEF T
  <2> QED BY <1>1, <1>3, <1>4, <2>1, UpTo
<1>6. Shrinks(f[n])
  <2>1. n \in 0 .. n
    BY <1>1
  <2> HIDE DEF T
  <2>2. n \in T
    BY <1>5, <2>1
  <2> QED BY <2>2 DEF T
<1> QED BY <1>2, <1>6 DEF Shrinks, n

\* What is put into a buffer fits into it.
LEMMA PutFits ==
    ASSUME NEW q \in Seq(Byte), Len(q) <= Size, NEW chunk \in Seq(Byte)
    PROVE  Put(q, chunk) \in Seq(Byte) /\ Len(Put(q, chunk)) <= Size
<1> DEFINE a == Len(q)
           b == Len(chunk)
           n == Min2(b, Size - a)
           p == SubSeq(chunk, 0 + 1, n)
<1>1. a \in Nat /\ b \in Nat /\ a <= Size /\ Size \in Nat
  BY FramingAssumption
<1>2. n \in Nat /\ n <= b /\ a + n <= Size /\ 0 \in Nat /\ 0 <= n
  <2> HIDE DEF a, b
  <2> QED BY <1>1 DEF Min2
<1>3. p \in Seq(Byte) /\ Len(p) = n
  <2>1. p \in Seq(Byte) /\ Len(p) = n - 0
    BY <1>2, PartIs
  <2> HIDE DEF p, n
  <2> QED BY <1>2, <2>1
<1>4. Put(q, chunk) = q \o p
  <2>1. 0 + 1 = 1
    OBVIOUS
  <2> QED BY <2>1 DEF Put
<1> HIDE DEF p, n, b
<1>5. q \o p \in Seq(Byte) /\ Len(q \o p) = a + n
  BY <1>3
<1> QED BY <1>2, <1>4, <1>5

\* The type invariant, with what the stream's type has to say.
TypeInv == Sound /\ TypeOK

\* A read keeps the types.
LEMMA RecvTyped ==
    ASSUME TypeInv, NEW k \in 1 .. Len(Bytes) - pos, Recv(k)
    PROVE  TypeInv'
<1>1. Sound /\ Sound' /\ TypeOK
  BY SoundStays DEF TypeInv
<1>2. /\ fifo \in Seq(Byte) /\ Len(fifo) <= Size /\ got \in Seq(Seq(Byte))
      /\ status \in {"run", "fault"}
  BY <1>1 DEF TypeOK
<1> DEFINE n == Len(Bytes)
           chunk == SubSeq(Bytes, pos + 1, pos + k)
           kept == Put(fifo, chunk)
<1>3. Bytes \in Seq(Byte) /\ n \in Nat /\ pos \in Nat /\ pos + k \in Nat
      /\ pos <= pos + k /\ pos + k <= n
  <2>1. Bytes \in Seq(Byte) /\ n \in Nat
    BY <1>1, StreamIs, EndIs
  <2> HIDE DEF n
  <2>2. pos \in 0 .. n /\ k \in 1 .. n - pos
    BY <1>1 DEF Sound, n
  <2> QED BY <2>1, <2>2
<1>4. chunk \in Seq(Byte)
  BY <1>3, PartIs
<1>5. PICK o \in Check(side, kept) :
          IF o.id = "fault" THEN status' = "fault" /\ UNCHANGED <<fifo, got>>
          ELSE Take(o) /\ UNCHANGED status
  BY DEF Recv
<1>6. dropped' = (dropped \/ k > Size - Len(fifo))
  BY DEF Recv
<1> HIDE DEF n, chunk
<1>7. kept \in Seq(Byte) /\ Len(kept) <= Size
  BY <1>2, <1>4, PutFits
<1> HIDE DEF kept
<1>8. o.rest \in Seq(Byte) /\ Len(o.rest) <= Len(kept) /\ o.ret \in Nat
  <2>1. o.rest \in Seq(Byte) /\ Len(o.rest) <= Len(kept)
    BY <1>7, CheckFits DEF Fits
  <2>2. Check(side, kept) \in SUBSET Outcome
    BY <1>7, CheckSound DEF Outcomes
  <2>3. o.ret \in Nat
    BY <2>2 DEF Outcome
  <2> QED BY <2>1, <2>3
<1>9. fifo' \in Seq(Byte) /\ Len(fifo') <= Size /\ got' \in Seq(Seq(Byte))
      /\ status' \in {"run", "fault"}
  <2>1. CASE o.id = "fault"
    BY <1>2, <1>5, <2>1
  <2>2. CASE o.id # "fault"
    <3> DEFINE r == Len(o.rest)
               m == Min2(o.ret, r)
               a == SubSeq(o.rest, m + 1, r)
               b == SubSeq(o.rest, 0 + 1, m)
               X == Seq(Byte)
    <3>1. Len(kept) \in Nat /\ r \in Nat /\ Size \in Nat
      BY <1>7, <1>8, FramingAssumption
    <3>2. m \in Nat /\ m <= r /\ 0 \in Nat /\ 0 <= m /\ r <= r
      <4> HIDE DEF r
      <4> QED BY <1>8, <3>1 DEF Min2
    <3>3. a \in Seq(Byte) /\ Len(a) = r - m
      BY <1>8, <3>1, <3>2, PartIs
    <3>4. b \in X
      BY <1>8, <3>1, <3>2, PartIs
    <3>5. Take(o) /\ status' = status
      BY <1>5, <2>2
    <3>6. fifo' = a /\ got' = IF o.id \in {"business", "message"} THEN Append(got, b) ELSE got
      <4>1. 0 + 1 = 1
        OBVIOUS
      <4> QED BY <3>5, <4>1 DEF Take
    <3> HIDE DEF a, b, m
    <3>7. Len(a) <= Size
      <4>1. r <= Len(kept)
        BY <1>8
      <4> HIDE DEF r
      <4> QED BY <1>7, <3>1, <3>2, <3>3, <4>1
    <3>8. got \in Seq(X)
      BY <1>2
    <3> HIDE DEF X
    <3>9. got' \in Seq(X)
      BY <3>4, <3>6, <3>8
    <3> QED BY <1>2, <3>3, <3>5, <3>6, <3>7, <3>9 DEF X
  <2> QED BY <2>1, <2>2
<1>10. dropped' \in BOOLEAN
  BY <1>6
<1> HIDE DEF n
<1> QED BY <1>1, <1>9, <1>10 DEF TypeInv, TypeOK, Sound

\* Every reachable state has its type, on damaged streams and when the check reads
\* past its buffer too: no more is ever buffered than there is room for
\* (connection_put, connection_get).
THEOREM FramingTyped == Spec => []TypeOK
<1>1. Init => TypeInv
  <2> SUFFICES ASSUME Init PROVE TypeInv
    OBVIOUS
  <2>1. Sound
    BY FramingInitially DEF FramingInv
  <2>2. fifo = << >> /\ got = << >> /\ status = "run" /\ dropped = FALSE
    BY DEF Init
  <2>3. fifo \in Seq(Byte) /\ Len(fifo) <= Size /\ got \in Seq(Seq(Byte))
    BY <2>2, FramingAssumption
  <2> QED BY <2>1, <2>2, <2>3 DEF TypeInv, TypeOK, Sound
<1>2. TypeInv /\ [Next]_vars => TypeInv'
  <2> SUFFICES ASSUME TypeInv, [Next]_vars PROVE TypeInv'
    OBVIOUS
  <2>1. CASE Next
    BY <2>1, RecvTyped DEF Next
  <2>2. CASE UNCHANGED vars
    BY <2>2 DEF vars, TypeInv, TypeOK, Sound, Bytes
  <2> QED BY <2>1, <2>2
<1>3. TypeInv => TypeOK
  BY DEF TypeInv
<1> QED BY <1>1, <1>2, <1>3, PTL DEF Spec
================================================================================
