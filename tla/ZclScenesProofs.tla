--------------------------- MODULE ZclScenesProofs ---------------------------
(***************************************************************************)
(* Proofs about the scenes' table of the cluster library: what the         *)
(* handlers, their writes to non-volatile memory, the power's failures and *)
(* the restorings after them leave of it, for tables, numbers of groups    *)
(* and messages of every size.                                             *)
(***************************************************************************)
EXTENDS Zcl, FiniteSetTheorems, SequenceTheorems, WellFoundedInduction, TLAPS

--------------------------------------------------------------------------------
(* The inductive invariant.                                                  *)
\* The scenes that a failure of the power may leave behind.
Scenes == Range(crash.old) \cup Range(crash.new)
IsScene(s) ==
    /\ {"groupID", "ID"} \subseteq DOMAIN s
    /\ s = [name \in DOMAIN s |-> s[name]]
NVWrite(S) == [at : {Header}, value : Nat] \cup [at : Nat \ {0}, value : S]
NVItem(S) == [numRecs : Nat, recs : [1 .. ZCL_GEN_MAX_SCENES -> S \cup {Unread}]]
SceneTypes ==
    /\ zclGenSceneTable \in Seq(Scenes)
    /\ IsFiniteSet(groups)
    /\ nv \in NVItem(Scenes)
    /\ writes \in Seq(NVWrite(Scenes))
    /\ restore \in [next : Nat \ {0}, numRecs : Nat]
    /\ crash \in [old : Seq(Scenes), new : Seq(Scenes), saves : Nat,
                  kind : {"none", "idle", "handling", "restoring"}]
    /\ \A s \in Scenes : IsScene(s)

\* Whatever is or will be stored belongs to a group.
InGroups ==
    /\ \A k \in DOMAIN zclGenSceneTable : Valid(zclGenSceneTable[k].groupID)
    /\ \A k \in DOMAIN nv.recs :
          nv.recs[k] # Unread => Valid(nv.recs[k].groupID)
    /\ \A i \in DOMAIN writes :
          writes[i].at # Header => Valid(writes[i].value.groupID)

\* A record that is counted, or will be, has been written by then.
Counted ==
    /\ \A k \in 1 .. ZCL_GEN_MAX_SCENES :
          \/ k <= nv.numRecs
          \/ restore.next <= k /\ k <= restore.numRecs
          => nv.recs[k] # Unread
    /\ \A i \in DOMAIN writes : writes[i].at = Header =>
          \A k \in 1 .. ZCL_GEN_MAX_SCENES : k <= writes[i].value =>
              nv.recs[k] # Unread \/ \E j \in 1 .. i - 1 : writes[j].at = k

\* The last save is that of the table: of its writes some are made and the
\* others are the last of those to be made.
Saved ==
    LET n == Len(zclGenSceneTable)
        left == Len(writes)
    IN /\ \A k \in 1 .. n :
             IF n + 2 - k <= left
             THEN writes[left - (n + 1 - k)] =
                      [at |-> k, value |-> zclGenSceneTable[k]]
             ELSE k <= ZCL_GEN_MAX_SCENES => nv.recs[k] = zclGenSceneTable[k]
       /\ IF left > 0 THEN writes[left] = [at |-> Header, value |-> n]
          ELSE nv.numRecs = n
Unsaved == Restoring /\ restore.next = 1
NoneBehind ==
    writes = << >> /\ ~Restoring =>
        \A k \in 1 .. ZCL_GEN_MAX_SCENES :
            k > nv.numRecs => nv.recs[k] = Unread

\* A group that is left has no scenes any more.
Emptied ==
    leaving # {} =>
        /\ ~Restoring
        /\ \A k \in DOMAIN zclGenSceneTable :
              zclGenSceneTable[k].groupID \in leaving =>
                  zclGenSceneTable[k].groupID = NoGroup

AtMost(n) == IF n <= ZCL_GEN_MAX_SCENES THEN n ELSE ZCL_GEN_MAX_SCENES
Reading ==
    /\ Restoring => /\ crash.kind # "none"
                    /\ Len(zclGenSceneTable) = AtMost(restore.next - 1)
    /\ crash.kind = "none" => zclGenSceneTable = crash.new

\* A handler that saves once and makes the table no shorter changes or adds
\* one scene, and until the table's length is written nothing else has changed.
Whole == crash.saves <= 1 /\ Len(crash.new) >= Len(crash.old)
OneChange(x, y) ==
    \E p \in 0 .. Len(y) :
        /\ \/ Len(y) = Len(x)
           \/ Len(y) = Len(x) + 1 /\ p = Len(y)
        /\ \A k \in 1 .. Len(x) : k # p => y[k] = x[k]
Undecided ==
    crash.kind = "none" /\ Whole =>
        /\ OneChange(crash.old, crash.new)
        /\ writes # << >> =>
              /\ nv.numRecs = Len(crash.old)
              /\ Len(writes) <= Len(crash.new) + 1
              /\ \A k \in 1 .. ZCL_GEN_MAX_SCENES :
                    /\ k <= Len(crash.old)
                    /\ Len(crash.new) + 1 - Len(writes) < k
                    => nv.recs[k] = crash.old[k]

\* The table is being read, or has been, as x.
Restores(x) ==
    /\ \A k \in 1 .. ZCL_GEN_MAX_SCENES : k <= Len(x) => nv.recs[k] = x[k]
    /\ \A k \in DOMAIN zclGenSceneTable :
          k <= Len(x) /\ zclGenSceneTable[k] = x[k]
    /\ \A i \in DOMAIN writes : writes[i].at # Header =>
          writes[i].at <= Len(x) /\ writes[i].value = x[writes[i].at]
    /\ IF Restoring THEN restore.numRecs = Len(x)
       ELSE Len(zclGenSceneTable) = AtMost(Len(x))
Resumed ==
    /\ crash.kind = "idle" => Restores(crash.new)
    /\ crash.kind = "handling" /\ Whole =>
          Restores(crash.old) \/ Restores(crash.new)

ScenesInv ==
    /\ SceneTypes /\ InGroups /\ Counted
    /\ Unsaved \/ Saved
    /\ NoneBehind /\ Emptied /\ Reading /\ Undecided /\ Resumed

--------------------------------------------------------------------------------
(* Loops.                                                                    *)
LEMMA LeastOf ==
    ASSUME NEW S \in SUBSET Nat, S # {}
    PROVE  \E m \in S : \A n \in S : m <= n
<1>1. PICK m \in S : \A n \in S : ~(<<n, m>> \in OpToRel(<, Nat))
  BY NatLessThanWellFounded, WFMin
<1>2. \A n \in S : ~(n < m)
  BY <1>1 DEF OpToRel
<1> QED BY <1>2

\* Induction up to n.
LEMMA UpTo ==
    ASSUME NEW n \in Nat, NEW T \in SUBSET (0 .. n), 0 \in T,
           \A k \in 1 .. n : k - 1 \in T => k \in T
    PROVE  T = 0 .. n
<1>1. SUFFICES ASSUME (0 .. n) \ T # {} PROVE FALSE
  OBVIOUS
<1>2. PICK m \in (0 .. n) \ T : \A k \in (0 .. n) \ T : m <= k
  <2>1. (0 .. n) \ T \in SUBSET Nat
    OBVIOUS
  <2> QED BY <1>1, <2>1, LeastOf
<1>3. m \in 1 .. n /\ m - 1 \in 0 .. n
  BY <1>2
<1>4. m - 1 \in T
  BY <1>2, <1>3
<1> QED BY <1>2, <1>3, <1>4

\* A loop of n rounds has a run.
IsRun(f, S, base, n, step) ==
    /\ f \in [0 .. n -> S]
    /\ f[0] = base
    /\ \A k \in 1 .. n : f[k] = step[k][f[k - 1]]
LEMMA LoopRuns ==
    ASSUME NEW S, NEW base \in S, NEW n \in Nat,
           NEW step \in [1 .. n -> [S -> S]]
    PROVE  \E f : IsRun(f, S, base, n, step)
<1> DEFINE Runs(k) == \E f \in [0 .. k -> S] :
               f[0] = base /\ \A i \in 1 .. k : f[i] = step[i][f[i - 1]]
           T == {k \in 0 .. n : Runs(k)}
<1>1. 0 \in T
  <2> DEFINE g == [i \in 0 .. 0 |-> base]
  <2>1. g \in [0 .. 0 -> S] /\ g[0] = base
    OBVIOUS
  <2>2. \A i \in 1 .. 0 : FALSE
    OBVIOUS
  <2> HIDE DEF g
  <2>3. Runs(0)
    BY <2>1, <2>2
  <2> HIDE DEF Runs
  <2> QED BY <2>3
<1>2. ASSUME NEW k \in 1 .. n, k - 1 \in T
      PROVE  k \in T
  <2>1. PICK f \in [0 .. k - 1 -> S] :
            f[0] = base /\ \A i \in 1 .. k - 1 : f[i] = step[i][f[i - 1]]
    BY <1>2
  <2> DEFINE g == [i \in 0 .. k |-> IF i = k THEN step[k][f[k - 1]] ELSE f[i]]
  <2>2. k - 1 \in 0 .. k - 1 /\ f[k - 1] \in S
    BY <2>1
  <2>3. step[k] \in [S -> S]
    OBVIOUS
  <2>4. step[k][f[k - 1]] \in S
    BY <2>2, <2>3
  <2>5. \A i \in 0 .. k : i # k => i \in 0 .. k - 1
    OBVIOUS
  <2>6. g \in [0 .. k -> S]
    BY <2>1, <2>4, <2>5
  <2>7. g[0] = base
    BY <2>1
  <2>8. ASSUME NEW i \in 1 .. k
        PROVE  g[i] = step[i][g[i - 1]]
    <3>1. g[i - 1] = f[i - 1]
      BY <2>8
    <3>2. CASE i = k
      BY <3>1, <3>2
    <3>3. CASE i # k
      <4>1. i \in 1 .. k - 1 /\ g[i] = f[i]
        BY <3>3
      <4> QED BY <2>1, <3>1, <4>1
    <3> QED BY <3>2, <3>3
  <2> HIDE DEF g
  <2>9. Runs(k)
    BY <2>6, <2>7, <2>8
  <2> HIDE DEF Runs
  <2> QED BY <2>9
<1>3. T = 0 .. n
  <2> HIDE DEF T
  <2>1. T \in SUBSET (0 .. n)
    BY DEF T
  <2> QED BY <1>1, <1>2, <2>1, UpTo
<1>4. n \in T
  BY <1>3
<1>5. Runs(n)
  BY <1>4
<1> QED BY <1>5 DEF IsRun

--------------------------------------------------------------------------------
(* Entries picked from a table.                                              *)
LEMMA PickedSteps ==
    ASSUME NEW S, NEW table \in Seq(S), NEW K
    PROVE  \E f \in [0 .. Len(table) -> Seq(S)] :
               /\ Picked(table, K) = f[Len(table)]
               /\ f[0] = << >>
               /\ \A k \in 1 .. Len(table) :
                     f[k] = IF k \in K THEN Append(f[k - 1], table[k])
                            ELSE f[k - 1]
<1> DEFINE n == Len(table)
           step == [k \in 1 .. n |-> [x \in Seq(S) |->
                       IF k \in K THEN Append(x, table[k]) ELSE x]]
           Is(f) == f = [k \in 0 .. n |->
                         IF k = 0 THEN << >>
                         ELSE IF k \in K THEN Append(f[k - 1], table[k])
                         ELSE f[k - 1]]
<1>1. n \in Nat /\ \A k \in 1 .. n : table[k] \in S
  OBVIOUS
<1>2. step \in [1 .. n -> [Seq(S) -> Seq(S)]]
  BY <1>1
<1>3. << >> \in Seq(S)
  OBVIOUS
<1>4. PICK f \in [0 .. n -> Seq(S)] :
          f[0] = << >> /\ \A k \in 1 .. n : f[k] = step[k][f[k - 1]]
  <2> HIDE DEF step, n
  <2>1. PICK f : IsRun(f, Seq(S), << >>, n, step)
    BY <1>1, <1>2, <1>3, LoopRuns
  <2> QED BY <2>1 DEF IsRun
<1>5. \A k \in 1 .. n : f[k - 1] \in Seq(S)
  <2>1. \A k \in 1 .. n : k - 1 \in 0 .. n
    BY <1>1
  <2> HIDE DEF n
  <2> QED BY <1>4, <2>1
<1>6. \A k \in 1 .. n : f[k] = IF k \in K THEN Append(f[k - 1], table[k])
                              ELSE f[k - 1]
  BY <1>4, <1>5
<1>7. Is(f)
  <2>1. \A k \in 0 .. n : f[k] =
                         IF k = 0 THEN << >>
                         ELSE IF k \in K THEN Append(f[k - 1], table[k])
                         ELSE f[k - 1]
    <3> HIDE DEF n, step
    <3> TAKE k \in 0 .. n
    <3>1. k # 0 => k \in 1 .. n
      BY <1>1
    <3> QED BY <1>4, <1>6, <3>1
  <2> HIDE DEF n
  <2> QED BY <1>4, <2>1
<1> DEFINE h == CHOOSE g : Is(g)
<1>8. Is(h)
  BY <1>7
<1>9. Picked(table, K) = h[n]
  BY DEF Picked
<1> HIDE DEF n
<1>10. h[0] = << >> /\ \A k \in 1 .. n :
           h[k] = IF k \in K THEN Append(h[k - 1], table[k]) ELSE h[k - 1]
  <2> HIDE DEF h
  <2>1. \A k \in 0 .. n : h[k] =
                         IF k = 0 THEN << >>
                         ELSE IF k \in K THEN Append(h[k - 1], table[k])
                         ELSE h[k - 1]
    BY <1>8
  <2> QED BY <1>1, <2>1
<1>11. \A k \in 0 .. n : h[k] \in Seq(S)
  <2> HIDE DEF h
  <2> DEFINE T == {k \in 0 .. n : h[k] \in Seq(S)}
  <2>1. 0 \in T
    <3>1. h[0] \in Seq(S)
      BY <1>3, <1>10
    <3>2. 0 \in 0 .. n
      BY <1>1
    <3> QED BY <3>1, <3>2
  <2>2. ASSUME NEW k \in 1 .. n, k - 1 \in T
        PROVE  k \in T
    <3>1. h[k - 1] \in Seq(S) /\ table[k] \in S
      BY <1>1, <2>2
    <3>2. Append(h[k - 1], table[k]) \in Seq(S)
      BY <3>1, AppendProperties
    <3>3. h[k] = Append(h[k - 1], table[k]) \/ h[k] = h[k - 1]
      BY <1>10
    <3>4. h[k] \in Seq(S)
      BY <3>1, <3>2, <3>3
    <3>5. k \in 0 .. n
      BY <1>1
    <3> QED BY <3>4, <3>5
  <2>3. T = 0 .. n
    <3> HIDE DEF T
    <3>1. T \in SUBSET (0 .. n)
      BY DEF T
    <3> QED BY <1>1, <2>1, <2>2, <3>1, UpTo
  <2> QED BY <2>3
<1>12. h \in [0 .. n -> Seq(S)]
  <2> HIDE DEF h
  <2>1. h = [k \in 0 .. n |-> h[k]]
    BY <1>8
  <2> QED BY <1>11, <2>1
<1> HIDE DEF h
<1> QED BY <1>9, <1>10, <1>12 DEF n

LEMMA PickedFrom ==
    ASSUME NEW S, NEW table \in Seq(S), NEW K
    PROVE  /\ Picked(table, K) \in Seq(S)
           /\ Len(Picked(table, K)) <= Len(table)
           /\ \A j \in 1 .. Len(Picked(table, K)) :
                 \E i \in 1 .. Len(table) :
                     i \in K /\ Picked(table, K)[j] = table[i]
           /\ Len(Picked(table, K)) = Len(table) => Picked(table, K) = table
<1> DEFINE n == Len(table)
<1>1. n \in Nat /\ \A k \in 1 .. n : table[k] \in S
  OBVIOUS
<1>2. PICK f \in [0 .. n -> Seq(S)] :
          /\ Picked(table, K) = f[n]
          /\ f[0] = << >>
          /\ \A k \in 1 .. n :
                f[k] = IF k \in K THEN Append(f[k - 1], table[k]) ELSE f[k - 1]
  BY PickedSteps
<1> HIDE DEF n
<1>3. \A k \in 0 .. n : f[k] \in Seq(S) /\ Len(f[k]) \in Nat
  BY <1>2
<1> DEFINE From(p) == \A j \in 1 .. Len(p) :
                          \E i \in 1 .. n : i \in K /\ p[j] = table[i]
           Full(k) == Len(f[k]) = k => \A j \in 1 .. k : f[k][j] = table[j]
           T == {k \in 0 .. n : Len(f[k]) <= k /\ From(f[k]) /\ Full(k)}
<1>4. 0 \in T
  <2>1. Len(f[0]) = 0 /\ 0 \in 0 .. n
    BY <1>1, <1>2
  <2>2. \A j \in 1 .. 0 : FALSE
    OBVIOUS
  <2> QED BY <2>1, <2>2
<1>5. ASSUME NEW k \in 1 .. n, k - 1 \in T
      PROVE  k \in T
  <2>1. /\ k \in 0 .. n /\ k - 1 \in 0 .. n /\ k \in Nat /\ k - 1 \in Nat
        /\ Len(f[k - 1]) <= k - 1 /\ From(f[k - 1]) /\ Full(k - 1)
    BY <1>1, <1>5
  <2> HIDE DEF T
  <2>2. CASE k \notin K
    <3>1. f[k] = f[k - 1]
      BY <1>2, <2>2
    <3>2. Len(f[k]) # k
      BY <1>3, <2>1, <3>1
    <3>3. Len(f[k]) <= k
      BY <1>3, <2>1, <3>1
    <3>4. From(f[k])
      BY <2>1, <3>1
    <3> QED BY <2>1, <3>2, <3>3, <3>4 DEF T
  <2>3. CASE k \in K
    <3> DEFINE a == f[k - 1]
    <3>1. f[k] = Append(a, table[k])
      BY <1>2, <2>3
    <3>2. a \in Seq(S) /\ table[k] \in S /\ Len(a) \in Nat
      BY <1>1, <1>3, <2>1
    <3> HIDE DEF a
    <3>3. /\ Len(f[k]) = Len(a) + 1
          /\ \A j \in 1 .. Len(a) : f[k][j] = a[j]
          /\ f[k][Len(a) + 1] = table[k]
      BY <3>1, <3>2, AppendProperties
    <3>4. Len(f[k]) <= k
      BY <2>1, <3>2, <3>3 DEF a
    <3>5. From(f[k])
      <4> TAKE j \in 1 .. Len(f[k])
      <4>1. CASE j = Len(a) + 1
        BY <2>3, <3>3, <4>1
      <4>2. CASE j # Len(a) + 1
        <5>1. j \in 1 .. Len(a)
          BY <3>2, <3>3, <4>2
        <5> QED BY <2>1, <3>3, <5>1 DEF a
      <4> QED BY <4>1, <4>2
    <3>6. Full(k)
      <4> SUFFICES ASSUME Len(f[k]) = k, NEW j \in 1 .. k
                   PROVE  f[k][j] = table[j]
        OBVIOUS
      <4>1. Len(a) = k - 1
        BY <2>1, <3>2, <3>3
      <4>2. CASE j = k
        BY <3>3, <4>1, <4>2
      <4>3. CASE j # k
        <5>1. j \in 1 .. k - 1
          BY <2>1, <4>3
        <5>2. a[j] = table[j]
          BY <2>1, <4>1, <5>1 DEF a
        <5> QED BY <3>3, <4>1, <5>1, <5>2
      <4> QED BY <4>2, <4>3
    <3> QED BY <2>1, <3>4, <3>5, <3>6 DEF T
  <2> QED BY <2>2, <2>3
<1>6. T = 0 .. n
  <2> HIDE DEF T
  <2>1. T \in SUBSET (0 .. n)
    BY DEF T
  <2> QED BY <1>1, <1>4, <1>5, <2>1, UpTo
<1>7. n \in 0 .. n
  BY <1>1
<1>8. Len(f[n]) <= n /\ From(f[n]) /\ Full(n)
  BY <1>6, <1>7
<1>9. Len(f[n]) = n => f[n] = table
  <2> SUFFICES ASSUME Len(f[n]) = n PROVE f[n] = table
    OBVIOUS
  <2>1. f[n] \in Seq(S) /\ \A j \in 1 .. Len(f[n]) : f[n][j] = table[j]
    BY <1>3, <1>7, <1>8
  <2>2. Len(f[n]) = Len(table)
    BY DEF n
  <2> QED BY <2>1, <2>2, SeqEqual
<1> QED BY <1>2, <1>3, <1>7, <1>8, <1>9 DEF n

--------------------------------------------------------------------------------
(* The table's operators.                                                    *)
Match(s, g, i) == s.groupID = g /\ s.ID = i
LEMMA FindIs ==
    ASSUME NEW S, NEW table \in Seq(S), NEW g, NEW i
    PROVE  /\ Find(table, g, i) \in 0 .. Len(table)
           /\ Find(table, g, i) = 0 =>
                 \A j \in 1 .. Len(table) : ~Match(table[j], g, i)
           /\ Find(table, g, i) # 0 =>
                 /\ Match(table[Find(table, g, i)], g, i)
                 /\ \A j \in 1 .. Find(table, g, i) - 1 :
                       ~Match(table[j], g, i)
<1> DEFINE I == {j \in 1 .. Len(table) : Match(table[j], g, i)}
<1>1. Find(table, g, i) = IF I # {} THEN Min(I) ELSE 0
  BY DEF Find, SelectInSeq, Match
<1>2. Len(table) \in Nat
  OBVIOUS
<1>3. CASE I = {}
  BY <1>1, <1>2, <1>3
<1>4. CASE I # {}
  <2>1. I \in SUBSET Nat
    BY <1>2
  <2>2. Min(I) \in I /\ \A j \in I : Min(I) <= j
    <3> HIDE DEF I
    <3>1. PICK m \in I : \A j \in I : m <= j
      BY <1>4, <2>1, LeastOf
    <3> QED BY <3>1 DEF Min
  <2> DEFINE m == Min(I)
  <2>3. Find(table, g, i) = m
    BY <1>1, <1>4
  <2>4. m \in 1 .. Len(table) /\ Match(table[m], g, i)
    BY <2>2
  <2>5. \A j \in 1 .. m - 1 : ~Match(table[j], g, i)
    <3> TAKE j \in 1 .. m - 1
    <3>1. j \in 1 .. Len(table) /\ ~(m <= j)
      <4> HIDE DEF m
      <4> QED BY <1>2, <2>4
    <3> QED BY <2>2, <3>1
  <2> HIDE DEF m, I
  <2> QED BY <1>2, <2>3, <2>4, <2>5
<1> QED BY <1>3, <1>4

LEMMA RemoveAtIs ==
    ASSUME NEW S, NEW table \in Seq(S), NEW k \in 1 .. Len(table)
    PROVE  /\ RemoveAt(table, k) \in Seq(S)
           /\ Len(RemoveAt(table, k)) = Len(table) - 1
           /\ \A j \in 1 .. Len(table) - 1 :
                 RemoveAt(table, k)[j] = IF j < k THEN table[j]
                                         ELSE table[j + 1]
<1> DEFINE n == Len(table)
           a == SubSeq(table, 1, k - 1)
           b == SubSeq(table, k + 1, n)
<1>1. n \in Nat /\ k \in 1 .. n
  OBVIOUS
<1>2. /\ a \in Seq(S) /\ Len(a) = k - 1
      /\ \A j \in 1 .. k - 1 : a[j] = table[j]
  OBVIOUS
<1>3. /\ b \in Seq(S) /\ Len(b) = n - k
      /\ \A j \in 1 .. n - k : b[j] = table[k + j]
  OBVIOUS
<1>4. RemoveAt(table, k) = a \o b
  BY DEF RemoveAt
<1> HIDE DEF a, b, n
<1>5. /\ a \o b \in Seq(S) /\ Len(a \o b) = Len(a) + Len(b)
      /\ \A j \in 1 .. Len(a) + Len(b) :
            (a \o b)[j] = IF j <= Len(a) THEN a[j] ELSE b[j - Len(a)]
  BY <1>2, <1>3, ConcatProperties
<1>6. Len(a) + Len(b) = n - 1
  BY <1>1, <1>2, <1>3
<1>7. ASSUME NEW j \in 1 .. n - 1
      PROVE  (a \o b)[j] = IF j < k THEN table[j] ELSE table[j + 1]
  <2>1. CASE j < k
    <3>1. j \in 1 .. k - 1 /\ j <= Len(a)
      BY <1>1, <1>2, <2>1
    <3> QED BY <1>2, <1>5, <1>6, <2>1, <3>1
  <2>2. CASE ~(j < k)
    <3>1. j - Len(a) \in 1 .. n - k /\ ~(j <= Len(a))
          /\ k + (j - Len(a)) = j + 1
      BY <1>1, <1>2, <2>2
    <3>2. (a \o b)[j] = b[j - Len(a)]
      BY <1>5, <1>6, <3>1
    <3> QED BY <1>3, <2>2, <3>1, <3>2
  <2> QED BY <2>1, <2>2
<1> QED BY <1>4, <1>5, <1>6, <1>7 DEF n

--------------------------------------------------------------------------------
(* What a save writes.                                                       *)
LEMMA WritesIs ==
    ASSUME NEW S, NEW table \in Seq(S)
    PROVE  /\ zclGeneral_ScenesWriteNV(table) \in Seq(NVWrite(S))
           /\ Len(zclGeneral_ScenesWriteNV(table)) = Len(table) + 1
           /\ \A k \in 1 .. Len(table) :
                 zclGeneral_ScenesWriteNV(table)[k] =
                     [at |-> k, value |-> table[k]]
           /\ zclGeneral_ScenesWriteNV(table)[Len(table) + 1] =
                  [at |-> Header, value |-> Len(table)]
<1> DEFINE n == Len(table)
           recs == [k \in 1 .. n |-> [at |-> k, value |-> table[k]]]
           header == [at |-> Header, value |-> n]
<1>1. n \in Nat /\ \A k \in 1 .. n : table[k] \in S
  OBVIOUS
<1>2. \A k \in 1 .. n : [at |-> k, value |-> table[k]] \in NVWrite(S)
  BY <1>1 DEF NVWrite
<1>3. header \in NVWrite(S)
  BY <1>1 DEF NVWrite
<1> DEFINE W == NVWrite(S)
<1>4. recs \in Seq(W) /\ Len(recs) = n
  <2> HIDE DEF n
  <2>1. \A k \in 1 .. n : recs[k] \in W
    BY <1>2
  <2> HIDE DEF W
  <2>2. recs \in [1 .. n -> W]
    BY <2>1
  <2> QED BY <1>1, <2>2
<1>5. zclGeneral_ScenesWriteNV(table) = recs \o <<header>>
  BY DEF zclGeneral_ScenesWriteNV
<1>6. \A k \in 1 .. n : recs[k] = [at |-> k, value |-> table[k]]
  OBVIOUS
<1> HIDE DEF recs, header, W, n
<1>7. <<header>> \in Seq(W) /\ Len(<<header>>) = 1 /\ <<header>>[1] = header
  BY <1>3 DEF W
<1>8. /\ recs \o <<header>> \in Seq(W)
      /\ Len(recs \o <<header>>) = n + 1
      /\ \A k \in 1 .. n + 1 : (recs \o <<header>>)[k] =
             IF k <= n THEN recs[k] ELSE <<header>>[k - n]
  BY <1>4, <1>7, ConcatProperties
<1>9. \A k \in 1 .. n : (recs \o <<header>>)[k] = recs[k]
  BY <1>1, <1>8
<1>10. (recs \o <<header>>)[n + 1] = header
  <2>1. n + 1 \in 1 .. n + 1 /\ ~(n + 1 <= n) /\ n + 1 - n = 1
    BY <1>1
  <2> QED BY <1>7, <1>8, <2>1
<1> QED BY <1>5, <1>6, <1>8, <1>9, <1>10 DEF n, header, W

Concats(g, S, n, ss) ==
    /\ g \in [0 .. n -> Seq(S)]
    /\ g[0] = << >>
    /\ \A k \in 1 .. n : g[k] = g[k - 1] \o ss[k]
LEMMA ConcatRuns ==
    ASSUME NEW S, NEW n \in Nat, NEW ss \in [1 .. n -> Seq(S)]
    PROVE  \E g : Concats(g, S, n, ss)
<1> DEFINE U == Seq(S)
           step == [k \in 1 .. n |-> [x \in U |-> x \o ss[k]]]
<1>1. step \in [1 .. n -> [U -> U]] /\ << >> \in U
  OBVIOUS
<1>2. PICK g : IsRun(g, U, << >>, n, step)
  <2> HIDE DEF step, U
  <2> QED BY <1>1, LoopRuns
<1>3. g \in [0 .. n -> U] /\ g[0] = << >>
  BY <1>2 DEF IsRun
<1>4. \A k \in 1 .. n : g[k] = g[k - 1] \o ss[k]
  <2> TAKE k \in 1 .. n
  <2>1. g[k] = step[k][g[k - 1]]
    BY <1>2 DEF IsRun
  <2>2. g[k - 1] \in U
    BY <1>3
  <2> QED BY <2>1, <2>2
<1> QED BY <1>3, <1>4 DEF Concats

LEMMA FlattenSteps ==
    ASSUME NEW S, NEW ss \in Seq(Seq(S)), ss # << >>
    PROVE  \E f \in [1 .. Len(ss) -> Seq(S)] :
               /\ FlattenSeq(ss) = f[Len(ss)]
               /\ f[1] = ss[1]
               /\ \A k \in 2 .. Len(ss) : f[k] = f[k - 1] \o ss[k]
<1> DEFINE n == Len(ss)
           U == Seq(S)
           Is(f) == f = [k \in 1 .. n |->
                         IF k = 1 THEN ss[k] ELSE f[k - 1] \o ss[k]]
<1>1. n \in Nat \ {0} /\ \A k \in 1 .. n : ss[k] \in U
  <2> HIDE DEF U
  <2>1. ss \in Seq(U)
    BY DEF U
  <2> QED BY <2>1
<1>2. \A x, y \in U : x \o y \in U
  OBVIOUS
<1>3. << >> \in U /\ \A x \in U : << >> \o x = x
  OBVIOUS
<1> HIDE DEF n, U
<1>4. ss \in [1 .. n -> U]
  <2>1. ss \in Seq(U) /\ Len(ss) = n
    BY DEF U, n
  <2> QED BY <2>1
<1>5. PICK g \in [0 .. n -> U] :
          g[0] = << >> /\ \A k \in 1 .. n : g[k] = g[k - 1] \o ss[k]
  <2>1. n \in Nat /\ ss \in [1 .. n -> Seq(S)]
    BY <1>1, <1>4 DEF U
  <2>2. PICK g : Concats(g, S, n, ss)
    BY <2>1, ConcatRuns
  <2> QED BY <2>2 DEF Concats, U
<1>6. \A k \in 1 .. n : k - 1 \in 0 .. n /\ k \in 0 .. n
  BY <1>1
<1>8. \E f : Is(f)
  <2> DEFINE f == [k \in 1 .. n |-> g[k]]
  <2>1. ASSUME NEW k \in 1 .. n
        PROVE  f[k] = IF k = 1 THEN ss[k] ELSE f[k - 1] \o ss[k]
    <3>1. CASE k = 1
      <4>1. g[1] = << >> \o ss[1] /\ ss[1] \in U
        <5>1. 1 \in 1 .. n /\ 1 - 1 = 0
          BY <1>1
        <5>2. g[1] = g[1 - 1] \o ss[1]
          BY <1>5, <5>1
        <5> QED BY <1>1, <1>5, <5>1, <5>2
      <4> QED BY <1>3, <3>1, <4>1
    <3>2. CASE k # 1
      <4>1. k - 1 \in 1 .. n
        BY <1>1, <3>2
      <4> QED BY <1>5, <3>2, <4>1
    <3> QED BY <3>1, <3>2
  <2>2. f = [k \in 1 .. n |-> f[k]]
    OBVIOUS
  <2> HIDE DEF f
  <2>3. Is(f)
    BY <2>1, <2>2
  <2> QED BY <2>3
<1> DEFINE h == CHOOSE f : Is(f)
<1>9. Is(h)
  BY <1>8
<1>10. FlattenSeq(ss) = h[n]
  <2>1. Len(ss) # 0
    BY <1>1 DEF n
  <2> QED BY <2>1 DEF FlattenSeq, n
<1> HIDE DEF h
<1>11. \A k \in 1 .. n : h[k] = IF k = 1 THEN ss[k] ELSE h[k - 1] \o ss[k]
  BY <1>9
<1>12. h[1] = ss[1] /\ \A k \in 2 .. n : h[k] = h[k - 1] \o ss[k]
  <2>1. 1 \in 1 .. n /\ \A k \in 2 .. n : k \in 1 .. n /\ k # 1
    BY <1>1
  <2> QED BY <1>11, <2>1
<1>13. \A k \in 1 .. n : h[k] \in U
  <2> DEFINE T == {k \in 0 .. n : k = 0 \/ h[k] \in U}
  <2>1. 0 \in T
    BY <1>1
  <2>2. ASSUME NEW k \in 1 .. n, k - 1 \in T
        PROVE  k \in T
    <3>1. CASE k = 1
      BY <1>1, <1>6, <1>12, <3>1
    <3>2. CASE k # 1
      <4>1. k \in 2 .. n /\ h[k - 1] \in U /\ ss[k] \in U
        BY <1>1, <2>2, <3>2
      <4>2. h[k] \in U
        BY <1>2, <1>12, <4>1
      <4> QED BY <1>6, <4>2
    <3> QED BY <3>1, <3>2
  <2>3. T = 0 .. n
    <3> HIDE DEF T
    <3>1. T \in SUBSET (0 .. n)
      BY DEF T
    <3> QED BY <1>1, <2>1, <2>2, <3>1, UpTo
  <2>4. \A k \in 1 .. n : k \in T
    BY <1>6, <2>3
  <2> QED BY <1>1, <2>4
<1>14. h \in [1 .. n -> U]
  <2>1. h = [k \in 1 .. n |-> h[k]]
    BY <1>9
  <2> QED BY <1>13, <2>1
<1> QED BY <1>10, <1>12, <1>14 DEF n, U

\* Every length that is written comes after the records it counts, and the
\* last writes are those of the table.
Ordered(w) ==
    \A i \in 1 .. Len(w) : w[i].at = Header =>
        \A k \in 1 .. w[i].value : \E j \in 1 .. i - 1 : w[j].at = k
Ends(w, table) ==
    /\ Len(table) + 1 <= Len(w)
    /\ \A k \in 1 .. Len(table) :
          w[Len(w) - (Len(table) + 1 - k)] = [at |-> k, value |-> table[k]]
    /\ w[Len(w)] = [at |-> Header, value |-> Len(table)]

LEMMA SaveAppended ==
    ASSUME NEW S, NEW w \in Seq(NVWrite(S)), NEW table \in Seq(S), Ordered(w)
    PROVE  LET v == w \o zclGeneral_ScenesWriteNV(table)
           IN v \in Seq(NVWrite(S)) /\ Ordered(v) /\ Ends(v, table)
<1> DEFINE W == NVWrite(S)
           t == zclGeneral_ScenesWriteNV(table)
           n == Len(table)
           m == Len(w)
           v == w \o t
<1>1. n \in Nat /\ m \in Nat
  OBVIOUS
<1>2. /\ t \in Seq(W) /\ Len(t) = n + 1
      /\ \A k \in 1 .. n : t[k] = [at |-> k, value |-> table[k]]
      /\ t[n + 1] = [at |-> Header, value |-> n]
  BY WritesIs
<1>3. w \in Seq(W)
  OBVIOUS
<1> HIDE DEF W, t, n, m
<1>4. /\ v \in Seq(W) /\ Len(v) = m + (n + 1)
      /\ \A i \in 1 .. m + (n + 1) :
            /\ i <= m => v[i] = w[i]
            /\ ~(i <= m) => v[i] = t[i - m]
  <2>1. /\ w \o t \in Seq(W) /\ Len(w \o t) = Len(w) + Len(t)
        /\ \A i \in 1 .. Len(w) + Len(t) :
              (w \o t)[i] = IF i <= Len(w) THEN w[i] ELSE t[i - Len(w)]
    BY <1>2, <1>3, ConcatProperties
  <2>2. Len(w) = m /\ Len(t) = n + 1
    BY <1>2 DEF m
  <2> QED BY <2>1, <2>2
<1> HIDE DEF v
<1>5. \A i \in 1 .. m : v[i] = w[i]
  BY <1>1, <1>4
<1>6. \A k \in 1 .. n : v[m + k] = [at |-> k, value |-> table[k]]
  <2> TAKE k \in 1 .. n
  <2>1. PICK i : i = m + k
    OBVIOUS
  <2>2. i \in 1 .. m + (n + 1) /\ ~(i <= m) /\ i - m = k
    BY <1>1, <2>1
  <2>3. v[i] = t[k]
    BY <1>4, <2>2
  <2> QED BY <1>2, <2>1, <2>3
<1>7. v[m + (n + 1)] = [at |-> Header, value |-> n]
  <2>1. PICK i : i = m + (n + 1)
    OBVIOUS
  <2>2. i \in 1 .. m + (n + 1) /\ ~(i <= m) /\ i - m = n + 1
    BY <1>1, <2>1
  <2>3. v[i] = t[n + 1]
    BY <1>4, <2>2
  <2> QED BY <1>2, <2>1, <2>3
<1>8. Ordered(v)
  <2> SUFFICES ASSUME NEW i \in 1 .. Len(v), v[i].at = Header,
                      NEW k \in 1 .. v[i].value
               PROVE  \E j \in 1 .. i - 1 : v[j].at = k
    BY DEF Ordered
  <2>1. CASE i \in 1 .. m
    <3>1. v[i] = w[i]
      BY <1>5, <2>1
    <3>2. PICK j \in 1 .. i - 1 : w[j].at = k
      BY <2>1, <3>1 DEF Ordered, m
    <3>3. j \in 1 .. m
      BY <1>1, <2>1
    <3> QED BY <1>5, <3>2, <3>3
  <2>2. CASE i \notin 1 .. m
    <3>1. i \in 1 .. m + (n + 1)
      BY <1>4
    <3>2. i = m + (n + 1) \/ (i - m \in 1 .. n /\ i = m + (i - m))
      BY <1>1, <2>2, <3>1
    <3>3. CASE i = m + (n + 1)
      <4>1. k \in 1 .. n
        BY <1>7, <3>3
      <4>2. m + k \in 1 .. i - 1
        BY <1>1, <3>3, <4>1
      <4>3. v[m + k] = [at |-> k, value |-> table[k]]
        BY <1>6, <4>1
      <4>4. v[m + k].at = k
        BY <4>3
      <4> QED BY <4>2, <4>4
    <3>4. CASE i - m \in 1 .. n /\ i = m + (i - m)
      <4>1. PICK d \in 1 .. n : i = m + d
        BY <3>4
      <4>2. v[i] = [at |-> d, value |-> table[d]]
        BY <1>6, <4>1
      <4>3. v[i].at = d
        BY <4>2
      <4> QED BY <1>1, <4>1, <4>3 DEF Header
    <3> QED BY <3>2, <3>3, <3>4
  <2> QED BY <2>1, <2>2
<1>9. Ends(v, table)
  <2>1. \A k \in 1 .. n : Len(v) - (n + 1 - k) = m + k
    BY <1>1, <1>4
  <2>2. n + 1 <= Len(v)
    BY <1>1, <1>4
  <2> QED BY <1>4, <1>6, <1>7, <2>1, <2>2 DEF Ends, n
<1> QED BY <1>4, <1>8, <1>9 DEF W, v, t

AllWrites(saves) ==
    FlattenSeq([k \in DOMAIN saves |-> zclGeneral_ScenesWriteNV(saves[k])])
LEMMA NothingSaved == AllWrites(<< >>) = << >>
<1> DEFINE ss == [k \in DOMAIN << >> |-> zclGeneral_ScenesWriteNV(<< >>[k])]
<1>1. ss = << >>
  OBVIOUS
<1>2. FlattenSeq(<< >>) = << >>
  BY DEF FlattenSeq
<1> HIDE DEF ss
<1>3. AllWrites(<< >>) = FlattenSeq(ss)
  BY DEF AllWrites, ss
<1> QED BY <1>1, <1>2, <1>3

LEMMA SavesWritten ==
    ASSUME NEW S, NEW saves \in Seq(Seq(S)), saves # << >>
    PROVE  /\ AllWrites(saves) \in Seq(NVWrite(S))
           /\ Ordered(AllWrites(saves))
           /\ Ends(AllWrites(saves), saves[Len(saves)])
           /\ Len(saves) = 1 => Len(AllWrites(saves)) = Len(saves[1]) + 1
<1> DEFINE n == Len(saves)
           W == NVWrite(S)
           X == Seq(W)
           ss == [k \in DOMAIN saves |-> zclGeneral_ScenesWriteNV(saves[k])]
<1>1. n \in Nat \ {0} /\ DOMAIN saves = 1 .. n
  OBVIOUS
<1>2. \A k \in 1 .. n : saves[k] \in Seq(S)
  <2> DEFINE U == Seq(S)
  <2>1. saves \in Seq(U)
    OBVIOUS
  <2> HIDE DEF U
  <2>2. \A k \in 1 .. n : saves[k] \in U
    BY <2>1
  <2> QED BY <2>2 DEF U
<1>3. \A k \in 1 .. n : ss[k] = zclGeneral_ScenesWriteNV(saves[k])
  BY <1>1
<1>4. \A k \in 1 .. n : ss[k] \in X
  BY <1>2, <1>3, WritesIs
<1>5. ss \in Seq(X) /\ Len(ss) = n
  <2>1. DOMAIN ss = 1 .. n /\ ss = [k \in 1 .. n |-> ss[k]]
    BY <1>1
  <2> HIDE DEF ss, X, n
  <2>2. ss \in [1 .. n -> X]
    BY <1>4, <2>1
  <2> QED BY <1>1, <2>2
<1> HIDE DEF ss, n, W
<1>6. ss # << >>
  <2>1. Len(ss) # 0
    BY <1>1, <1>5
  <2> QED BY <2>1
<1>7. PICK f \in [1 .. n -> X] :
          /\ FlattenSeq(ss) = f[n]
          /\ f[1] = ss[1]
          /\ \A k \in 2 .. n : f[k] = f[k - 1] \o ss[k]
  BY <1>5, <1>6, FlattenSteps
<1>8. AllWrites(saves) = f[n]
  BY <1>7 DEF AllWrites, ss
<1> DEFINE T == {k \in 0 .. n : k = 0 \/ /\ Ordered(f[k])
                                         /\ Ends(f[k], saves[k])}
<1>9. 0 \in T
  BY <1>1
<1>10. 1 \in T
  <2>1. 1 \in 1 .. n /\ 1 \in 0 .. n
    BY <1>1
  <2>2. << >> \in X /\ Ordered(<< >>)
    BY DEF Ordered
  <2>3. f[1] = << >> \o zclGeneral_ScenesWriteNV(saves[1])
    BY <1>3, <1>4, <1>7, <2>1
  <2>4. saves[1] \in Seq(S)
    BY <1>2, <2>1
  <2>5. Ordered(f[1]) /\ Ends(f[1], saves[1])
    BY <2>2, <2>3, <2>4, SaveAppended DEF W
  <2> QED BY <2>1, <2>5
<1>11. ASSUME NEW k \in 1 .. n, k - 1 \in T
       PROVE  k \in T
  <2>1. CASE k = 1
    BY <1>10, <2>1
  <2>2. CASE k # 1
    <3>1. k \in 2 .. n /\ k \in 0 .. n /\ k - 1 # 0 /\ k - 1 \in 1 .. n
      BY <1>1, <2>2
    <3>2. f[k] = f[k - 1] \o zclGeneral_ScenesWriteNV(saves[k])
      BY <1>3, <1>7, <3>1
    <3>3. f[k - 1] \in X /\ Ordered(f[k - 1]) /\ saves[k] \in Seq(S)
      BY <1>2, <1>7, <1>11, <3>1
    <3>4. Ordered(f[k]) /\ Ends(f[k], saves[k])
      BY <3>2, <3>3, SaveAppended DEF W
    <3> QED BY <3>1, <3>4
  <2> QED BY <2>1, <2>2
<1>12. T = 0 .. n
  <2> HIDE DEF T
  <2>1. T \in SUBSET (0 .. n)
    BY DEF T
  <2> QED BY <1>1, <1>9, <1>11, <2>1, UpTo
<1>13. n \in T /\ n # 0 /\ n \in 1 .. n
  <2> HIDE DEF T
  <2> QED BY <1>1, <1>12
<1>14. f[n] \in X /\ Ordered(f[n]) /\ Ends(f[n], saves[n])
  BY <1>7, <1>13
<1>15. n = 1 => Len(f[n]) = Len(saves[1]) + 1
  <2> SUFFICES ASSUME n = 1 PROVE Len(f[1]) = Len(saves[1]) + 1
    OBVIOUS
  <2>1. f[1] = zclGeneral_ScenesWriteNV(saves[1]) /\ saves[1] \in Seq(S)
    BY <1>2, <1>3, <1>7, <1>13
  <2> QED BY <2>1, WritesIs
<1> QED BY <1>8, <1>14, <1>15 DEF n, W

--------------------------------------------------------------------------------
(* What a handler does to the table.                                         *)
Good(S) == \A s \in S : IsScene(s) /\ Valid(s.groupID)
TableGood ==
    /\ zclGenSceneTable \in Seq(Range(zclGenSceneTable))
    /\ Good(Range(zclGenSceneTable))
    /\ IsFiniteSet(groups)

\* A handler's table and saves: only good scenes, old ones or new ones; the
\* last save is the table, and a single save that does not make it shorter
\* changes one scene.
Works(S) == [table : Seq(S), saves : Seq(Seq(S))]
Present(w) == Range(zclGenSceneTable) \cup Range(w.table)
LastSaved(w) == IF w.saves = << >> THEN w.table = zclGenSceneTable
                ELSE w.saves[Len(w.saves)] = w.table
WorkSound(w) ==
    /\ w \in Works(Present(w))
    /\ Good(Present(w))
    /\ LastSaved(w)
    /\ Len(w.saves) <= 1 /\ Len(w.table) >= Len(zclGenSceneTable) =>
          OneChange(zclGenSceneTable, w.table)
Sound(r) ==
    /\ WorkSound(r.work)
    /\ IsFiniteSet(r.joins)
    /\ \A s \in Range(r.work.table) :
          s.groupID \in r.leaves => s.groupID = NoGroup

LEMMA RangeIs ==
    ASSUME NEW S, NEW x \in Seq(S)
    PROVE  /\ Range(x) \subseteq S
           /\ x \in Seq(Range(x))
           /\ \A k \in 1 .. Len(x) : x[k] \in Range(x)
           /\ \A e \in Range(x) : \E k \in 1 .. Len(x) : e = x[k]
<1>1. DOMAIN x = 1 .. Len(x) /\ Len(x) \in Nat
  OBVIOUS
<1>2. Range(x) = {x[k] : k \in 1 .. Len(x)}
  BY <1>1 DEF Range
<1>3. \A k \in 1 .. Len(x) : x[k] \in Range(x)
  BY <1>2
<1>4. x \in Seq(Range(x))
  BY <1>1, <1>3
<1> QED BY <1>1, <1>2, <1>3, <1>4

LEMMA NoChange ==
    ASSUME NEW S, NEW x \in Seq(S)
    PROVE  OneChange(x, x)
<1>1. Len(x) \in Nat
  OBVIOUS
<1>2. 0 \in 0 .. Len(x) /\ Len(x) = Len(x)
      /\ \A k \in 1 .. Len(x) : k # 0 => x[k] = x[k]
  BY <1>1
<1> QED BY <1>2 DEF OneChange

LEMMA NothingDone ==
    ASSUME TableGood
    PROVE  WorkSound(Now)
<1> DEFINE t == zclGenSceneTable
           R == Range(t)
<1>1. t \in Seq(R) /\ Good(R)
  BY DEF TableGood
<1>2. Now = [table |-> t, saves |-> << >>]
  BY DEF Now, Work
<1>3. Present(Now) = R
  BY <1>2 DEF Present
<1>4. OneChange(t, t)
  BY <1>1, NoChange
<1> HIDE DEF t, R
<1>5. Now \in Works(R)
  BY <1>1, <1>2 DEF Works
<1>6. LastSaved(Now)
  BY <1>2 DEF LastSaved, t
<1>7. Now.table = t
  BY <1>2
<1> QED BY <1>1, <1>3, <1>4, <1>5, <1>6, <1>7 DEF WorkSound, t

LEMMA SavedOnce ==
    ASSUME TableGood, NEW S, NEW table \in Seq(S), Good(Range(table)),
           Len(table) >= Len(zclGenSceneTable) =>
               OneChange(zclGenSceneTable, table)
    PROVE  WorkSound(Work(table, <<table>>))
<1> DEFINE w == Work(table, <<table>>)
           R == Range(zclGenSceneTable) \cup Range(table)
<1>1. w = [table |-> table, saves |-> <<table>>]
  BY DEF Work
<1>2. Present(w) = R
  BY <1>1 DEF Present
<1>3. Good(R)
  BY DEF Good, TableGood
<1>4. table \in Seq(R)
  <2>1. table \in Seq(Range(table)) /\ Range(table) \subseteq R
    BY RangeIs
  <2> HIDE DEF R
  <2> QED BY <2>1, SeqMonotonic
<1>5. w.table = table /\ w.saves = <<table>>
  BY <1>1
<1> HIDE DEF w
<1>6. w \in Works(R)
  <2> DEFINE X == Seq(R)
  <2>1. table \in X
    BY <1>4
  <2> HIDE DEF X
  <2>2. <<table>> \in Seq(X)
    BY <2>1
  <2>3. w \in [table : X, saves : Seq(X)]
    BY <1>1, <2>1, <2>2
  <2> QED BY <2>3 DEF Works, X
<1>7. LastSaved(w)
  BY <1>5 DEF LastSaved
<1>8. WorkSound(w)
  BY <1>2, <1>3, <1>5, <1>6, <1>7 DEF WorkSound
<1> QED BY <1>8 DEF w

\* One scene more, one less, one changed.
LEMMA SceneAppended ==
    ASSUME TableGood, NEW scene, IsScene(scene), Valid(scene.groupID)
    PROVE  WorkSound(zclGeneral_AddScene(Now, scene))
<1> DEFINE t == zclGenSceneTable
           S == Range(t) \cup {scene}
           x == Append(t, scene)
<1>1. t \in Seq(S)
  <2>1. t \in Seq(Range(t)) /\ Range(t) \subseteq S
    BY DEF TableGood
  <2> HIDE DEF S
  <2> QED BY <2>1, SeqMonotonic
<1>2. scene \in S /\ Good(S)
  BY DEF TableGood, Good
<1> HIDE DEF S, t
<1>3. x \in Seq(S) /\ Len(x) = Len(t) + 1 /\ \A k \in 1 .. Len(t) : x[k] = t[k]
  BY <1>1, <1>2, AppendProperties
<1> HIDE DEF x
<1>4. Good(Range(x))
  BY <1>2, <1>3, RangeIs DEF Good
<1>5. OneChange(t, x)
  <2>1. Len(t) \in Nat /\ Len(x) \in 0 .. Len(x)
    BY <1>1, <1>3
  <2> QED BY <1>3, <2>1 DEF OneChange
<1>6. WorkSound(Work(x, <<x>>))
  BY <1>3, <1>4, <1>5, SavedOnce DEF t
<1>7. zclGeneral_AddScene(Now, scene) = Work(x, <<x>>)
  <2>1. Append(<< >>, x) = <<x>>
    OBVIOUS
  <2> QED BY <2>1 DEF zclGeneral_AddScene, zclGeneral_ScenesSave, Now, Work, t, x
<1> QED BY <1>6, <1>7

LEMMA SceneChanged ==
    ASSUME TableGood, NEW k \in 1 .. Len(zclGenSceneTable),
           NEW scene, IsScene(scene), Valid(scene.groupID)
    PROVE  LET x == [zclGenSceneTable EXCEPT ![k] = scene]
           IN WorkSound(zclGeneral_ScenesSave(Work(x, << >>)))
<1> DEFINE t == zclGenSceneTable
           S == Range(t) \cup {scene}
           x == [t EXCEPT ![k] = scene]
<1>1. t \in Seq(S)
  <2>1. t \in Seq(Range(t)) /\ Range(t) \subseteq S
    BY DEF TableGood
  <2> HIDE DEF S
  <2> QED BY <2>1, SeqMonotonic
<1>2. scene \in S /\ Good(S) /\ k \in 1 .. Len(t)
  BY DEF TableGood, Good
<1> HIDE DEF S, t
<1>3. /\ x \in Seq(S) /\ Len(x) = Len(t)
      /\ \A j \in 1 .. Len(t) : x[j] = IF j = k THEN scene ELSE t[j]
  BY <1>1, <1>2, ExceptSeq
<1> HIDE DEF x
<1>4. Good(Range(x))
  BY <1>2, <1>3, RangeIs DEF Good
<1>5. OneChange(t, x)
  <2>1. Len(t) \in Nat /\ k \in 0 .. Len(x)
    BY <1>1, <1>2, <1>3
  <2>2. \A j \in 1 .. Len(t) : j # k => x[j] = t[j]
    BY <1>3
  <2> QED BY <1>3, <2>1, <2>2 DEF OneChange
<1>6. WorkSound(Work(x, <<x>>))
  BY <1>3, <1>4, <1>5, SavedOnce DEF t
<1>7. zclGeneral_ScenesSave(Work(x, << >>)) = Work(x, <<x>>)
  <2>1. Append(<< >>, x) = <<x>>
    OBVIOUS
  <2> QED BY <2>1 DEF zclGeneral_ScenesSave, Work
<1> QED BY <1>6, <1>7 DEF t, x

LEMMA ResultSound ==
    ASSUME NEW w, NEW stat, NEW rsp, WorkSound(w)
    PROVE  Sound(Result(w, stat, rsp))
<1>1. /\ Result(w, stat, rsp).work = w
      /\ Result(w, stat, rsp).leaves = {}
      /\ Result(w, stat, rsp).joins = {}
  BY DEF Result
<1>2. IsFiniteSet({})
  BY FS_EmptySet
<1> HIDE DEF Result
<1> QED BY <1>1, <1>2 DEF Sound

LEMMA AnswerSound ==
    ASSUME NEW w, NEW msg, NEW rsp, WorkSound(w)
    PROVE  Sound(Answer(w, msg, rsp))
BY ResultSound DEF Answer

LEMMA FoundScene ==
    ASSUME TableGood, NEW g, NEW i, Find(zclGenSceneTable, g, i) # 0
    PROVE  LET k == Find(zclGenSceneTable, g, i)
           IN /\ k \in 1 .. Len(zclGenSceneTable)
              /\ Match(zclGenSceneTable[k], g, i)
              /\ IsScene(zclGenSceneTable[k])
              /\ Valid(zclGenSceneTable[k].groupID)
<1> DEFINE t == zclGenSceneTable
           k == Find(t, g, i)
<1>1. t \in Seq(Range(t)) /\ Good(Range(t))
  BY DEF TableGood
<1>2. Len(t) \in Nat
  BY <1>1
<1> HIDE DEF k, t
<1>3. k \in 0 .. Len(t) /\ (k # 0 => Match(t[k], g, i))
  BY <1>1, FindIs DEF k
<1>4. k # 0
  BY DEF k, t
<1>5. k \in 1 .. Len(t) /\ Match(t[k], g, i)
  BY <1>2, <1>3, <1>4
<1>6. t[k] \in Range(t)
  BY <1>1, <1>5, RangeIs
<1> QED BY <1>1, <1>5, <1>6 DEF Good, k, t

LEMMA SceneAddSound ==
    ASSUME TableGood, NEW msg
    PROVE  Sound(SceneAdd(msg))
<1> DEFINE c == msg.attrCmd
           enhanced == msg.hdr.cmd = SCENE.ENHANCED_ADD
           scene == [groupID |-> c.groupID, ID |-> c.ID,
                     transTime |-> c.transTime,
                     tenths |-> IF enhanced THEN c.tenths ELSE 0]
           k == Find(zclGenSceneTable, c.groupID, c.ID)
           updated == [zclGenSceneTable EXCEPT ![k].transTime = scene.transTime]
           changed == zclGeneral_ScenesSave(Work(updated, << >>))
           added == zclGeneral_AddScene(Now, scene)
<1>1. k = zclGeneral_FindScene(Now, c.groupID, c.ID)
  BY DEF zclGeneral_FindScene, Now, Work
<1>2. \/ \E rsp : SceneAdd(msg) = Answer(Now, msg, rsp)
      \/ /\ Valid(c.groupID) /\ k # 0
         /\ SceneAdd(msg) = Answer(changed, msg, [status |-> SUCCESS])
      \/ /\ Valid(c.groupID)
         /\ SceneAdd(msg) = Answer(added, msg, [status |-> SUCCESS])
  <2> HIDE DEF k
  <2> QED BY <1>1 DEF SceneAdd, None
<1>3. CASE \E rsp : SceneAdd(msg) = Answer(Now, msg, rsp)
  BY <1>3, NothingDone, AnswerSound
<1>4. ASSUME Valid(c.groupID), k # 0
      PROVE  WorkSound(changed)
  <2> DEFINE s == zclGenSceneTable[k]
             x == [s EXCEPT !.transTime = scene.transTime]
  <2>1. /\ k \in 1 .. Len(zclGenSceneTable)
        /\ IsScene(s) /\ Valid(s.groupID)
    BY <1>4, FoundScene
  <2>2. IsScene(x) /\ x.groupID = s.groupID
    <3> HIDE DEF s
    <3>1. "groupID" \in DOMAIN s
      BY <2>1 DEF IsScene
    <3> QED BY <2>1, <3>1 DEF IsScene
  <2>3. updated = [zclGenSceneTable EXCEPT ![k] = x]
    <3> HIDE DEF k
    <3> QED OBVIOUS
  <2> HIDE DEF k, x, s
  <2>4. WorkSound(zclGeneral_ScenesSave(
            Work([zclGenSceneTable EXCEPT ![k] = x], << >>)))
    BY <2>1, <2>2, SceneChanged
  <2> QED BY <2>3, <2>4
<1>5. ASSUME Valid(c.groupID)
      PROVE  WorkSound(added)
  <2>1. IsScene(scene) /\ scene.groupID = c.groupID
    BY DEF IsScene
  <2> HIDE DEF scene
  <2> QED BY <1>5, <2>1, SceneAppended
<1> HIDE DEF changed, added
<1> QED BY <1>2, <1>3, <1>4, <1>5, AnswerSound

LEMMA SceneStoreSound ==
    ASSUME TableGood, NEW msg, NEW change
    PROVE  Sound(SceneStore(msg, change))
<1> DEFINE c == msg.attrCmd
           k == Find(zclGenSceneTable, c.groupID, c.ID)
           scene == IF k # None THEN zclGenSceneTable[k]
                    ELSE [groupID |-> c.groupID, ID |-> c.ID,
                          transTime |-> 0, tenths |-> 0]
           filled == IF change = Unchanged THEN scene
                     ELSE [scene EXCEPT !.transTime = change]
           changed == zclGeneral_ScenesSave(
                          Work([zclGenSceneTable EXCEPT ![k] = filled], << >>))
           added == zclGeneral_AddScene(Now, filled)
<1>1. k = zclGeneral_FindScene(Now, c.groupID, c.ID)
  BY DEF zclGeneral_FindScene, Now, Work
<1>2. \/ \E rsp : SceneStore(msg, change) = Answer(Now, msg, rsp)
      \/ /\ Valid(c.groupID) /\ k # 0
         /\ SceneStore(msg, change) = Answer(changed, msg, [status |-> SUCCESS])
      \/ /\ Valid(c.groupID)
         /\ SceneStore(msg, change) = Answer(added, msg, [status |-> SUCCESS])
  <2> HIDE DEF k
  <2> QED BY <1>1 DEF SceneStore, None
<1>3. CASE \E rsp : SceneStore(msg, change) = Answer(Now, msg, rsp)
  BY <1>3, NothingDone, AnswerSound
<1>4. ASSUME Valid(c.groupID)
      PROVE  IsScene(filled) /\ Valid(filled.groupID)
  <2>1. k # 0 => IsScene(zclGenSceneTable[k])
                 /\ Valid(zclGenSceneTable[k].groupID)
    BY FoundScene
  <2> HIDE DEF k
  <2>2. IsScene(scene) /\ Valid(scene.groupID)
    <3>1. CASE k # 0
      BY <2>1, <3>1 DEF None
    <3>2. CASE k = 0
      <4>1. scene = [groupID |-> c.groupID, ID |-> c.ID,
                     transTime |-> 0, tenths |-> 0]
        BY <3>2 DEF None
      <4> HIDE DEF scene
      <4>2. IsScene(scene) /\ scene.groupID = c.groupID
        BY <4>1 DEF IsScene
      <4> QED BY <1>4, <4>2
    <3> QED BY <3>1, <3>2
  <2> HIDE DEF scene
  <2>3. IsScene(filled) /\ filled.groupID = scene.groupID
    <3>1. "groupID" \in DOMAIN scene
      BY <2>2 DEF IsScene
    <3> QED BY <2>2, <3>1 DEF IsScene
  <2> QED BY <2>2, <2>3
<1>5. ASSUME Valid(c.groupID), k # 0
      PROVE  WorkSound(changed)
  <2>1. k \in 1 .. Len(zclGenSceneTable)
    BY <1>5, FoundScene
  <2> HIDE DEF k, filled
  <2> QED BY <1>4, <1>5, <2>1, SceneChanged
<1>6. ASSUME Valid(c.groupID)
      PROVE  WorkSound(added)
  <2> HIDE DEF filled
  <2> QED BY <1>4, <1>6, SceneAppended
<1> HIDE DEF changed, added
<1> QED BY <1>2, <1>3, <1>5, <1>6, AnswerSound

--------------------------------------------------------------------------------
(* Scenes are taken out.                                                     *)
LEMMA GoodSubset ==
    ASSUME NEW S, NEW T, Good(T), S \subseteq T
    PROVE  Good(S)
BY DEF Good

LEMMA SceneRemoved ==
    ASSUME TableGood, NEW g, NEW i
    PROVE  WorkSound(zclGeneral_RemoveScene(Now, g, i))
<1> DEFINE t == zclGenSceneTable
           R == Range(t)
           k == Find(t, g, i)
           x == RemoveAt(t, k)
<1>1. k = zclGeneral_FindScene(Now, g, i)
  BY DEF zclGeneral_FindScene, Now, Work
<1>2. CASE k = 0
  BY <1>1, <1>2, NothingDone DEF zclGeneral_RemoveScene, None
<1>3. CASE k # 0
  <2>1. k \in 1 .. Len(t)
    BY <1>3, FoundScene
  <2>2. t \in Seq(R) /\ Good(R)
    BY DEF TableGood
  <2> HIDE DEF R
  <2>3. x \in Seq(R) /\ Len(x) = Len(t) - 1
    <3> HIDE DEF k, t
    <3> QED BY <2>1, <2>2, RemoveAtIs
  <2>4. zclGeneral_RemoveScene(Now, g, i) = Work(x, <<x>>)
    <3>1. Append(<< >>, x) = <<x>>
      OBVIOUS
    <3> HIDE DEF k
    <3> QED BY <1>1, <1>3, <3>1
            DEF zclGeneral_RemoveScene, zclGeneral_ScenesSave, Now, Work, None
  <2> HIDE DEF x
  <2>5. Good(Range(x))
    BY <2>2, <2>3, RangeIs, GoodSubset
  <2>6. ~(Len(x) >= Len(t))
    <3> HIDE DEF t
    <3>1. Len(t) \in Nat
      BY <2>2
    <3> QED BY <2>3, <3>1
  <2> QED BY <2>3, <2>4, <2>5, <2>6, SavedOnce
<1> QED BY <1>2, <1>3

Others(table, g) == Picked(table, DOMAIN table \ Of(table, g))
LEMMA OthersIs ==
    ASSUME NEW S, NEW table \in Seq(S), NEW g
    PROVE  /\ Others(table, g) \in Seq(S)
           /\ Range(Others(table, g)) \subseteq Range(table)
           /\ \A s \in Range(Others(table, g)) : s.groupID # g
           /\ Len(Others(table, g)) <= Len(table)
           /\ Len(Others(table, g)) = Len(table) => Others(table, g) = table
<1> DEFINE K == DOMAIN table \ Of(table, g)
           x == Others(table, g)
<1>1. /\ x \in Seq(S) /\ Len(x) <= Len(table)
      /\ \A j \in 1 .. Len(x) : \E i \in 1 .. Len(table) :
             i \in K /\ x[j] = table[i]
      /\ Len(x) = Len(table) => x = table
  <2> HIDE DEF K
  <2>1. x = Picked(table, K)
    BY DEF Others, K
  <2> HIDE DEF x
  <2> QED BY <2>1, PickedFrom
<1>2. \A i \in K : table[i].groupID # g
  BY DEF Of
<1> HIDE DEF x, K
<1>3. \A s \in Range(x) : \E i \in 1 .. Len(table) : i \in K /\ s = table[i]
  <2>1. \A s \in Range(x) : \E j \in 1 .. Len(x) : s = x[j]
    BY <1>1, RangeIs
  <2> QED BY <1>1, <2>1
<1>4. \A i \in 1 .. Len(table) : table[i] \in Range(table)
  BY RangeIs
<1> QED BY <1>1, <1>2, <1>3, <1>4 DEF x

LEMMA GroupsScenesRemoved ==
    ASSUME TableGood, NEW g
    PROVE  LET w == zclGeneral_RemoveAllScenes(Now, g)
           IN WorkSound(w) /\ \A s \in Range(w.table) : s.groupID # g
<1> DEFINE t == zclGenSceneTable
           R == Range(t)
           x == Others(t, g)
<1>1. t \in Seq(R) /\ Good(R)
  BY DEF TableGood
<1>2. zclGeneral_RemoveAllScenes(Now, g) = Work(x, <<x>>)
  <2>1. Append(<< >>, x) = <<x>>
    OBVIOUS
  <2> QED BY <2>1 DEF zclGeneral_RemoveAllScenes, zclGeneral_ScenesSave,
                      Now, Work, Others
<1> HIDE DEF x
<1>3. /\ x \in Seq(R) /\ Range(x) \subseteq R
      /\ \A s \in Range(x) : s.groupID # g
      /\ Len(x) <= Len(t)
      /\ Len(x) = Len(t) => x = t
  <2> HIDE DEF R, t
  <2>1. Range(x) \subseteq Range(t)
    BY <1>1, OthersIs DEF x
  <2> QED BY <1>1, <2>1, OthersIs DEF x, R
<1>4. Good(Range(x))
  BY <1>1, <1>3, GoodSubset
<1>5. Len(x) >= Len(t) => OneChange(t, x)
  <2>1. Len(x) \in Nat /\ Len(t) \in Nat
    BY <1>1, <1>3
  <2>2. OneChange(t, t)
    BY <1>1, NoChange
  <2> HIDE DEF t
  <2> QED BY <1>3, <2>1, <2>2
<1>6. WorkSound(Work(x, <<x>>))
  BY <1>3, <1>4, <1>5, SavedOnce
<1>7. Work(x, <<x>>).table = x
  BY DEF Work
<1> QED BY <1>2, <1>3, <1>6, <1>7

\* All groups are left, one after the other.
RemovedFor(f, list) ==
    /\ f[0] = Now
    /\ \A k \in 1 .. Len(list) :
          f[k] = zclGeneral_RemoveAllScenes(f[k - 1], list[k])
LEMMA SavedIs ==
    ASSUME NEW S, NEW table \in Seq(S), NEW saves \in Seq(Seq(S))
    PROVE  LET w == zclGeneral_ScenesSave(Work(table, saves))
           IN /\ w \in Works(S)
              /\ w.table = table
              /\ w.saves = Append(saves, table)
              /\ Len(w.saves) = Len(saves) + 1
              /\ \A k \in 1 .. Len(saves) : w.saves[k] = saves[k]
              /\ w.saves[Len(w.saves)] = table
<1> DEFINE X == Seq(S)
           w == zclGeneral_ScenesSave(Work(table, saves))
<1>1. w = [table |-> table, saves |-> Append(saves, table)]
  BY DEF zclGeneral_ScenesSave, Work
<1>2. table \in X /\ saves \in Seq(X)
  OBVIOUS
<1> HIDE DEF X, w
<1>3. /\ Append(saves, table) \in Seq(X)
      /\ Len(Append(saves, table)) = Len(saves) + 1
      /\ \A k \in 1 .. Len(saves) : Append(saves, table)[k] = saves[k]
      /\ Append(saves, table)[Len(saves) + 1] = table
  BY <1>2, AppendProperties
<1>4. w.table = table /\ w.saves = Append(saves, table)
  BY <1>1
<1>5. w \in [table : X, saves : Seq(X)]
  BY <1>1, <1>2, <1>3
<1>6. w \in Works(S)
  BY <1>5 DEF Works, X
<1> QED BY <1>3, <1>4, <1>6 DEF w

LEMMA ListOf ==
    ASSUME NEW S, IsFiniteSet(S)
    PROVE  SetToSeq(S) \in Seq(S) /\ \A e \in S :
               \E k \in 1 .. Len(SetToSeq(S)) : e = SetToSeq(S)[k]
<1> DEFINE n == Cardinality(S)
           Is(f) == f \in [1 .. n -> S] /\ IsInjective(f)
           list == SetToSeq(S)
<1>1. n \in Nat /\ ExistsBijection(1 .. n, S)
  BY FS_CardinalityType
<1>2. \E f : Is(f)
  BY <1>1 DEF ExistsBijection, Bijection, Injection
<1>3. Is(CHOOSE f : Is(f))
  BY <1>2
<1>4. list \in [1 .. n -> S] /\ IsInjective(list)
  <2>1. \E f \in [1 .. n -> S] : IsInjective(f)
    BY <1>2
  <2> HIDE DEF n
  <2>2. list = CHOOSE f \in [1 .. n -> S] : IsInjective(f)
    BY DEF SetToSeq, n
  <2> HIDE DEF list
  <2> QED BY <2>1, <2>2
<1>5. list \in Injection(1 .. n, S)
  BY <1>4 DEF Injection
<1>6. IsFiniteSet(1 .. n) /\ Cardinality(1 .. n) = n
  BY <1>1, FS_Interval
<1>7. list \in Surjection(1 .. n, S)
  <2> HIDE DEF list
  <2> QED BY <1>5, <1>6, FS_Injection
<1>8. \A e \in S : \E k \in 1 .. n : e = list[k]
  <2> HIDE DEF list, n
  <2> QED BY <1>7 DEF Surjection
<1>9. list \in Seq(S) /\ Len(list) = n
  <2> HIDE DEF list, n
  <2> QED BY <1>1, <1>4
<1> HIDE DEF list
<1> QED BY <1>8, <1>9 DEF list

LEMMA RemovedSteps ==
    ASSUME TableGood, NEW msg
    PROVE  LET list == SetToSeq(groups)
               R == Range(zclGenSceneTable)
           IN \E f \in [0 .. Len(list) -> Works(R)] :
                  /\ RemovedFor(f, list)
                  /\ GroupRemoveAll(msg).work = f[Len(list)]
<1> DEFINE list == SetToSeq(groups)
           n == Len(list)
           t == zclGenSceneTable
           R == Range(t)
           W == Works(R)
           Next1(w, k) == zclGeneral_RemoveAllScenes(w, list[k])
           step == [k \in 1 .. n |-> [w \in W |-> Next1(w, k)]]
           Is(f) == f = [k \in 0 .. n |-> IF k = 0 THEN Now
                                         ELSE Next1(f[k - 1], k)]
<1>1. n \in Nat
  BY ListOf DEF TableGood
<1>2. Now \in W
  <2>1. Present(Now) = R
    BY DEF Present, Now, Work
  <2>2. WorkSound(Now)
    BY NothingDone
  <2> QED BY <2>1, <2>2 DEF WorkSound
<1>3. ASSUME NEW w \in W, NEW k \in 1 .. n
      PROVE  Next1(w, k) \in W
  <2>1. w.table \in Seq(R) /\ w.saves \in Seq(Seq(R))
    BY DEF Works
  <2> DEFINE x == Others(w.table, list[k])
  <2>2. x \in Seq(R)
    BY <2>1, OthersIs
  <2>3. Next1(w, k) = zclGeneral_ScenesSave(Work(x, w.saves))
    BY DEF zclGeneral_RemoveAllScenes, Others
  <2> HIDE DEF x, Next1, R
  <2> QED BY <2>1, <2>2, <2>3, SavedIs
<1>4. step \in [1 .. n -> [W -> W]]
  <2> HIDE DEF W, n, Next1
  <2> QED BY <1>3
<1> HIDE DEF n, W, Next1
<1>5. PICK g : IsRun(g, W, Now, n, step)
  <2> HIDE DEF step
  <2> QED BY <1>1, <1>2, <1>4, LoopRuns
<1>6. g \in [0 .. n -> W] /\ g[0] = Now
  BY <1>5 DEF IsRun
<1>7. \A k \in 1 .. n : g[k] = Next1(g[k - 1], k)
  <2> TAKE k \in 1 .. n
  <2>1. k - 1 \in 0 .. n
    BY <1>1
  <2>2. g[k] = step[k][g[k - 1]] /\ g[k - 1] \in W
    BY <1>5, <1>6, <2>1 DEF IsRun
  <2> QED BY <2>2
<1>8. Is(g)
  <2>1. \A k \in 0 .. n : g[k] = IF k = 0 THEN Now ELSE Next1(g[k - 1], k)
    <3> TAKE k \in 0 .. n
    <3>1. k # 0 => k \in 1 .. n
      BY <1>1
    <3> QED BY <1>6, <1>7, <3>1
  <2> QED BY <1>6, <2>1
<1> DEFINE h == CHOOSE f : Is(f)
<1>9. Is(h)
  BY <1>8
<1>10. GroupRemoveAll(msg).work = h[n]
  BY DEF GroupRemoveAll, Result, Next1, n
<1> HIDE DEF h
<1>11. h[0] = Now /\ \A k \in 1 .. n : h[k] = Next1(h[k - 1], k)
  <2>1. \A k \in 0 .. n : h[k] = IF k = 0 THEN Now ELSE Next1(h[k - 1], k)
    BY <1>9
  <2>2. 0 \in 0 .. n /\ \A k \in 1 .. n : k \in 0 .. n /\ k # 0
    BY <1>1
  <2> QED BY <2>1, <2>2
<1>12. \A k \in 0 .. n : h[k] \in W
  <2> DEFINE T == {k \in 0 .. n : h[k] \in W}
  <2>1. 0 \in T
    BY <1>1, <1>2, <1>11
  <2>2. ASSUME NEW k \in 1 .. n, k - 1 \in T
        PROVE  k \in T
    <3>1. h[k - 1] \in W
      BY <2>2
    <3>2. h[k] \in W
      BY <1>3, <1>11, <3>1
    <3> QED BY <1>1, <3>2
  <2>3. T = 0 .. n
    <3> HIDE DEF T
    <3>1. T \in SUBSET (0 .. n)
      BY DEF T
    <3> QED BY <1>1, <2>1, <2>2, <3>1, UpTo
  <2> QED BY <2>3
<1>13. h \in [0 .. n -> W]
  <2>1. h = [k \in 0 .. n |-> h[k]]
    BY <1>9
  <2> QED BY <1>12, <2>1
<1>14. RemovedFor(h, list)
  BY <1>11 DEF RemovedFor, Next1, n
<1> QED BY <1>10, <1>13, <1>14 DEF n, W

LEMMA GroupRemoveAllSound ==
    ASSUME TableGood, NEW msg
    PROVE  Sound(GroupRemoveAll(msg))
<1> DEFINE list == SetToSeq(groups)
           n == Len(list)
           t == zclGenSceneTable
           R == Range(t)
<1>1. list \in Seq(groups) /\ \A e \in groups : \E k \in 1 .. n : e = list[k]
  BY ListOf DEF TableGood
<1>2. n \in Nat
  BY <1>1
<1>3. PICK f \in [0 .. n -> Works(R)] :
          RemovedFor(f, list) /\ GroupRemoveAll(msg).work = f[n]
  BY RemovedSteps
<1>4. GroupRemoveAll(msg).leaves = groups /\ GroupRemoveAll(msg).joins = {}
  BY DEF GroupRemoveAll, Result
<1>5. t \in Seq(R) /\ Good(R) /\ Len(t) \in Nat
  BY DEF TableGood
<1> HIDE DEF list, n, t
<1>6. \A k \in 0 .. n : /\ f[k].table \in Seq(R) /\ f[k].saves \in Seq(Seq(R))
                        /\ Len(f[k].table) \in Nat
  BY <1>3 DEF Works
<1> DEFINE Shorter(x) == Len(x) <= Len(t) /\ (Len(x) = Len(t) => x = t)
           Gone(x, k) == \A s \in Range(x) : \A j \in 1 .. k : s.groupID # list[j]
           Last1(w) == IF w.saves = << >> THEN w.table = t
                       ELSE w.saves[Len(w.saves)] = w.table
           T == {k \in 0 .. n : /\ Shorter(f[k].table)
                                /\ Gone(f[k].table, k)
                                /\ Last1(f[k])}
<1>7. 0 \in T
  <2>1. f[0].table = t /\ f[0].saves = << >>
    BY <1>3 DEF RemovedFor, Now, Work, t
  <2>2. \A j \in 1 .. 0 : FALSE
    OBVIOUS
  <2> QED BY <1>2, <1>5, <2>1, <2>2
<1>8. ASSUME NEW k \in 1 .. n, k - 1 \in T
      PROVE  k \in T
  <2> DEFINE w == f[k - 1]
             x == Others(w.table, list[k])
  <2>1. k - 1 \in 0 .. n /\ k \in 0 .. n
    BY <1>2
  <2>2. /\ w.table \in Seq(R) /\ w.saves \in Seq(Seq(R))
        /\ Len(w.table) \in Nat
    BY <1>6, <2>1
  <2>3. Shorter(w.table) /\ Gone(w.table, k - 1)
    BY <1>8
  <2>4. f[k] = zclGeneral_ScenesSave(Work(x, w.saves))
    BY <1>3 DEF RemovedFor, zclGeneral_RemoveAllScenes, Others, n
  <2> HIDE DEF w, T
  <2>5. /\ x \in Seq(R) /\ Range(x) \subseteq Range(w.table)
        /\ \A s \in Range(x) : s.groupID # list[k]
        /\ Len(x) <= Len(w.table) /\ Len(x) \in Nat
        /\ Len(x) = Len(w.table) => x = w.table
    <3> HIDE DEF R
    <3>1. /\ x \in Seq(R) /\ Range(x) \subseteq Range(w.table)
          /\ \A s \in Range(x) : s.groupID # list[k]
          /\ Len(x) <= Len(w.table)
          /\ Len(x) = Len(w.table) => x = w.table
      BY <2>2, OthersIs
    <3> HIDE DEF x
    <3> QED BY <3>1
  <2> HIDE DEF x
  <2>6. f[k].table = x /\ f[k].saves[Len(f[k].saves)] = x /\ f[k].saves # << >>
    <3> HIDE DEF R
    <3>1. /\ f[k].table = x
          /\ f[k].saves = Append(w.saves, x)
          /\ f[k].saves[Len(f[k].saves)] = x
      BY <2>2, <2>4, <2>5, SavedIs
    <3>2. Append(w.saves, x) # << >>
      <4> DEFINE X == Seq(R)
      <4>1. w.saves \in Seq(X) /\ x \in X
        BY <2>2, <2>5
      <4> HIDE DEF X
      <4> QED BY <4>1, AppendProperties
    <3> QED BY <3>1, <3>2
  <2>7. Shorter(x)
    BY <1>5, <2>2, <2>3, <2>5
  <2>8. Gone(x, k)
    <3> SUFFICES ASSUME NEW s \in Range(x), NEW j \in 1 .. k
                 PROVE  s.groupID # list[j]
      OBVIOUS
    <3>1. j = k \/ j \in 1 .. k - 1
      BY <1>2
    <3> QED BY <2>3, <2>5, <3>1
  <2> QED BY <2>1, <2>6, <2>7, <2>8 DEF T
<1>9. T = 0 .. n
  <2> HIDE DEF T
  <2>1. T \in SUBSET (0 .. n)
    BY DEF T
  <2> QED BY <1>2, <1>7, <1>8, <2>1, UpTo
<1>10. n \in 0 .. n
  BY <1>2
<1> DEFINE w == f[n]
<1>11. Shorter(w.table) /\ Gone(w.table, n) /\ Last1(w)
  BY <1>9, <1>10
<1>12. w \in Works(R) /\ w.table \in Seq(R) /\ Len(w.table) \in Nat
  BY <1>3, <1>6, <1>10
<1> HIDE DEF w, T
<1>13. Range(w.table) \subseteq R
  <2> HIDE DEF R
  <2> QED BY <1>12, RangeIs
<1>14. Present(w) = R
  BY <1>13 DEF Present, t
<1>15. Len(w.table) >= Len(t) => OneChange(t, w.table)
  <2>1. OneChange(t, t)
    BY <1>5, NoChange
  <2> QED BY <1>5, <1>11, <1>12, <2>1
<1>16. WorkSound(w)
  <2>1. LastSaved(w)
    BY <1>11 DEF LastSaved, t
  <2> HIDE DEF R
  <2> QED BY <1>5, <1>12, <1>14, <1>15, <2>1 DEF WorkSound, t
<1>17. \A s \in Range(w.table) : s.groupID \in groups => s.groupID = NoGroup
  BY <1>1, <1>11
<1>18. IsFiniteSet({})
  BY FS_EmptySet
<1> HIDE DEF GroupRemoveAll
<1>19. GroupRemoveAll(msg).work = w
  BY <1>3 DEF w
<1> QED BY <1>4, <1>16, <1>17, <1>18, <1>19 DEF Sound

--------------------------------------------------------------------------------
(* Scenes are copied.                                                        *)
First(table, g, i, s) ==
    \E k \in 1 .. Len(table) :
        /\ table[k] = s /\ Match(s, g, i)
        /\ \A j \in 1 .. k - 1 : ~Match(table[j], g, i)
Copied(s, g, i) == [s EXCEPT !.groupID = g, !.ID = i]

LEMMA FirstFound ==
    ASSUME NEW S, NEW table \in Seq(S), NEW g, NEW i, Find(table, g, i) # 0
    PROVE  First(table, g, i, table[Find(table, g, i)])
<1> DEFINE k == Find(table, g, i)
<1>1. /\ k \in 0 .. Len(table)
      /\ k # 0 => /\ Match(table[k], g, i)
                  /\ \A j \in 1 .. k - 1 : ~Match(table[j], g, i)
  BY FindIs
<1>2. Len(table) \in Nat
  OBVIOUS
<1> HIDE DEF k
<1>3. k # 0
  BY DEF k
<1>4. k \in 1 .. Len(table)
  BY <1>1, <1>2, <1>3
<1> QED BY <1>1, <1>3, <1>4 DEF First, k

LEMMA OneFirst ==
    ASSUME NEW S, NEW table \in Seq(S), NEW g, NEW i, NEW s, NEW u,
           First(table, g, i, s), First(table, g, i, u)
    PROVE  s = u
<1>1. PICK k \in 1 .. Len(table) :
          /\ table[k] = s /\ Match(s, g, i)
          /\ \A j \in 1 .. k - 1 : ~Match(table[j], g, i)
  BY DEF First
<1>2. PICK m \in 1 .. Len(table) :
          /\ table[m] = u /\ Match(u, g, i)
          /\ \A j \in 1 .. m - 1 : ~Match(table[j], g, i)
  BY DEF First
<1>3. ~(k \in 1 .. m - 1) /\ ~(m \in 1 .. k - 1)
  BY <1>1, <1>2
<1>4. k = m
  BY <1>3
<1> QED BY <1>1, <1>2, <1>4

\* What does not match is neither missed nor found.
LEMMA FirstKept ==
    ASSUME NEW S, NEW table \in Seq(S), NEW g, NEW i, NEW s,
           NEW p \in 1 .. Len(table), ~Match(table[p], g, i),
           First(RemoveAt(table, p), g, i, s)
    PROVE  First(table, g, i, s)
<1> DEFINE n == Len(table)
           x == RemoveAt(table, p)
<1>1. /\ x \in Seq(S) /\ Len(x) = n - 1
      /\ \A j \in 1 .. n - 1 : x[j] = IF j < p THEN table[j] ELSE table[j + 1]
  BY RemoveAtIs
<1>2. n \in Nat /\ p \in 1 .. n /\ ~Match(table[p], g, i)
  OBVIOUS
<1> HIDE DEF n, x
<1>3. PICK k \in 1 .. n - 1 :
          /\ x[k] = s /\ Match(s, g, i)
          /\ \A j \in 1 .. k - 1 : ~Match(x[j], g, i)
  BY <1>1 DEF First, x
<1>4. CASE k < p
  <2>1. k \in 1 .. n /\ table[k] = s
    BY <1>1, <1>2, <1>3, <1>4
  <2>2. ASSUME NEW j \in 1 .. k - 1
        PROVE  ~Match(table[j], g, i)
    <3>1. j \in 1 .. n - 1 /\ j < p
      BY <1>2, <1>4
    <3>2. x[j] = table[j]
      BY <1>1, <3>1
    <3> QED BY <1>3, <3>2
  <2> QED BY <1>3, <2>1, <2>2 DEF First, n
<1>5. CASE ~(k < p)
  <2>1. PICK m : m = k + 1
    OBVIOUS
  <2>2. m \in 1 .. n /\ table[m] = s
    BY <1>1, <1>2, <1>3, <1>5, <2>1
  <2>3. ASSUME NEW j \in 1 .. m - 1
        PROVE  ~Match(table[j], g, i)
    <3>1. CASE j < p
      <4>1. j \in 1 .. n - 1 /\ j \in 1 .. k - 1
        BY <1>2, <1>5, <2>1, <3>1
      <4>2. x[j] = table[j]
        BY <1>1, <3>1, <4>1
      <4> QED BY <1>3, <4>1, <4>2
    <3>2. CASE j = p
      BY <1>2, <3>2
    <3>3. CASE j > p
      <4>1. PICK d : d = j - 1
        OBVIOUS
      <4>2. d \in 1 .. n - 1 /\ d \in 1 .. k - 1 /\ ~(d < p) /\ d + 1 = j
        BY <1>2, <1>5, <2>1, <3>3, <4>1
      <4>3. x[d] = table[j]
        BY <1>1, <4>2
      <4> QED BY <1>3, <4>2, <4>3
    <3> QED BY <1>2, <2>1, <3>1, <3>2, <3>3
  <2> QED BY <1>3, <2>2, <2>3 DEF First, n
<1> QED BY <1>3, <1>2, <1>4, <1>5

LEMMA FirstBefore ==
    ASSUME NEW S, NEW table \in Seq(S), NEW e \in S, NEW g, NEW i, NEW s,
           ~Match(e, g, i), First(Append(table, e), g, i, s)
    PROVE  First(table, g, i, s)
<1> DEFINE n == Len(table)
           x == Append(table, e)
<1>1. /\ n \in Nat /\ Len(x) = n + 1 /\ x[n + 1] = e
      /\ \A j \in 1 .. n : x[j] = table[j]
  BY AppendProperties
<1> HIDE DEF n, x
<1>2. PICK k \in 1 .. n + 1 :
          /\ x[k] = s /\ Match(s, g, i)
          /\ \A j \in 1 .. k - 1 : ~Match(x[j], g, i)
  BY <1>1 DEF First, x
<1>3. k # n + 1
  BY <1>1, <1>2
<1>4. k \in 1 .. n /\ \A j \in 1 .. k - 1 : j \in 1 .. n
  BY <1>1, <1>2, <1>3
<1> QED BY <1>1, <1>2, <1>4 DEF First, n

\* One round: the first scene found is appended as another's copy, and the
\* scene that had that name is taken out before.
Dropped(w, v, x, g, i) ==
    \E p \in 1 .. Len(w.table) :
        /\ Match(w.table[p], g, i)
        /\ x = RemoveAt(w.table, p)
        /\ v.saves = Append(Append(w.saves, x), v.table)
CopyStep(w, v, c, id, idTo) ==
    \E s \in Range(w.table), x \in Seq(Range(w.table)) :
        /\ First(w.table, c.groupIDFrom, id, s)
        /\ v.table = Append(x, Copied(s, c.groupIDTo, idTo))
        /\ \/ x = w.table /\ v.saves = Append(w.saves, v.table)
           \/ Dropped(w, v, x, c.groupIDTo, idTo)
NameOf(c, id) == IF c.all THEN id ELSE c.IDTo
LEMMA CopyOneIs ==
    ASSUME NEW U, NEW w \in Works(U), NEW c, NEW id,
           \A s \in U : Copied(s, c.groupIDTo, NameOf(c, id)) \in U
    PROVE  /\ CopyOne(w, c, id) \in Works(U)
           /\ \/ CopyOne(w, c, id) = w
              \/ CopyStep(w, CopyOne(w, c, id), c, id, NameOf(c, id))
<1> DEFINE k == Find(w.table, c.groupIDFrom, id)
           to == c.groupIDTo
           idTo == NameOf(c, id)
           p == Find(w.table, to, idTo)
           s == w.table[k]
           copy == Copied(s, to, idTo)
           v == CopyOne(w, c, id)
           r == zclGeneral_RemoveScene(w, to, idTo)
           R == Range(w.table)
<1>1. w.table \in Seq(U) /\ w.saves \in Seq(Seq(U)) /\ Len(w.table) \in Nat
      /\ w = [table |-> w.table, saves |-> w.saves]
  BY DEF Works
<1>2. CASE k = 0
  BY <1>2 DEF CopyOne, zclGeneral_FindScene, None
<1>3. CASE k # 0
  <2>1. v = zclGeneral_AddScene(r, copy)
    <3> HIDE DEF k
    <3>1. zclGeneral_FindScene(w, c.groupIDFrom, id) = k
      BY DEF zclGeneral_FindScene, k
    <3> QED BY <1>3, <3>1 DEF CopyOne, None, Copied, NameOf
  <2>2. k \in 1 .. Len(w.table) /\ First(w.table, c.groupIDFrom, id, s)
    <3>1. First(w.table, c.groupIDFrom, id, s)
      BY <1>1, <1>3, FirstFound
    <3>2. k \in 0 .. Len(w.table)
      BY <1>1, FindIs
    <3> HIDE DEF k
    <3> QED BY <1>1, <1>3, <3>1, <3>2
  <2>3. s \in R /\ s \in U /\ w.table \in Seq(R) /\ R \subseteq U
    <3> HIDE DEF k
    <3> QED BY <1>1, <2>2, RangeIs
  <2>4. copy \in U
    BY <2>3
  <2> DEFINE x == IF p = 0 THEN w.table ELSE RemoveAt(w.table, p)
             ss == IF p = 0 THEN w.saves ELSE Append(w.saves, x)
  <2>6. p \in 0 .. Len(w.table) /\ (p # 0 => Match(w.table[p], to, idTo))
    BY <1>1, FindIs
  <2>7. r = Work(x, ss)
    <3> HIDE DEF p
    <3>1. zclGeneral_FindScene(w, to, idTo) = p
      BY DEF zclGeneral_FindScene, p
    <3> QED BY <1>1, <3>1 DEF zclGeneral_RemoveScene, zclGeneral_ScenesSave,
                              Work, None
  <2>8. x \in Seq(R)
    <3> HIDE DEF p, R
    <3>1. p # 0 => RemoveAt(w.table, p) \in Seq(R)
      BY <2>3, <2>6, RemoveAtIs
    <3> QED BY <2>3, <3>1
  <2>9. x \in Seq(U)
    <3> HIDE DEF x, R
    <3> QED BY <2>3, <2>8, SeqMonotonic
  <2>10. ss \in Seq(Seq(U))
    <3> DEFINE X == Seq(U)
    <3>1. x \in X /\ w.saves \in Seq(X)
      BY <1>1, <2>9
    <3> HIDE DEF X, x, p
    <3>2. Append(w.saves, x) \in Seq(X)
      BY <3>1, AppendProperties
    <3>3. ss \in Seq(X)
      BY <3>1, <3>2
    <3> QED BY <3>3 DEF X
  <2>11. v = zclGeneral_ScenesSave(Work(Append(x, copy), ss))
    <3> HIDE DEF v, x, ss, copy, r
    <3> QED BY <2>1, <2>7 DEF zclGeneral_AddScene, Work
  <2>12. Append(x, copy) \in Seq(U)
    <3> HIDE DEF x, copy
    <3> QED BY <2>4, <2>9, AppendProperties
  <2>13. /\ v \in Works(U) /\ v.table = Append(x, copy)
         /\ v.saves = Append(ss, v.table)
    <3>1. PICK y : y = Append(x, copy)
      OBVIOUS
    <3> HIDE DEF x, copy, v, ss
    <3>2. y \in Seq(U) /\ v = zclGeneral_ScenesSave(Work(y, ss))
      BY <2>11, <2>12, <3>1
    <3>3. v \in Works(U) /\ v.table = y /\ v.saves = Append(ss, y)
      BY <2>10, <3>2, SavedIs
    <3> QED BY <3>1, <3>3
  <2>14. \/ x = w.table /\ v.saves = Append(w.saves, v.table)
         \/ Dropped(w, v, x, to, idTo)
    <3>1. CASE p = 0
      BY <2>13, <3>1
    <3>2. CASE p # 0
      <4>1. x = RemoveAt(w.table, p) /\ ss = Append(w.saves, x)
        BY <3>2
      <4>2. p \in 1 .. Len(w.table) /\ Match(w.table[p], to, idTo)
        <5> HIDE DEF p
        <5> QED BY <1>1, <2>6, <3>2
      <4> HIDE DEF v, x, ss, p
      <4> QED BY <2>13, <4>1, <4>2 DEF Dropped
    <3> QED BY <3>1, <3>2
  <2> HIDE DEF x, s, v, R, ss, p, k
  <2>15. CopyStep(w, v, c, id, idTo)
    BY <2>2, <2>3, <2>8, <2>13, <2>14 DEF CopyStep, R
  <2> QED BY <2>13, <2>15 DEF v
<1> QED BY <1>2, <1>3

LEMMA CopiedIs ==
    ASSUME NEW s, IsScene(s), NEW g, NEW i
    PROVE  /\ IsScene(Copied(s, g, i))
           /\ Match(Copied(s, g, i), g, i)
           /\ \A j : Copied(Copied(s, g, j), g, i) = Copied(s, g, i)
<1>1. "groupID" \in DOMAIN s /\ "ID" \in DOMAIN s
  BY DEF IsScene
<1>2. IsScene(Copied(s, g, i)) /\ Match(Copied(s, g, i), g, i)
  BY <1>1 DEF IsScene, Copied, Match
<1>3. \A j : Copied(Copied(s, g, j), g, i) = Copied(s, g, i)
  BY <1>1 DEF Copied
<1> QED BY <1>2, <1>3

LEMMA ToCopy ==
    ASSUME TableGood, NEW c
    PROVE  /\ \E V : ScenesToCopy(c) \in Seq(V)
           /\ ~c.all => Len(ScenesToCopy(c)) <= 1
<1> DEFINE t == zclGenSceneTable
           R == Range(t)
           K == Of(t, c.groupIDFrom)
           own == Picked(t, K)
           ids == [k \in DOMAIN own |-> own[k].ID]
<1>1. t \in Seq(R)
  BY DEF TableGood
<1> HIDE DEF K
<1>2. own \in Seq(R)
  <2> HIDE DEF R, t
  <2> QED BY <1>1, PickedFrom
<1>3. zclGeneral_FindAllScenesForGroup(Now, c.groupIDFrom) = ids
  BY DEF zclGeneral_FindAllScenesForGroup, Now, Work, K
<1> HIDE DEF R, t, own
<1>4. ids \in Seq(Range(ids))
  <2>1. DOMAIN own = 1 .. Len(own) /\ Len(own) \in Nat
    BY <1>2
  <2> QED BY <2>1 DEF Range
<1> HIDE DEF ids
<1>5. CASE c.all
  BY <1>3, <1>4, <1>5 DEF ScenesToCopy
<1>6. CASE ~c.all
  <2>1. ScenesToCopy(c) \in {<<c.ID>>, << >>}
    BY <1>6 DEF ScenesToCopy
  <2>2. /\ <<c.ID>> \in Seq({c.ID}) /\ << >> \in Seq({c.ID})
        /\ Len(<<c.ID>>) <= 1 /\ Len(<< >>) <= 1
    OBVIOUS
  <2>3. ScenesToCopy(c) \in Seq({c.ID}) /\ Len(ScenesToCopy(c)) <= 1
    BY <2>1, <2>2
  <2> QED BY <2>3
<1> QED BY <1>5, <1>6

\* What the rounds can make of the scenes that are there.
Copies(c) ==
    LET list == ScenesToCopy(c)
        R == Range(zclGenSceneTable)
    IN R \cup {Copied(s, c.groupIDTo, NameOf(c, list[k])) :
               s \in R, k \in 1 .. Len(list)}
CopiedFor(f, c) ==
    /\ f[0] = Now
    /\ \A k \in 1 .. Len(ScenesToCopy(c)) :
          f[k] = CopyOne(f[k - 1], c, ScenesToCopy(c)[k])
LEMMA CopiesClosed ==
    ASSUME TableGood, NEW c, NEW k \in 1 .. Len(ScenesToCopy(c)),
           NEW s \in Copies(c)
    PROVE  Copied(s, c.groupIDTo, NameOf(c, ScenesToCopy(c)[k])) \in Copies(c)
<1> DEFINE list == ScenesToCopy(c)
           R == Range(zclGenSceneTable)
           Name(j) == NameOf(c, list[j])
           to == c.groupIDTo
<1>1. \A u \in R : IsScene(u)
  BY DEF TableGood, Good
<1>2. \A u \in R : Copied(u, to, Name(k)) \in Copies(c)
  BY DEF Copies
<1>3. s \in R \/ \E u \in R, j \in 1 .. Len(list) : s = Copied(u, to, Name(j))
  BY DEF Copies
<1> HIDE DEF list, R, to, Name
<1>4. CASE s \in R
  BY <1>2, <1>4 DEF Name, to, list
<1>5. ASSUME NEW u \in R, NEW j, s = Copied(u, to, Name(j))
      PROVE  Copied(s, to, Name(k)) \in Copies(c)
  <2>1. Copied(s, to, Name(k)) = Copied(u, to, Name(k))
    BY <1>1, <1>5, CopiedIs
  <2> QED BY <1>2, <2>1
<1> QED BY <1>3, <1>4, <1>5 DEF Name, to, list

LEMMA CopiedSteps ==
    ASSUME TableGood, NEW msg
    PROVE  LET c == msg.attrCmd
               n == Len(ScenesToCopy(c))
           IN \E f \in [0 .. n -> Works(Copies(c))] :
                  /\ CopiedFor(f, c)
                  /\ \/ \E rsp : SceneCopy(msg) = Answer(Now, msg, rsp)
                     \/ /\ GroupExists(c.groupIDTo)
                        /\ SceneCopy(msg) =
                               Answer(f[n], msg, [status |-> SUCCESS])
<1> DEFINE c == msg.attrCmd
           list == ScenesToCopy(c)
           n == Len(list)
           R == Range(zclGenSceneTable)
           U == Copies(c)
           W == Works(U)
           Round(w, k) == CopyOne(w, c, list[k])
           step == [k \in 1 .. n |-> [w \in W |-> Round(w, k)]]
           Is(f) == f = [k \in 0 .. n |-> IF k = 0 THEN Now
                                         ELSE Round(f[k - 1], k)]
<1>1. n \in Nat
  <2> HIDE DEF list
  <2>1. PICK V : list \in Seq(V)
    BY ToCopy DEF list
  <2> QED BY <2>1
<1>2. Now \in W
  <2>1. zclGenSceneTable \in Seq(R) /\ R \subseteq U
    BY DEF TableGood, Copies
  <2> HIDE DEF R, U
  <2>2. zclGenSceneTable \in Seq(U)
    BY <2>1, SeqMonotonic
  <2> QED BY <2>2 DEF Now, Work, Works
<1>3. ASSUME NEW w \in W, NEW k \in 1 .. n
      PROVE  Round(w, k) \in W
  <2>1. \A s \in U : Copied(s, c.groupIDTo, NameOf(c, list[k])) \in U
    BY CopiesClosed
  <2> HIDE DEF U
  <2> QED BY <2>1, CopyOneIs
<1>4. step \in [1 .. n -> [W -> W]]
  <2> HIDE DEF W, n, Round
  <2> QED BY <1>3
<1> HIDE DEF n, W, Round
<1>5. PICK g : IsRun(g, W, Now, n, step)
  <2> HIDE DEF step
  <2> QED BY <1>1, <1>2, <1>4, LoopRuns
<1>6. g \in [0 .. n -> W] /\ g[0] = Now
  BY <1>5 DEF IsRun
<1>7. \A k \in 1 .. n : g[k] = Round(g[k - 1], k)
  <2> TAKE k \in 1 .. n
  <2>1. k - 1 \in 0 .. n
    BY <1>1
  <2>2. g[k] = step[k][g[k - 1]] /\ g[k - 1] \in W
    BY <1>5, <1>6, <2>1 DEF IsRun
  <2> QED BY <2>2
<1>8. Is(g)
  <2>1. \A k \in 0 .. n : g[k] = IF k = 0 THEN Now ELSE Round(g[k - 1], k)
    <3> TAKE k \in 0 .. n
    <3>1. k # 0 => k \in 1 .. n
      BY <1>1
    <3> QED BY <1>6, <1>7, <3>1
  <2> QED BY <1>6, <2>1
<1> DEFINE h == CHOOSE f : Is(f)
<1>9. Is(h)
  BY <1>8
<1>10. \/ \E rsp : SceneCopy(msg) = Answer(Now, msg, rsp)
       \/ /\ GroupExists(c.groupIDTo)
          /\ SceneCopy(msg) = Answer(h[n], msg, [status |-> SUCCESS])
  BY DEF SceneCopy, Round, n
<1> HIDE DEF h
<1>11. h[0] = Now /\ \A k \in 1 .. n : h[k] = Round(h[k - 1], k)
  <2>1. \A k \in 0 .. n : h[k] = IF k = 0 THEN Now ELSE Round(h[k - 1], k)
    BY <1>9
  <2>2. 0 \in 0 .. n /\ \A k \in 1 .. n : k \in 0 .. n /\ k # 0
    BY <1>1
  <2> QED BY <2>1, <2>2
<1>12. \A k \in 0 .. n : h[k] \in W
  <2> DEFINE T == {k \in 0 .. n : h[k] \in W}
  <2>1. 0 \in T
    BY <1>1, <1>2, <1>11
  <2>2. ASSUME NEW k \in 1 .. n, k - 1 \in T
        PROVE  k \in T
    <3>1. h[k - 1] \in W
      BY <2>2
    <3>2. h[k] \in W
      BY <1>3, <1>11, <3>1
    <3> QED BY <1>1, <3>2
  <2>3. T = 0 .. n
    <3> HIDE DEF T
    <3>1. T \in SUBSET (0 .. n)
      BY DEF T
    <3> QED BY <1>1, <2>1, <2>2, <3>1, UpTo
  <2> QED BY <2>3
<1>13. h \in [0 .. n -> W]
  <2>1. h = [k \in 0 .. n |-> h[k]]
    BY <1>9
  <2> QED BY <1>12, <2>1
<1>14. CopiedFor(h, c)
  BY <1>11 DEF CopiedFor, Round, n
<1> QED BY <1>10, <1>13, <1>14 DEF n, W

LEMMA AppendedRange ==
    ASSUME NEW S, NEW x \in Seq(S), NEW e \in S
    PROVE  Range(Append(x, e)) = Range(x) \cup {e}
<1> DEFINE y == Append(x, e)
           n == Len(x)
<1>1. /\ y \in Seq(S) /\ Len(y) = n + 1 /\ n \in Nat
      /\ \A k \in 1 .. n : y[k] = x[k]
      /\ y[n + 1] = e
  BY AppendProperties
<1> HIDE DEF y
<1>2. \A a \in Range(y) : \E k \in 1 .. n + 1 : a = y[k]
  BY <1>1, RangeIs
<1>3. \A k \in 1 .. n + 1 : y[k] \in Range(y)
  BY <1>1, RangeIs
<1>4. \A a \in Range(x) : \E k \in 1 .. n : a = x[k]
  BY RangeIs
<1>5. \A k \in 1 .. n : x[k] \in Range(x)
  BY RangeIs
<1> HIDE DEF n
<1>6. Range(y) \subseteq Range(x) \cup {e}
  <2> SUFFICES ASSUME NEW a \in Range(y) PROVE a \in Range(x) \cup {e}
    OBVIOUS
  <2>1. PICK k \in 1 .. n + 1 : a = y[k]
    BY <1>2
  <2>2. k \in 1 .. n \/ k = n + 1
    BY <1>1
  <2> QED BY <1>1, <1>5, <2>1, <2>2
<1>7. Range(x) \cup {e} \subseteq Range(y)
  <2>1. \A k \in 1 .. n : k \in 1 .. n + 1
    BY <1>1
  <2>2. n + 1 \in 1 .. n + 1
    BY <1>1
  <2> QED BY <1>1, <1>3, <1>4, <2>1, <2>2
<1> QED BY <1>6, <1>7 DEF y

LEMMA RemovedRange ==
    ASSUME NEW S, NEW x \in Seq(S), NEW p \in 1 .. Len(x)
    PROVE  /\ Range(RemoveAt(x, p)) \subseteq Range(x)
           /\ \A e \in Range(x) : e = x[p] \/ e \in Range(RemoveAt(x, p))
<1> DEFINE n == Len(x)
           y == RemoveAt(x, p)
<1>1. /\ y \in Seq(S) /\ Len(y) = n - 1 /\ n \in Nat
      /\ \A j \in 1 .. n - 1 : y[j] = IF j < p THEN x[j] ELSE x[j + 1]
  BY RemoveAtIs
<1>2. p \in 1 .. n
  OBVIOUS
<1> HIDE DEF y
<1>3. /\ \A a \in Range(y) : \E k \in 1 .. n - 1 : a = y[k]
      /\ \A k \in 1 .. n - 1 : y[k] \in Range(y)
  BY <1>1, RangeIs
<1>4. /\ \A a \in Range(x) : \E k \in 1 .. n : a = x[k]
      /\ \A k \in 1 .. n : x[k] \in Range(x)
  BY RangeIs
<1> HIDE DEF n
<1>5. ASSUME NEW a \in Range(y)
      PROVE  a \in Range(x)
  <2>1. PICK k \in 1 .. n - 1 : a = y[k]
    BY <1>3
  <2>2. k \in 1 .. n /\ k + 1 \in 1 .. n
    BY <1>1
  <2>3. a = x[k] \/ a = x[k + 1]
    BY <1>1, <2>1
  <2> QED BY <1>4, <2>2, <2>3
<1>6. ASSUME NEW e \in Range(x), e # x[p]
      PROVE  e \in Range(y)
  <2>1. PICK k \in 1 .. n : e = x[k]
    BY <1>4
  <2>2. CASE k < p
    <3>1. k \in 1 .. n - 1
      BY <1>1, <1>2, <2>2
    <3>2. y[k] = x[k]
      BY <1>1, <2>2, <3>1
    <3> QED BY <1>3, <2>1, <3>1, <3>2
  <2>3. CASE k > p
    <3>1. PICK d : d = k - 1
      OBVIOUS
    <3>2. d \in 1 .. n - 1 /\ ~(d < p) /\ d + 1 = k
      BY <1>1, <1>2, <2>3, <3>1
    <3>3. y[d] = x[k]
      BY <1>1, <3>2
    <3> QED BY <1>3, <2>1, <3>2, <3>3
  <2> QED BY <1>2, <1>6, <2>1, <2>2, <2>3
<1> QED BY <1>5, <1>6 DEF y

\* While scenes are copied between two groups, those of the first stay where
\* they are and those of the second are old ones or copies.
Traced(w, c) ==
    LET t == zclGenSceneTable
    IN IF c.groupIDFrom = c.groupIDTo THEN Range(w.table) \subseteq Range(t)
       ELSE /\ \A e \in Range(w.table) :
                  \/ e \in Range(t)
                  \/ \E s : /\ First(t, c.groupIDFrom, e.ID, s)
                            /\ e = Copied(s, c.groupIDTo, e.ID)
            /\ \A i, s : First(w.table, c.groupIDFrom, i, s) =>
                             First(t, c.groupIDFrom, i, s)
LEMMA TracedCopied ==
    ASSUME TableGood, NEW U, NEW w \in Works(U), NEW v \in Works(U), NEW c,
           NEW id, \A s \in U : IsScene(s), Traced(w, c),
           CopyStep(w, v, c, id, id)
    PROVE  /\ Traced(v, c)
           /\ Range(w.table) \subseteq Range(zclGenSceneTable) \cup Range(v.table)
<1> DEFINE t == zclGenSceneTable
           from == c.groupIDFrom
           to == c.groupIDTo
           R == Range(w.table)
<1>1. PICK s \in R, x \in Seq(R) :
          /\ First(w.table, from, id, s)
          /\ v.table = Append(x, Copied(s, to, id))
          /\ \/ x = w.table
             \/ \E p \in 1 .. Len(w.table) :
                   Match(w.table[p], to, id) /\ x = RemoveAt(w.table, p)
  BY DEF CopyStep, Dropped
<1>2. w.table \in Seq(U) /\ v.table \in Seq(U) /\ Len(w.table) \in Nat
  BY DEF Works
<1>3. w.table \in Seq(R) /\ R \subseteq U
  BY <1>2, RangeIs
<1> DEFINE copy == Copied(s, to, id)
<1>4. IsScene(s) /\ Match(s, from, id)
  BY <1>1, <1>3 DEF First
<1>5. IsScene(copy) /\ Match(copy, to, id)
  BY <1>4, CopiedIs
<1>6. Range(v.table) = Range(x) \cup {copy} /\ Range(x) \subseteq R
  <2> DEFINE S == R \cup {copy}
  <2>1. x \in Seq(S) /\ copy \in S
    <3>1. R \subseteq S
      OBVIOUS
    <3> HIDE DEF R, S
    <3> QED BY <1>1, <3>1, SeqMonotonic DEF S
  <2> HIDE DEF S, copy, R
  <2>2. Range(v.table) = Range(x) \cup {copy}
    BY <1>1, <2>1, AppendedRange DEF copy
  <2> QED BY <1>1, <2>2, RangeIs
<1> DEFINE Taken(e) == /\ Match(e, to, id)
                       /\ \E p \in 1 .. Len(w.table) : e = w.table[p]
<1>7. \A e \in R : e \in Range(x) \/ Taken(e)
  <2> HIDE DEF t, from, to
  <2>1. CASE x = w.table
    <3>1. Range(x) = R
      BY <2>1
    <3> QED BY <3>1
  <2>2. ASSUME NEW p \in 1 .. Len(w.table), Match(w.table[p], to, id),
               x = RemoveAt(w.table, p)
        PROVE  \A e \in R : e \in Range(x) \/ Taken(e)
    <3> HIDE DEF R
    <3>1. \A e \in R : e = w.table[p] \/ e \in Range(x)
      BY <1>2, <2>2, RemovedRange DEF R
    <3> QED BY <2>2, <3>1
  <2> HIDE DEF R
  <2> QED BY <1>1, <2>1, <2>2
<1> HIDE DEF copy
<1>8. CASE from = to
  <2>1. R \subseteq Range(t)
    BY <1>8 DEF Traced
  <2>2. copy = s
    BY <1>4, <1>8 DEF copy, Copied, Match, IsScene
  <2>3. Range(v.table) \subseteq Range(t)
    BY <1>1, <1>6, <2>1, <2>2
  <2> QED BY <1>8, <2>1, <2>3 DEF Traced
<1>9. CASE from # to
  <2>1. /\ \A e \in R : e \in Range(t) \/ \E u : /\ First(t, from, e.ID, u)
                                                 /\ e = Copied(u, to, e.ID)
        /\ \A i, u : First(w.table, from, i, u) => First(t, from, i, u)
    BY <1>9 DEF Traced
  <2>2. First(t, from, id, s)
    BY <1>1, <2>1
  <2> HIDE DEF t, from, to
  <2>3. copy.ID = id
    BY <1>5 DEF Match
  <2>4. \A e \in Range(v.table) :
            e \in Range(t) \/ \E u : First(t, from, e.ID, u)
                                     /\ e = Copied(u, to, e.ID)
    <3> TAKE e \in Range(v.table)
    <3>1. CASE e = copy
      BY <2>2, <2>3, <3>1 DEF copy
    <3>2. CASE e # copy
      BY <1>6, <2>1, <3>2
    <3> QED BY <3>1, <3>2
  <2>5. ASSUME NEW i, NEW u, First(v.table, from, i, u)
        PROVE  First(t, from, i, u)
    <3>1. ~Match(copy, from, i)
      BY <1>5, <1>9 DEF Match
    <3>2. First(x, from, i, u)
      <4> DEFINE S == R \cup {copy}
      <4>1. x \in Seq(S) /\ copy \in S
        <5>1. R \subseteq S
          OBVIOUS
        <5> HIDE DEF R, S
        <5> QED BY <1>1, <5>1, SeqMonotonic DEF S
      <4>2. v.table = Append(x, copy)
        BY <1>1 DEF copy
      <4> HIDE DEF S
      <4> QED BY <2>5, <3>1, <4>1, <4>2, FirstBefore
    <3>3. First(w.table, from, i, u)
      <4>1. CASE x = w.table
        BY <3>2, <4>1
      <4>2. ASSUME NEW p \in 1 .. Len(w.table), Match(w.table[p], to, id),
                   x = RemoveAt(w.table, p)
            PROVE  First(w.table, from, i, u)
        <5>1. ~Match(w.table[p], from, i)
          BY <1>9, <4>2 DEF Match
        <5> QED BY <1>2, <3>2, <4>2, <5>1, FirstKept
      <4> QED BY <1>1, <4>1, <4>2
    <3> QED BY <2>1, <3>3
  <2>6. Traced(v, c)
    BY <1>9, <2>4, <2>5 DEF Traced, t, from, to
  <2>7. ASSUME NEW e \in R, Match(e, to, id)
        PROVE  e \in Range(t) \/ e = copy
    <3>1. e.ID = id
      BY <2>7 DEF Match
    <3>2. SUFFICES ASSUME NEW u, First(t, from, id, u), e = Copied(u, to, id)
                   PROVE  e = copy
      BY <2>1, <3>1
    <3>3. t \in Seq(Range(t))
      BY DEF TableGood, t
    <3>4. u = s
      BY <2>2, <3>2, <3>3, OneFirst
    <3> QED BY <3>2, <3>4 DEF copy
  <2> QED BY <1>6, <1>7, <2>6, <2>7 DEF t
<1> QED BY <1>8, <1>9

\* What every round leaves.
SavesIn(w) ==
    \A i \in 1 .. Len(w.saves) :
        Range(w.saves[i]) \subseteq Range(zclGenSceneTable) \cup Range(w.table)
CopySound(w) ==
    /\ Good(Range(w.table))
    /\ LastSaved(w)
    /\ Len(w.saves) = 1 => OneChange(zclGenSceneTable, w.table)
    /\ SavesIn(w)
LEMMA CopyRound ==
    ASSUME TableGood, NEW U, NEW w \in Works(U), NEW v \in Works(U),
           NEW c, NEW id, NEW idTo, \A s \in U : IsScene(s),
           Valid(c.groupIDTo), CopySound(w), CopyStep(w, v, c, id, idTo),
           Range(w.table) \subseteq Range(zclGenSceneTable) \cup Range(v.table)
    PROVE  CopySound(v)
<1> DEFINE t == zclGenSceneTable
           R == Range(w.table)
           X == Seq(U)
<1>1. PICK s \in R, x \in Seq(R) :
          /\ v.table = Append(x, Copied(s, c.groupIDTo, idTo))
          /\ \/ x = w.table /\ v.saves = Append(w.saves, v.table)
             \/ Dropped(w, v, x, c.groupIDTo, idTo)
  BY DEF CopyStep
<1> DEFINE copy == Copied(s, c.groupIDTo, idTo)
<1>2. w.table \in Seq(U) /\ v.table \in Seq(U) /\ R \subseteq U
      /\ w.saves \in Seq(X) /\ v.saves \in Seq(X)
  BY RangeIs DEF Works
<1>3. IsScene(copy) /\ copy.groupID = c.groupIDTo
  BY <1>1, <1>2, CopiedIs DEF Match
<1>4. x \in Seq(R \cup {copy}) /\ copy \in R \cup {copy}
  <2> DEFINE S == R \cup {copy}
  <2>1. R \subseteq S
    OBVIOUS
  <2> HIDE DEF S, R
  <2>2. x \in Seq(S)
    BY <1>1, <2>1, SeqMonotonic
  <2> QED BY <2>2 DEF S
<1>5. v.table = Append(x, copy)
  BY <1>1
<1> HIDE DEF copy, X, R
<1>6. Range(v.table) = Range(x) \cup {copy} /\ Range(x) \subseteq R
  BY <1>1, <1>4, <1>5, AppendedRange, RangeIs
<1>7. Good(Range(v.table))
  BY <1>3, <1>6 DEF Good, CopySound, R
<1>8. R \subseteq Range(t) \cup Range(v.table)
  BY DEF R
<1>9. x \in X
  BY <1>1, <1>2, SeqMonotonic DEF X
<1>10. v.table \in X
  BY <1>2 DEF X
<1> DEFINE In(y) == Range(y) \subseteq Range(t) \cup Range(v.table)
<1>11. \A i \in 1 .. Len(w.saves) : In(w.saves[i])
  <2> TAKE i \in 1 .. Len(w.saves)
  <2>1. Range(w.saves[i]) \subseteq Range(t) \cup R
    BY DEF CopySound, SavesIn, R
  <2> QED BY <1>8, <2>1
<1>12. In(x) /\ In(v.table)
  BY <1>6, <1>8
<1> HIDE DEF In, t
<1>13. CASE x = w.table /\ v.saves = Append(w.saves, v.table)
  <2>1. /\ Len(v.saves) = Len(w.saves) + 1 /\ Len(w.saves) \in Nat
        /\ \A i \in 1 .. Len(w.saves) : v.saves[i] = w.saves[i]
        /\ v.saves[Len(v.saves)] = v.table
    BY <1>2, <1>10, <1>13, AppendProperties
  <2>2. \A i \in 1 .. Len(v.saves) : In(v.saves[i])
    <3> TAKE i \in 1 .. Len(v.saves)
    <3>1. i \in 1 .. Len(w.saves) \/ i = Len(v.saves)
      BY <2>1
    <3> QED BY <1>11, <1>12, <2>1, <3>1
  <2>3. v.saves # << >>
    BY <2>1
  <2>4. Len(v.saves) = 1 => OneChange(t, v.table)
    <3> SUFFICES ASSUME Len(v.saves) = 1 PROVE OneChange(t, v.table)
      OBVIOUS
    <3>1. w.saves = << >>
      BY <1>2, <2>1
    <3>2. w.table = t
      BY <3>1 DEF CopySound, LastSaved, t
    <3>3. /\ Len(v.table) = Len(t) + 1 /\ Len(t) \in Nat
          /\ \A k \in 1 .. Len(t) : v.table[k] = t[k]
      BY <1>4, <1>5, <1>13, <3>2, AppendProperties
    <3>4. Len(v.table) \in 0 .. Len(v.table)
      BY <3>3
    <3> QED BY <3>3, <3>4 DEF OneChange
  <2>5. LastSaved(v)
    BY <2>1, <2>3 DEF LastSaved
  <2>6. SavesIn(v)
    BY <2>2 DEF SavesIn, In, t
  <2> QED BY <1>7, <2>4, <2>5, <2>6 DEF CopySound, t
<1>14. CASE Dropped(w, v, x, c.groupIDTo, idTo)
  <2> DEFINE ss == Append(w.saves, x)
  <2>1. v.saves = Append(ss, v.table)
    BY <1>14 DEF Dropped
  <2>2. /\ ss \in Seq(X) /\ Len(ss) = Len(w.saves) + 1 /\ Len(w.saves) \in Nat
        /\ \A i \in 1 .. Len(w.saves) : ss[i] = w.saves[i]
        /\ ss[Len(ss)] = x
    BY <1>2, <1>9, AppendProperties
  <2> HIDE DEF ss
  <2>3. /\ Len(v.saves) = Len(ss) + 1
        /\ \A i \in 1 .. Len(ss) : v.saves[i] = ss[i]
        /\ v.saves[Len(v.saves)] = v.table
    BY <1>10, <2>1, <2>2, AppendProperties
  <2>4. \A i \in 1 .. Len(v.saves) : In(v.saves[i])
    <3> TAKE i \in 1 .. Len(v.saves)
    <3>1. i \in 1 .. Len(ss) \/ i = Len(v.saves)
      BY <2>2, <2>3
    <3>2. i \in 1 .. Len(ss) => i \in 1 .. Len(w.saves) \/ i = Len(ss)
      BY <2>2
    <3> QED BY <1>11, <1>12, <2>2, <2>3, <3>1, <3>2
  <2>5. v.saves # << >> /\ Len(v.saves) # 1
    BY <2>2, <2>3
  <2>6. LastSaved(v)
    BY <2>3, <2>5 DEF LastSaved
  <2>7. SavesIn(v)
    BY <2>4 DEF SavesIn, In, t
  <2> QED BY <1>7, <2>5, <2>6, <2>7 DEF CopySound
<1> QED BY <1>1, <1>13, <1>14

LEMMA CopySoundSound ==
    ASSUME TableGood, NEW U, NEW w \in Works(U), CopySound(w)
    PROVE  WorkSound(w)
<1> DEFINE P == Present(w)
           X == Seq(P)
<1>1. w.table \in Seq(U) /\ w.saves \in Seq(Seq(U))
      /\ w = [table |-> w.table, saves |-> w.saves]
  BY DEF Works
<1>2. Range(w.table) \subseteq P /\ Range(zclGenSceneTable) \subseteq P
  BY DEF Present
<1>3. Good(P)
  BY DEF Present, CopySound, TableGood, Good
<1> HIDE DEF P
<1>4. w.table \in X
  <2>1. w.table \in Seq(Range(w.table))
    BY <1>1, RangeIs
  <2> QED BY <1>2, <2>1, SeqMonotonic
<1>5. \A i \in 1 .. Len(w.saves) : w.saves[i] \in X
  <2> TAKE i \in 1 .. Len(w.saves)
  <2>1. w.saves[i] \in Seq(U)
    <3> DEFINE Y == Seq(U)
    <3>1. w.saves \in Seq(Y)
      BY <1>1
    <3> HIDE DEF Y
    <3>2. w.saves[i] \in Y
      BY <3>1
    <3> QED BY <3>2 DEF Y
  <2>2. w.saves[i] \in Seq(Range(w.saves[i]))
    BY <2>1, RangeIs
  <2>3. Range(w.saves[i]) \subseteq P
    BY DEF CopySound, SavesIn, P, Present
  <2> QED BY <2>2, <2>3, SeqMonotonic
<1> HIDE DEF X
<1>6. w.saves \in Seq(X) /\ Len(w.saves) \in Nat
  <2> DEFINE Y == Seq(U)
  <2>1. w.saves \in Seq(Y)
    BY <1>1
  <2> HIDE DEF Y
  <2>2. Len(w.saves) \in Nat /\ DOMAIN w.saves = 1 .. Len(w.saves)
        /\ w.saves = [i \in 1 .. Len(w.saves) |-> w.saves[i]]
    BY <2>1
  <2> QED BY <1>5, <2>2
<1>7. w \in Works(P)
  <2>1. w \in [table : X, saves : Seq(X)]
    BY <1>1, <1>4, <1>6
  <2> QED BY <2>1 DEF Works, X
<1>8. Len(w.saves) <= 1 /\ Len(w.table) >= Len(zclGenSceneTable) =>
          OneChange(zclGenSceneTable, w.table)
  <2>1. Len(w.saves) = 0 \/ Len(w.saves) = 1 \/ ~(Len(w.saves) <= 1)
    <3>1. \A m \in Nat : m = 0 \/ m = 1 \/ ~(m <= 1)
      OBVIOUS
    <3> QED BY <1>6, <3>1
  <2>2. CASE Len(w.saves) = 0
    <3>1. w.saves = << >>
      BY <1>6, <2>2
    <3>2. w.table = zclGenSceneTable
      BY <3>1 DEF CopySound, LastSaved
    <3> QED BY <3>2, <1>1, NoChange
  <2> QED BY <2>1, <2>2 DEF CopySound
<1> QED BY <1>3, <1>7, <1>8 DEF WorkSound, CopySound, P

LEMMA SceneCopySound ==
    ASSUME TableGood, NEW msg
    PROVE  Sound(SceneCopy(msg))
<1> DEFINE c == msg.attrCmd
           list == ScenesToCopy(c)
           n == Len(list)
           t == zclGenSceneTable
           R == Range(t)
           U == Copies(c)
<1>1. PICK f \in [0 .. n -> Works(U)] :
          /\ CopiedFor(f, c)
          /\ \/ \E rsp : SceneCopy(msg) = Answer(Now, msg, rsp)
             \/ /\ GroupExists(c.groupIDTo)
                /\ SceneCopy(msg) = Answer(f[n], msg, [status |-> SUCCESS])
  BY CopiedSteps
<1>2. n \in Nat /\ (~c.all => n <= 1)
  <2> HIDE DEF list
  <2>1. (\E V : list \in Seq(V)) /\ (~c.all => n <= 1)
    BY ToCopy DEF list
  <2> QED BY <2>1
<1>3. \A s \in U : IsScene(s)
  <2>1. \A s \in R : IsScene(s)
    BY DEF TableGood, Good
  <2>2. \A s \in U : s \in R \/ \E u \in R : \E i : s = Copied(u, c.groupIDTo, i)
    BY DEF Copies
  <2> HIDE DEF R, U
  <2> QED BY <2>1, <2>2, CopiedIs
<1>4. \A k \in 1 .. n : \A s \in U :
          Copied(s, c.groupIDTo, NameOf(c, list[k])) \in U
  BY CopiesClosed
<1>5. t \in Seq(R) /\ Good(R)
  BY DEF TableGood
<1>6. f[0] = Now /\ \A k \in 1 .. n : f[k] = CopyOne(f[k - 1], c, list[k])
  BY <1>1 DEF CopiedFor
<1>7. Now.table = t /\ Now.saves = << >>
  BY DEF Now, Work
<1> HIDE DEF n, list, U, R
<1> DEFINE T == {k \in 0 .. n : /\ CopySound(f[k])
                                /\ c.all => Traced(f[k], c)
                                /\ ~c.all /\ k = 0 => f[k].table = t}
<1>8. CASE \E rsp : SceneCopy(msg) = Answer(Now, msg, rsp)
  BY <1>8, NothingDone, AnswerSound
<1>9. CASE /\ GroupExists(c.groupIDTo)
           /\ SceneCopy(msg) = Answer(f[n], msg, [status |-> SUCCESS])
  <2>1. Valid(c.groupIDTo)
    BY <1>9 DEF Valid
  <2>2. 0 \in T
    <3>1. CopySound(Now)
      BY <1>5, <1>7 DEF CopySound, LastSaved, SavesIn, R
    <3>2. Traced(Now, c)
      BY <1>7 DEF Traced
    <3> QED BY <1>2, <1>6, <1>7, <3>1, <3>2
  <2>3. ASSUME NEW k \in 1 .. n, k - 1 \in T
        PROVE  k \in T
    <3> DEFINE w == f[k - 1]
               v == f[k]
               id == list[k]
    <3>1. k - 1 \in 0 .. n /\ k \in 0 .. n /\ k # 0
      BY <1>2
    <3>2. w \in Works(U) /\ v \in Works(U)
      BY <1>1, <3>1
    <3>3. CopySound(w) /\ (c.all => Traced(w, c))
          /\ (~c.all => w.table = t)
      <4>1. ~c.all => k - 1 = 0
        BY <1>2
      <4> QED BY <2>3, <4>1
    <3>4. v = CopyOne(w, c, id)
      BY <1>6
    <3> HIDE DEF T, w, v, id
    <3>5. v = w \/ CopyStep(w, v, c, id, NameOf(c, id))
      <4>1. \A s \in U : Copied(s, c.groupIDTo, NameOf(c, id)) \in U
        BY <1>4 DEF id
      <4> QED BY <3>2, <3>4, <4>1, CopyOneIs
    <3>6. CASE v = w
      BY <3>1, <3>3, <3>6 DEF T, v
    <3>7. CASE CopyStep(w, v, c, id, NameOf(c, id)) /\ c.all
      <4>1. CopyStep(w, v, c, id, id)
        BY <3>7 DEF NameOf
      <4>2. Traced(v, c) /\ Range(w.table) \subseteq Range(t) \cup Range(v.table)
        BY <1>3, <3>2, <3>3, <3>7, <4>1, TracedCopied
      <4>3. CopySound(v)
        BY <1>3, <2>1, <3>2, <3>3, <4>1, <4>2, CopyRound
      <4> QED BY <3>1, <3>7, <4>2, <4>3 DEF T, v
    <3>8. CASE CopyStep(w, v, c, id, NameOf(c, id)) /\ ~c.all
      <4>1. Range(w.table) \subseteq Range(t) \cup Range(v.table)
        BY <3>3, <3>8
      <4>2. CopySound(v)
        BY <1>3, <2>1, <3>2, <3>3, <3>8, <4>1, CopyRound
      <4> QED BY <3>1, <3>8, <4>2 DEF T, v
    <3> QED BY <3>5, <3>6, <3>7, <3>8
  <2>4. T = 0 .. n
    <3> HIDE DEF T
    <3>1. T \in SUBSET (0 .. n)
      BY DEF T
    <3> QED BY <1>2, <2>2, <2>3, <3>1, UpTo
  <2>5. n \in 0 .. n
    BY <1>2
  <2>6. CopySound(f[n]) /\ f[n] \in Works(U)
    BY <1>1, <2>4, <2>5
  <2>7. WorkSound(f[n])
    BY <2>6, CopySoundSound
  <2> QED BY <1>9, <2>7, AnswerSound
<1> QED BY <1>1, <1>8, <1>9

--------------------------------------------------------------------------------
(* Every handler.                                                            *)
LEMMA PlainSound ==
    ASSUME TableGood, NEW stat, NEW rsp
    PROVE  Sound(Result(Now, stat, rsp))
BY NothingDone, ResultSound

LEMMA JoinsSound ==
    ASSUME NEW w, NEW msg, NEW rsp, NEW J, WorkSound(w), IsFiniteSet(J)
    PROVE  Sound([OnlyUnicast(w, msg, rsp) EXCEPT !.joins = J])
<1> DEFINE r == [OnlyUnicast(w, msg, rsp) EXCEPT !.joins = J]
<1>1. r.work = w /\ r.leaves = {} /\ r.joins = J
  BY DEF OnlyUnicast, Result
<1> HIDE DEF r
<1> QED BY <1>1 DEF Sound, r

LEMMA JoinedFinite ==
    ASSUME NEW g
    PROVE  IsFiniteSet(Joined(g))
BY FS_EmptySet, FS_Singleton DEF Joined

LEMMA GroupRemoveSound ==
    ASSUME TableGood, NEW msg
    PROVE  Sound(GroupRemove(msg))
<1> DEFINE g == msg.attrCmd.groupID
           w == zclGeneral_RemoveAllScenes(Now, g)
           r == GroupRemove(msg)
<1>1. WorkSound(w) /\ \A s \in Range(w.table) : s.groupID # g
  BY GroupsScenesRemoved
<1>2. r.work = w /\ r.leaves = {g} /\ r.joins = {}
  <2> HIDE DEF w
  <2> QED BY DEF GroupRemove, OnlyUnicast, Result, w
<1>3. IsFiniteSet({})
  BY FS_EmptySet
<1> HIDE DEF r, w, g
<1> QED BY <1>1, <1>2, <1>3 DEF Sound, r

LEMMA ScenesServerSound ==
    ASSUME TableGood, NEW msg, NEW change
    PROVE  Sound(zclGeneral_ProcessInScenesServer(msg, change))
<1> DEFINE cmd == msg.hdr.cmd
           r == zclGeneral_ProcessInScenesServer(msg, change)
<1>1. Sound(SceneView(msg))
  BY NothingDone, AnswerSound DEF SceneView
<1>2. Sound(SceneRemove(msg))
  BY SceneRemoved, AnswerSound DEF SceneRemove
<1>3. Sound(SceneRemoveAll(msg))
  <2> DEFINE g == msg.attrCmd.groupID
             w == zclGeneral_RemoveAllScenes(Now, g)
  <2>1. WorkSound(w)
    BY GroupsScenesRemoved
  <2>2. \/ SceneRemoveAll(msg) = Answer(w, msg, [status |-> SUCCESS])
        \/ SceneRemoveAll(msg) = Answer(Now, msg, [status |-> INVALID_FIELD])
    <3> HIDE DEF w
    <3> QED BY DEF SceneRemoveAll, w
  <2> HIDE DEF w
  <2> QED BY <2>1, <2>2, NothingDone, AnswerSound
<1>4. Sound(SceneRecall(msg))
  BY PlainSound DEF SceneRecall
<1>5. Sound(SceneGetMembership(msg))
  BY NothingDone, AnswerSound DEF SceneGetMembership
<1>6. r \in {SceneAdd(msg), SceneView(msg), SceneRemove(msg),
             SceneRemoveAll(msg), SceneStore(msg, change), SceneRecall(msg),
             SceneGetMembership(msg), SceneCopy(msg),
             Result(Now, ZFailure, << >>)}
  BY DEF zclGeneral_ProcessInScenesServer, SCENE
<1> HIDE DEF r
<1> QED BY <1>1, <1>2, <1>3, <1>4, <1>5, <1>6, SceneAddSound, SceneStoreSound,
           SceneCopySound, PlainSound DEF r

LEMMA GroupsServerSound ==
    ASSUME TableGood, NEW msg, NEW identifying
    PROVE  Sound(zclGeneral_ProcessInGroupsServer(msg, identifying))
<1> DEFINE r == zclGeneral_ProcessInGroupsServer(msg, identifying)
<1>1. Sound(GroupAdd(msg))
  BY NothingDone, JoinedFinite, JoinsSound DEF GroupAdd
<1>2. \A rsp : Sound(OnlyUnicast(Now, msg, rsp))
  BY PlainSound DEF OnlyUnicast
<1>3. Sound(GroupView(msg))
  BY <1>2 DEF GroupView
<1>4. Sound(GroupGetMembership(msg))
  <2>1. PICK rsp :
            \/ GroupGetMembership(msg) = OnlyUnicast(Now, msg, rsp)
            \/ GroupGetMembership(msg) =
                   [OnlyUnicast(Now, msg, rsp) EXCEPT !.rsp = << >>]
    BY DEF GroupGetMembership
  <2> DEFINE q == [OnlyUnicast(Now, msg, rsp) EXCEPT !.rsp = << >>]
  <2>2. q.work = Now /\ q.leaves = {} /\ q.joins = {}
    BY DEF OnlyUnicast, Result
  <2>3. IsFiniteSet({})
    BY FS_EmptySet
  <2> HIDE DEF q
  <2>4. Sound(q)
    BY <2>2, <2>3, NothingDone DEF Sound
  <2> QED BY <1>2, <2>1, <2>4 DEF q
<1>5. Sound(GroupAddIfIdentifying(msg, identifying))
  <2> DEFINE q == GroupAddIfIdentifying(msg, identifying)
             J == IF identifying THEN Joined(msg.attrCmd.groupID) ELSE {}
  <2>1. q.work = Now /\ q.leaves = {} /\ q.joins = J
    <3> HIDE DEF J
    <3> QED BY DEF GroupAddIfIdentifying, Result, J
  <2>2. IsFiniteSet(J)
    BY FS_EmptySet, JoinedFinite
  <2> HIDE DEF q, J
  <2>3. Sound(q)
    BY <2>1, <2>2, NothingDone DEF Sound
  <2> QED BY <2>3 DEF q
<1>6. r \in {GroupAdd(msg), GroupView(msg), GroupGetMembership(msg),
             GroupRemove(msg), GroupRemoveAll(msg),
             GroupAddIfIdentifying(msg, identifying),
             Result(Now, ZFailure, << >>)}
  BY DEF zclGeneral_ProcessInGroupsServer, GROUP
<1> HIDE DEF r
<1> QED BY <1>1, <1>3, <1>4, <1>5, <1>6, GroupRemoveSound,
           GroupRemoveAllSound, PlainSound DEF r

LEMMA HandlersSound ==
    ASSUME TableGood, NEW msg, NEW r \in zclGeneral_HdlIncoming(msg)
    PROVE  Sound(r)
<1>1. \/ \E stat, rsp : r = Result(Now, stat, rsp)
      \/ \E i : r = zclGeneral_ProcessInGroupsServer(msg, i)
      \/ \E change : r = zclGeneral_ProcessInScenesServer(msg, change)
  <2>1. r \in zclGeneral_HdlInSpecificCommands(msg) \/ r = Result(Now, ZFailure, << >>)
    BY DEF zclGeneral_HdlIncoming
  <2>2. \E stat, rsp : zclGeneral_ProcessInBasic(msg) = Result(Now, stat, rsp)
    BY DEF zclGeneral_ProcessInBasic
  <2>3. \E stat, rsp : zclGeneral_ProcessInIdentity(msg) = Result(Now, stat, rsp)
    BY DEF zclGeneral_ProcessInIdentity
  <2>4. \E stat, rsp : zclGeneral_ProcessInClient(msg) = Result(Now, stat, rsp)
    BY DEF zclGeneral_ProcessInClient
  <2>5. ASSUME r \in zclGeneral_HdlInSpecificCommands(msg)
        PROVE  \/ r = Result(Now, ZFailure, << >>)
               \/ r = zclGeneral_ProcessInClient(msg)
               \/ r = zclGeneral_ProcessInBasic(msg)
               \/ r = zclGeneral_ProcessInIdentity(msg)
               \/ \E i : r = zclGeneral_ProcessInGroupsServer(msg, i)
               \/ \E change : r = zclGeneral_ProcessInScenesServer(msg, change)
    BY <2>5 DEF zclGeneral_HdlInSpecificCommands
  <2> QED BY <2>1, <2>2, <2>3, <2>4, <2>5
<1> QED BY <1>1, PlainSound, GroupsServerSound, ScenesServerSound

--------------------------------------------------------------------------------
(* When nothing is left to be written, the item is a copy of the table.      *)
CopyOf(table) ==
    /\ nv.numRecs = Len(table)
    /\ \A k \in 1 .. ZCL_GEN_MAX_SCENES : k <= Len(table) =>
          nv.recs[k] = table[k]
LEMMA SceneIsRead ==
    ASSUME NEW s, IsScene(s)
    PROVE  s # Unread
BY DEF IsScene, Unread

LEMMA WrittenOut ==
    ASSUME ScenesInv, writes = << >>, ~Restoring
    PROVE  /\ TableGood
           /\ CopyOf(zclGenSceneTable)
           /\ \A k \in 1 .. ZCL_GEN_MAX_SCENES :
                 nv.recs[k] = Unread \/ nv.recs[k] \in Range(zclGenSceneTable)
<1> DEFINE t == zclGenSceneTable
           R == Range(t)
<1>1. t \in Seq(Scenes) /\ IsFiniteSet(groups) /\ \A s \in Scenes : IsScene(s)
  BY DEF ScenesInv, SceneTypes
<1>2. \A k \in 1 .. Len(t) : Valid(t[k].groupID)
  <2>1. DOMAIN t = 1 .. Len(t)
    BY <1>1
  <2> QED BY <2>1 DEF ScenesInv, InGroups
<1>3. /\ t \in Seq(R) /\ R \subseteq Scenes /\ Len(t) \in Nat
      /\ \A s \in R : \E k \in 1 .. Len(t) : s = t[k]
      /\ \A k \in 1 .. Len(t) : t[k] \in R
  BY <1>1, RangeIs
<1>4. Good(R)
  <2> HIDE DEF t, R
  <2> QED BY <1>1, <1>2, <1>3 DEF Good
<1>5. CopyOf(t)
  <2>1. Saved /\ Len(writes) = 0
    BY DEF ScenesInv, Unsaved
  <2>2. nv.numRecs = Len(t)
    BY <2>1 DEF Saved
  <2>3. ASSUME NEW k \in 1 .. ZCL_GEN_MAX_SCENES, k <= Len(t)
        PROVE  nv.recs[k] = t[k]
    <3>1. k \in 1 .. Len(t) /\ ~(Len(t) + 2 - k <= 0)
          /\ k <= ZCL_GEN_MAX_SCENES
      <4>1. ZCL_GEN_MAX_SCENES \in Nat
        BY ScenesAssumption
      <4> HIDE DEF t
      <4> QED BY <1>3, <2>3, <4>1
    <3> QED BY <2>1, <3>1 DEF Saved
  <2> QED BY <2>2, <2>3 DEF CopyOf
<1>6. ASSUME NEW k \in 1 .. ZCL_GEN_MAX_SCENES
      PROVE  nv.recs[k] = Unread \/ nv.recs[k] \in R
  <2>1. ZCL_GEN_MAX_SCENES \in Nat
    BY ScenesAssumption
  <2>2. k > nv.numRecs => nv.recs[k] = Unread
    BY DEF ScenesInv, NoneBehind
  <2>3. k <= Len(t) => nv.recs[k] = t[k] /\ k \in 1 .. Len(t)
    <3> HIDE DEF t
    <3> QED BY <1>3, <1>5, <2>1 DEF CopyOf
  <2>4. k <= Len(t) \/ k > Len(t)
    <3> HIDE DEF t
    <3> QED BY <1>3, <2>1
  <2> HIDE DEF t
  <2> QED BY <1>3, <1>5, <2>2, <2>3, <2>4 DEF CopyOf
<1> QED BY <1>1, <1>3, <1>4, <1>5, <1>6 DEF TableGood

--------------------------------------------------------------------------------
(* A handler's table and writes.                                             *)
Handed(r) ==
    crash' = [old |-> zclGenSceneTable, new |-> r.work.table,
              saves |-> Len(r.work.saves), kind |-> "none"]
LEMMA CarriedTypes ==
    ASSUME ScenesInv, ~Busy, NEW r, Sound(r), Carry(r), Handed(r)
    PROVE  SceneTypes' /\ InGroups'
<1> DEFINE t == zclGenSceneTable
           w == r.work
           P == Present(w)
<1>1. /\ TableGood
      /\ \A k \in 1 .. ZCL_GEN_MAX_SCENES :
            nv.recs[k] = Unread \/ nv.recs[k] \in Range(t)
  BY WrittenOut DEF Busy
<1>2. w \in Works(P) /\ Good(P) /\ LastSaved(w)
  BY DEF Sound, WorkSound
<1>3. Scenes' = P
  BY DEF Handed, Scenes, Present
<1>4. /\ zclGenSceneTable' = w.table /\ writes' = AllWrites(w.saves)
      /\ groups' = groups \cup r.joins /\ nv' = nv /\ restore' = restore
      /\ leaving' = r.leaves
  BY DEF Carry, AllWrites
<1>5. w.table \in Seq(P) /\ w.saves \in Seq(Seq(P)) /\ Len(w.saves) \in Nat
      /\ t \in Seq(P)
  <2>1. w.table \in Seq(P) /\ w.saves \in Seq(Seq(P))
    BY <1>2 DEF Works
  <2>2. Len(w.saves) \in Nat
    <3> DEFINE X == Seq(P)
    <3>1. w.saves \in Seq(X)
      BY <2>1
    <3> HIDE DEF X
    <3> QED BY <3>1
  <2>3. t \in Seq(Range(t)) /\ Range(t) \subseteq P
    BY <1>1 DEF TableGood, Present
  <2> HIDE DEF P, t, w
  <2> QED BY <2>1, <2>2, <2>3, SeqMonotonic
<1>6. writes' \in Seq(NVWrite(P))
  <2> HIDE DEF P, w
  <2>1. CASE w.saves = << >>
    <3> DEFINE X == NVWrite(P)
    <3>1. << >> \in Seq(X)
      OBVIOUS
    <3> QED BY <1>4, <2>1, <3>1, NothingSaved
  <2>2. CASE w.saves # << >>
    BY <1>4, <1>5, <2>2, SavesWritten
  <2> QED BY <2>1, <2>2
<1>7. nv \in NVItem(P)
  <2>1. nv \in NVItem(Scenes)
    BY DEF ScenesInv, SceneTypes
  <2>2. nv = [numRecs |-> nv.numRecs, recs |-> nv.recs]
        /\ nv.numRecs \in Nat
        /\ nv.recs = [k \in 1 .. ZCL_GEN_MAX_SCENES |-> nv.recs[k]]
    BY <2>1 DEF NVItem
  <2>3. \A k \in 1 .. ZCL_GEN_MAX_SCENES : nv.recs[k] \in P \cup {Unread}
    BY <1>1 DEF Present
  <2> HIDE DEF P
  <2> QED BY <2>2, <2>3 DEF NVItem
<1>8. IsFiniteSet(groups')
  <2>1. IsFiniteSet(groups) /\ IsFiniteSet(r.joins)
    BY DEF ScenesInv, SceneTypes, Sound
  <2> QED BY <1>4, <2>1, FS_Union
<1>9. crash' \in [old : Seq(P), new : Seq(P), saves : Nat,
                  kind : {"none", "idle", "handling", "restoring"}]
  <2> HIDE DEF P
  <2> QED BY <1>5 DEF Handed
<1>10. restore \in [next : Nat \ {0}, numRecs : Nat]
  BY DEF ScenesInv, SceneTypes
<1> DEFINE In(s) == s.groupID = NoGroup \/ s.groupID \in groups'
<1>11. \A s \in P : IsScene(s) /\ In(s)
  <2>1. groups \subseteq groups'
    BY <1>4
  <2>2. \A s \in P : IsScene(s) /\ Valid(s.groupID)
    BY <1>2 DEF Good
  <2> HIDE DEF P
  <2> QED BY <2>1, <2>2 DEF Valid, GroupExists
<1> HIDE DEF P, w
<1>12. SceneTypes'
  BY <1>3, <1>4, <1>5, <1>6, <1>7, <1>8, <1>9, <1>10, <1>11 DEF SceneTypes
<1> HIDE DEF In
<1>13. \A k \in DOMAIN w.table : In(w.table[k])
  <2>1. \A k \in DOMAIN w.table : w.table[k] \in P
    BY <1>5
  <2> QED BY <1>11, <2>1
<1>14. \A k \in DOMAIN nv.recs : nv.recs[k] # Unread => In(nv.recs[k])
  <2>1. \A k \in DOMAIN nv.recs : nv.recs[k] \in P \cup {Unread}
    BY <1>7 DEF NVItem
  <2> QED BY <1>11, <2>1
<1>15. \A i \in DOMAIN writes' : writes'[i].at # Header => In(writes'[i].value)
  <2>1. \A i \in DOMAIN writes' : writes'[i] \in NVWrite(P)
    BY <1>6
  <2>2. \A a \in NVWrite(P) : a.at # Header => a.value \in P
    BY DEF NVWrite, Header
  <2> QED BY <1>11, <2>1, <2>2
<1>16. InGroups'
  <2> USE DEF In
  <2>1. \A k \in DOMAIN zclGenSceneTable' : In(zclGenSceneTable'[k])
    BY <1>4, <1>13
  <2>2. \A k \in DOMAIN nv'.recs : nv'.recs[k] # Unread => In(nv'.recs[k])
    BY <1>4, <1>14
  <2> QED BY <1>15, <2>1, <2>2 DEF InGroups, Valid, GroupExists
<1> QED BY <1>12, <1>16

LEMMA CarriedWrites ==
    ASSUME ScenesInv, ~Busy, NEW r, Sound(r), Carry(r), Handed(r)
    PROVE  /\ Counted' /\ (Unsaved \/ Saved)' /\ NoneBehind'
           /\ Emptied' /\ Reading' /\ Undecided' /\ Resumed'
<1> DEFINE t == zclGenSceneTable
           w == r.work
           P == Present(w)
<1>1. TableGood /\ CopyOf(t)
  BY WrittenOut DEF Busy
<1>2. /\ w \in Works(P) /\ LastSaved(w)
      /\ Len(w.saves) <= 1 /\ Len(w.table) >= Len(t) => OneChange(t, w.table)
  BY DEF Sound, WorkSound
<1>3. /\ zclGenSceneTable' = w.table /\ writes' = AllWrites(w.saves)
      /\ groups' = groups \cup r.joins /\ nv' = nv /\ restore' = restore
      /\ leaving' = r.leaves
  BY DEF Carry, AllWrites
<1>4. /\ crash'.old = t /\ crash'.new = w.table
      /\ crash'.saves = Len(w.saves) /\ crash'.kind = "none"
  BY DEF Handed
<1>5. writes = << >> /\ ~Restoring /\ ~Restoring'
  BY <1>3 DEF Busy, Restoring
<1>6. w.table \in Seq(P) /\ w.saves \in Seq(Seq(P)) /\ Len(w.table) \in Nat
  BY <1>2 DEF Works
<1>7. Len(w.saves) \in Nat /\ (w.saves # << >> => Len(w.saves) # 0)
  <2> DEFINE X == Seq(P)
  <2>1. w.saves \in Seq(X)
    BY <1>6
  <2> HIDE DEF X
  <2> QED BY <2>1
<1>8. Len(t) \in Nat
  BY <1>1 DEF TableGood
<1>9. ZCL_GEN_MAX_SCENES \in Nat /\ nv \in NVItem(Scenes) /\ nv.numRecs \in Nat
      /\ restore.next \in Nat /\ restore.numRecs \in Nat
  BY ScenesAssumption DEF ScenesInv, SceneTypes, NVItem
<1>10. \A k \in 1 .. ZCL_GEN_MAX_SCENES :
           k <= nv'.numRecs \/ (restore'.next <= k /\ k <= restore'.numRecs) =>
               nv'.recs[k] # Unread
  <2>1. \A k \in 1 .. ZCL_GEN_MAX_SCENES :
            k <= nv.numRecs \/ (restore.next <= k /\ k <= restore.numRecs) =>
                nv.recs[k] # Unread
    BY DEF ScenesInv, Counted
  <2> QED BY <1>3, <2>1
<1>11. Emptied'
  <2>1. \A k \in DOMAIN w.table : w.table[k] \in Range(w.table)
    BY <1>6, RangeIs
  <2>2. \A k \in DOMAIN w.table : w.table[k].groupID \in r.leaves =>
                                     w.table[k].groupID = NoGroup
    BY <2>1 DEF Sound
  <2> QED BY <1>3, <1>5, <2>2 DEF Emptied
<1>12. Reading' /\ Resumed'
  BY <1>3, <1>4, <1>5 DEF Reading, Resumed
<1>13. CASE w.saves = << >>
  <2>1. writes' = << >> /\ zclGenSceneTable' = t
    BY <1>2, <1>3, <1>13, NothingSaved DEF LastSaved
  <2>2. Counted'
    <3>1. DOMAIN writes' = {}
      BY <2>1
    <3> QED BY <1>10, <3>1 DEF Counted
  <2>3. (Unsaved \/ Saved)'
    <3>1. Unsaved \/ Saved
      BY DEF ScenesInv
    <3> QED BY <1>3, <1>5, <2>1, <3>1 DEF Unsaved, Saved, Restoring
  <2>4. NoneBehind'
    <3>1. NoneBehind
      BY DEF ScenesInv
    <3> QED BY <1>3, <1>5, <3>1 DEF NoneBehind
  <2>5. Undecided'
    <3>1. OneChange(t, w.table)
      BY <1>2, <1>8, <1>13 DEF LastSaved
    <3> QED BY <1>4, <2>1, <3>1 DEF Undecided
  <2> QED BY <1>11, <1>12, <2>2, <2>3, <2>4, <2>5
<1>14. CASE w.saves # << >>
  <2> DEFINE ws == AllWrites(w.saves)
             N == Len(w.table)
  <2>1. w.saves[Len(w.saves)] = w.table
    BY <1>2, <1>14 DEF LastSaved
  <2>2. /\ ws \in Seq(NVWrite(P)) /\ Ordered(ws) /\ Ends(ws, w.table)
        /\ Len(w.saves) = 1 => Len(ws) = N + 1
    <3> HIDE DEF w, P
    <3> QED BY <1>6, <1>14, <2>1, SavesWritten
  <2>3. Len(ws) \in Nat /\ DOMAIN ws = 1 .. Len(ws)
    <3> DEFINE X == NVWrite(P)
    <3>1. ws \in Seq(X)
      BY <2>2
    <3> HIDE DEF X, ws
    <3> QED BY <3>1
  <2>4. \A i \in 1 .. Len(ws) : ws[i] \in NVWrite(P)
    <3> DEFINE X == NVWrite(P)
    <3>1. ws \in Seq(X)
      BY <2>2
    <3> HIDE DEF X, ws
    <3>2. \A i \in 1 .. Len(ws) : ws[i] \in X
      BY <3>1
    <3> QED BY <3>2 DEF X
  <2> HIDE DEF ws, N
  <2>5. writes' = ws
    BY <1>3 DEF ws
  <2>6. Counted'
    <3>2. ASSUME NEW i \in DOMAIN ws, ws[i].at = Header,
                 NEW k \in 1 .. ZCL_GEN_MAX_SCENES, k <= ws[i].value
          PROVE  \E j \in 1 .. i - 1 : ws[j].at = k
      <4>1. i \in 1 .. Len(ws) /\ ws[i] \in NVWrite(P)
        BY <2>3, <2>4
      <4>2. ws[i].value \in Nat
        BY <3>2, <4>1 DEF NVWrite, Header
      <4>3. k \in 1 .. ws[i].value
        BY <1>9, <3>2, <4>2
      <4> QED BY <2>2, <3>2, <4>1, <4>3 DEF Ordered
    <3>3. \A i \in DOMAIN writes' : writes'[i].at = Header =>
              \A k \in 1 .. ZCL_GEN_MAX_SCENES : k <= writes'[i].value =>
                  \E j \in 1 .. i - 1 : writes'[j].at = k
      BY <2>5, <3>2
    <3> QED BY <1>10, <3>3 DEF Counted
  <2>7. N + 1 <= Len(ws) /\ N \in Nat
    BY <1>6, <2>2 DEF Ends, N
  <2>8. Saved'
    <3>1. \A k \in 1 .. N : /\ N + 2 - k <= Len(ws)
                            /\ ws[Len(ws) - (N + 1 - k)] =
                                   [at |-> k, value |-> w.table[k]]
      <4>1. \A k \in 1 .. N : N + 2 - k <= Len(ws)
        BY <2>3, <2>7
      <4> QED BY <2>2, <4>1 DEF Ends, N
    <3>2. ws[Len(ws)] = [at |-> Header, value |-> N]
      BY <2>2 DEF Ends, N
    <3>3. Len(ws) > 0
      BY <2>3, <2>7
    <3> QED BY <1>3, <2>5, <3>1, <3>2, <3>3 DEF Saved, N
  <2>9. writes' # << >>
    BY <2>3, <2>5, <2>7
  <2>10. NoneBehind'
    BY <2>9 DEF NoneBehind
  <2>11. Undecided'
    <3> SUFFICES ASSUME Whole'
                 PROVE  /\ OneChange(t, w.table)
                        /\ nv.numRecs = Len(t)
                        /\ Len(ws) <= N + 1
                        /\ \A k \in 1 .. ZCL_GEN_MAX_SCENES :
                              k <= Len(t) => nv.recs[k] = t[k]
      BY <1>3, <1>4, <2>5 DEF Undecided, N
    <3>1. Len(w.saves) <= 1 /\ Len(w.table) >= Len(t)
      BY <1>4 DEF Whole
    <3>2. Len(w.saves) = 1
      <4>1. \A m \in Nat : m # 0 /\ m <= 1 => m = 1
        OBVIOUS
      <4> QED BY <1>7, <1>14, <3>1, <4>1
    <3> QED BY <1>1, <1>2, <2>2, <2>7, <3>1, <3>2 DEF CopyOf
  <2> QED BY <1>11, <1>12, <2>6, <2>8, <2>10, <2>11
<1> QED BY <1>13, <1>14

LEMMA Carried ==
    ASSUME ScenesInv, ~Busy, NEW r, Sound(r), Carry(r), Handed(r)
    PROVE  ScenesInv'
BY CarriedTypes, CarriedWrites DEF ScenesInv

LEMMA QuietSound ==
    ASSUME ScenesInv, ~Busy
    PROVE  Sound(Quiet)
BY WrittenOut, PlainSound DEF Busy, Quiet

LEMMA LeftAlone ==
    ASSUME ScenesInv, ~Busy, UNCHANGED sceneVars, crash' = Unharmed("none")
    PROVE  ScenesInv'
<1>1. /\ Quiet.work = Now /\ Quiet.joins = {} /\ Quiet.leaves = {}
      /\ Now.table = zclGenSceneTable /\ Now.saves = << >>
  BY DEF Quiet, Result, Now, Work
<1>2. Carry(Quiet)
  <2>1. writes' = AllWrites(<< >>)
    BY NothingSaved DEF Busy, sceneVars
  <2> HIDE DEF Quiet
  <2> QED BY <1>1, <2>1 DEF Carry, AllWrites, sceneVars, Busy
<1>3. Handed(Quiet)
  <2>1. Len(<< >>) = 0
    OBVIOUS
  <2> HIDE DEF Quiet
  <2> QED BY <1>1, <2>1 DEF Handed, Unharmed
<1> QED BY <1>2, <1>3, QuietSound, Carried

--------------------------------------------------------------------------------
(* One write.                                                                *)
WriteMade(h) ==
    /\ writes # << >> /\ h = Head(writes) /\ writes' = Tail(writes)
    /\ UNCHANGED <<zclGenSceneTable, groups, leaving, restore, crash>>
    /\ nv' = IF Tail(writes) = << >> /\ ~Restoring
             THEN Trimmed(Written(h)) ELSE Written(h)
LEMMA WriteIs ==
    ASSUME SceneTypes, NEW h, WriteMade(h)
    PROVE  LET v == Written(h)
               trim == writes' = << >> /\ ~Restoring
           IN /\ h \in NVWrite(Scenes) /\ h = writes[1]
              /\ v \in NVItem(Scenes) /\ nv' \in NVItem(Scenes)
              /\ nv'.numRecs = v.numRecs
              /\ v.numRecs = IF h.at = Header THEN h.value ELSE nv.numRecs
              /\ \A k \in 1 .. ZCL_GEN_MAX_SCENES :
                    /\ v.recs[k] = IF h.at = k THEN h.value ELSE nv.recs[k]
                    /\ nv'.recs[k] = IF trim /\ k > v.numRecs THEN Unread
                                     ELSE v.recs[k]
<1> DEFINE v == Written(h)
           trim == writes' = << >> /\ ~Restoring
           M == ZCL_GEN_MAX_SCENES
           S == Scenes
<1>1. h \in NVWrite(S) /\ h = writes[1]
  <2> DEFINE X == NVWrite(S)
  <2>1. writes \in Seq(X)
    BY DEF SceneTypes
  <2> HIDE DEF X
  <2>2. writes # << >> /\ h = Head(writes)
    BY DEF WriteMade
  <2>3. h \in X /\ h = writes[1]
    BY <2>1, <2>2
  <2> QED BY <2>3 DEF X
<1>2. /\ nv = [numRecs |-> nv.numRecs, recs |-> nv.recs]
      /\ nv.numRecs \in Nat
      /\ nv.recs \in [1 .. M -> S \cup {Unread}]
  BY DEF SceneTypes, NVItem
<1>3. M \in Nat
  BY ScenesAssumption
<1> HIDE DEF S
<1>4. /\ v \in NVItem(S)
      /\ v.numRecs = IF h.at = Header THEN h.value ELSE nv.numRecs
      /\ \A k \in 1 .. M :
            v.recs[k] = IF h.at = k THEN h.value ELSE nv.recs[k]
  <2>1. CASE h.at = Header
    <3>1. h.value \in Nat
      BY <1>1, <2>1 DEF NVWrite, Header
    <3>2. v = [numRecs |-> h.value, recs |-> nv.recs]
      <4>1. v = [nv EXCEPT !.numRecs = h.value]
        <5>1. h.at \notin DOMAIN nv.recs
          BY <1>2, <1>3, <2>1 DEF Header
        <5> QED BY <2>1, <5>1 DEF Written
      <4>2. PICK a, b : nv = [numRecs |-> a, recs |-> b]
        BY <1>2
      <4> HIDE DEF v
      <4> QED BY <4>1, <4>2
    <3>3. \A k \in 1 .. M : h.at # k
      BY <1>3, <2>1 DEF Header
    <3> HIDE DEF v
    <3> QED BY <1>2, <2>1, <3>1, <3>2, <3>3 DEF NVItem
  <2>2. CASE h.at # Header /\ h.at \in 1 .. M
    <3>1. h.value \in S
      BY <1>1, <2>2 DEF NVWrite, Header
    <3> DEFINE recs == [nv.recs EXCEPT ![h.at] = h.value]
    <3>2. v = [numRecs |-> nv.numRecs, recs |-> recs]
      <4>1. h.at \in DOMAIN nv.recs
        BY <1>2, <2>2
      <4> QED BY <1>2, <2>2, <4>1 DEF Written
    <3>3. /\ recs \in [1 .. M -> S \cup {Unread}]
          /\ \A k \in 1 .. M :
                recs[k] = IF h.at = k THEN h.value ELSE nv.recs[k]
      BY <1>2, <2>2, <3>1
    <3> HIDE DEF v, recs
    <3> QED BY <1>2, <2>2, <3>2, <3>3 DEF NVItem
  <2>3. CASE h.at # Header /\ h.at \notin 1 .. M
    <3>1. v = nv
      <4>1. h.at \notin DOMAIN nv.recs
        BY <1>2, <2>3
      <4> QED BY <2>3, <4>1 DEF Written
    <3> HIDE DEF v
    <3> QED BY <1>2, <2>3, <3>1 DEF NVItem
  <2> QED BY <2>1, <2>2, <2>3
<1> HIDE DEF v
<1>5. /\ v = [numRecs |-> v.numRecs, recs |-> v.recs]
      /\ v.numRecs \in Nat
      /\ v.recs \in [1 .. M -> S \cup {Unread}]
  BY <1>4 DEF NVItem
<1>6. CASE trim
  <2> DEFINE recs == [k \in 1 .. M |-> IF k > v.numRecs THEN Unread
                                      ELSE v.recs[k]]
  <2>1. nv' = Trimmed(v)
    BY <1>6 DEF WriteMade, v
  <2>2. Trimmed(v) = [numRecs |-> v.numRecs, recs |-> recs]
    <3>1. DOMAIN v.recs = 1 .. M
      BY <1>5
    <3>2. Trimmed(v) = [v EXCEPT !.recs = recs]
      BY <3>1 DEF Trimmed
    <3>3. PICK a, b : v = [numRecs |-> a, recs |-> b]
      BY <1>5
    <3> HIDE DEF recs
    <3> QED BY <3>2, <3>3
  <2>3. recs \in [1 .. M -> S \cup {Unread}]
    BY <1>5
  <2>4. \A k \in 1 .. M : recs[k] = IF k > v.numRecs THEN Unread ELSE v.recs[k]
    OBVIOUS
  <2> HIDE DEF recs
  <2>5. nv' = [numRecs |-> v.numRecs, recs |-> recs]
    BY <2>1, <2>2
  <2>6. nv' \in NVItem(S)
    BY <1>5, <2>3, <2>5 DEF NVItem
  <2>7. nv'.numRecs = v.numRecs /\ nv'.recs = recs
    BY <2>5
  <2> QED BY <1>1, <1>4, <1>6, <2>4, <2>6, <2>7 DEF v, S
<1>7. CASE ~trim
  <2>1. nv' = v
    BY <1>7 DEF WriteMade, v
  <2> QED BY <1>1, <1>4, <1>7, <2>1 DEF v, S
<1> QED BY <1>6, <1>7

LEMMA TailIs ==
    ASSUME NEW X, NEW x \in Seq(X), x # << >>
    PROVE  /\ Tail(x) \in Seq(X) /\ Len(x) \in Nat \ {0}
           /\ Len(Tail(x)) = Len(x) - 1
           /\ \A i \in 1 .. Len(x) - 1 : Tail(x)[i] = x[i + 1]
           /\ Tail(x) = << >> <=> Len(x) = 1
<1>1. /\ Tail(x) \in Seq(X) /\ Len(x) \in Nat \ {0}
      /\ Len(Tail(x)) = Len(x) - 1
      /\ \A i \in 1 .. Len(x) - 1 : Tail(x)[i] = x[i + 1]
  OBVIOUS
<1>2. Tail(x) = << >> <=> Len(Tail(x)) = 0
  BY <1>1
<1>3. \A m \in Nat : m - 1 = 0 <=> m = 1
  OBVIOUS
<1> QED BY <1>1, <1>2, <1>3

LEMMA WriteKeepsRecords ==
    ASSUME ScenesInv, NEW h, WriteMade(h)
    PROVE  SceneTypes' /\ InGroups' /\ Counted' /\ NoneBehind'
<1> DEFINE v == Written(h)
           S == Scenes
           W == NVWrite(S)
           M == ZCL_GEN_MAX_SCENES
           left == Len(writes)
           trim == writes' = << >> /\ ~Restoring
<1>1. SceneTypes /\ InGroups /\ Counted
  BY DEF ScenesInv
<1>2. /\ h \in W /\ h = writes[1] /\ v \in NVItem(S) /\ nv' \in NVItem(S)
      /\ nv'.numRecs = v.numRecs
      /\ v.numRecs = IF h.at = Header THEN h.value ELSE nv.numRecs
      /\ \A k \in 1 .. M :
            /\ v.recs[k] = IF h.at = k THEN h.value ELSE nv.recs[k]
            /\ nv'.recs[k] = IF trim /\ k > v.numRecs THEN Unread ELSE v.recs[k]
  BY <1>1, WriteIs
<1>3. /\ writes' = Tail(writes) /\ writes # << >>
      /\ UNCHANGED <<zclGenSceneTable, groups, leaving, restore, crash>>
  BY DEF WriteMade
<1>4. M \in Nat /\ nv.numRecs \in Nat /\ v.numRecs \in Nat
      /\ restore.next \in Nat /\ restore.numRecs \in Nat
  BY <1>1, <1>2, ScenesAssumption DEF SceneTypes, NVItem
<1>5. Scenes' = S
  BY <1>3 DEF Scenes
<1>6. writes \in Seq(W) /\ \A s \in S : IsScene(s) /\ s # Unread
  BY <1>1, SceneIsRead DEF SceneTypes
<1> HIDE DEF v, S, W, M
<1>7. /\ writes' \in Seq(W) /\ left \in Nat \ {0} /\ Len(writes') = left - 1
      /\ \A i \in 1 .. left - 1 : writes'[i] = writes[i + 1]
      /\ writes' = << >> <=> left = 1
      /\ DOMAIN writes = 1 .. left /\ DOMAIN writes' = 1 .. left - 1
  BY <1>3, <1>6, TailIs
<1>8. SceneTypes'
  <2>1. /\ zclGenSceneTable \in Seq(S) /\ IsFiniteSet(groups)
        /\ restore \in [next : Nat \ {0}, numRecs : Nat]
        /\ crash \in [old : Seq(S), new : Seq(S), saves : Nat,
                      kind : {"none", "idle", "handling", "restoring"}]
    BY <1>1 DEF SceneTypes, S
  <2> QED BY <1>2, <1>3, <1>5, <1>6, <1>7, <2>1 DEF SceneTypes, W
<1>9. nv.recs \in [1 .. M -> S \cup {Unread}] /\ nv' \in NVItem(S)
      /\ nv'.recs \in [1 .. M -> S \cup {Unread}]
  BY <1>1, <1>2 DEF SceneTypes, NVItem, M, S
<1>10. h.at # Header => /\ h.value \in S /\ h.value # Unread
                        /\ Valid(h.value.groupID)
  <2>1. 1 \in DOMAIN writes
    BY <1>7
  <2>2. h.at # Header => Valid(h.value.groupID)
    BY <1>1, <1>2, <2>1 DEF InGroups
  <2> QED BY <1>2, <1>6, <2>2 DEF NVWrite, W, Header
<1>11. h.at = Header => h.value \in Nat
  BY <1>2 DEF W, NVWrite, Header
<1>12. InGroups'
  <2>1. \A k \in DOMAIN zclGenSceneTable : Valid(zclGenSceneTable[k].groupID)
    BY <1>1 DEF InGroups
  <2>2. \A k \in 1 .. M : nv'.recs[k] # Unread => Valid(nv'.recs[k].groupID)
    <3> TAKE k \in 1 .. M
    <3>1. nv.recs[k] # Unread => Valid(nv.recs[k].groupID)
      BY <1>1, <1>9 DEF InGroups
    <3>2. h.at = k => h.at # Header
      BY <1>4 DEF Header
    <3> QED BY <1>2, <1>10, <3>1, <3>2
  <2>3. \A i \in 1 .. left - 1 : writes'[i].at # Header =>
            Valid(writes'[i].value.groupID)
    <3> TAKE i \in 1 .. left - 1
    <3>1. i + 1 \in DOMAIN writes
      BY <1>7
    <3> QED BY <1>1, <1>7, <3>1 DEF InGroups
  <2>4. DOMAIN nv'.recs = 1 .. M
    BY <1>9
  <2> QED BY <1>3, <1>7, <2>1, <2>2, <2>3, <2>4 DEF InGroups, Valid, GroupExists
<1>13. \A k \in 1 .. M : nv.recs[k] # Unread \/ h.at = k => v.recs[k] # Unread
  <2> TAKE k \in 1 .. M
  <2>1. h.at = k => h.at # Header
    BY <1>4 DEF Header
  <2> QED BY <1>2, <1>10, <2>1
<1>14. \A k \in 1 .. M : k <= v.numRecs => nv.recs[k] # Unread
  <2> TAKE k \in 1 .. M
  <2>1. CASE h.at # Header
    BY <1>1, <1>2, <2>1 DEF Counted, M
  <2>2. CASE h.at = Header
    <3>1. 1 \in DOMAIN writes /\ \A j \in 1 .. 1 - 1 : FALSE
      BY <1>7
    <3> QED BY <1>1, <1>2, <2>2, <3>1 DEF Counted, M
  <2> QED BY <2>1, <2>2
<1>15. \A k \in 1 .. M :
           k <= nv'.numRecs \/ (restore'.next <= k /\ k <= restore'.numRecs) =>
               nv'.recs[k] # Unread
  <2> TAKE k \in 1 .. M
  <2>1. CASE k <= v.numRecs
    <3>1. ~(k > v.numRecs)
      BY <1>4, <2>1
    <3> QED BY <1>2, <1>13, <1>14, <2>1, <3>1
  <2>2. CASE restore.next <= k /\ k <= restore.numRecs
    <3>1. nv.recs[k] # Unread
      BY <1>1, <2>2 DEF Counted, M
    <3>2. Restoring
      BY <1>4, <2>2 DEF Restoring
    <3> QED BY <1>2, <1>13, <3>1, <3>2
  <2> QED BY <1>2, <1>3, <2>1, <2>2
<1>16. ASSUME NEW i \in 1 .. left - 1, writes'[i].at = Header,
              NEW k \in 1 .. M, k <= writes'[i].value
       PROVE  nv'.recs[k] # Unread \/ \E j \in 1 .. i - 1 : writes'[j].at = k
  <2>1. PICK d : d = i + 1
    OBVIOUS
  <2>2. d \in 1 .. left /\ writes'[i] = writes[d] /\ ~trim
    BY <1>7, <2>1
  <2>3. nv.recs[k] # Unread \/ \E j \in 1 .. d - 1 : writes[j].at = k
    BY <1>1, <1>7, <1>16, <2>2 DEF Counted, M
  <2>4. nv'.recs[k] = v.recs[k]
    BY <1>2, <2>2
  <2>5. ASSUME NEW j \in 1 .. d - 1, writes[j].at = k, j # 1
        PROVE  \E m \in 1 .. i - 1 : writes'[m].at = k
    <3>1. PICK m : m = j - 1
      OBVIOUS
    <3>2. m \in 1 .. i - 1 /\ m \in 1 .. left - 1 /\ m + 1 = j
      BY <1>7, <2>1, <2>5, <3>1
    <3>3. writes'[m] = writes[j]
      BY <1>7, <3>2
    <3> QED BY <2>5, <3>2, <3>3
  <2> QED BY <1>2, <1>13, <2>3, <2>4, <2>5
<1>17. Counted'
  <2>1. \A i \in DOMAIN writes' : writes'[i].at = Header =>
            \A k \in 1 .. M : k <= writes'[i].value =>
                nv'.recs[k] # Unread \/ \E j \in 1 .. i - 1 : writes'[j].at = k
    BY <1>7, <1>16
  <2> QED BY <1>15, <2>1 DEF Counted, M
<1>18. NoneBehind'
  <2>1. Restoring' <=> Restoring
    BY <1>3 DEF Restoring
  <2>2. trim => \A k \in 1 .. M : k > nv'.numRecs => nv'.recs[k] = Unread
    BY <1>2
  <2> QED BY <2>1, <2>2 DEF NoneBehind, M
<1> QED BY <1>8, <1>12, <1>17, <1>18

\* The next of the last save's writes: of the writes that are left, the first.
LEMMA NextOfLast ==
    ASSUME ScenesInv, Saved, writes # << >>,
           Len(writes) <= Len(zclGenSceneTable) + 1
    PROVE  LET t == zclGenSceneTable
               left == Len(writes)
               k == Len(t) + 2 - left
           IN IF left = 1 THEN writes[1] = [at |-> Header, value |-> Len(t)]
              ELSE k \in 1 .. Len(t) /\ writes[1] = [at |-> k, value |-> t[k]]
<1> DEFINE t == zclGenSceneTable
           n == Len(t)
           left == Len(writes)
           W == NVWrite(Scenes)
<1>1. writes \in Seq(W) /\ n \in Nat
  BY DEF ScenesInv, SceneTypes
<1> HIDE DEF W
<1>2. left \in Nat \ {0}
  BY <1>1, TailIs
<1>3. left > 0 => writes[left] = [at |-> Header, value |-> n]
  BY DEF Saved
<1>4. \A k \in 1 .. n : n + 2 - k <= left =>
          writes[left - (n + 1 - k)] = [at |-> k, value |-> t[k]]
  BY DEF Saved
<1>5. left <= n + 1
  OBVIOUS
<1> HIDE DEF n, left, t
<1>6. left > 0
  BY <1>2
<1>7. CASE left = 1
  BY <1>3, <1>6, <1>7 DEF n, left, t
<1>8. CASE left # 1
  <2>1. PICK k : k = n + 2 - left
    OBVIOUS
  <2>2. k \in 1 .. n /\ n + 2 - k <= left /\ left - (n + 1 - k) = 1
    <3>1. n \in Nat /\ left \in 2 .. n + 1
      BY <1>1, <1>2, <1>5, <1>8
    <3>2. k \in 1 .. n
      BY <2>1, <3>1
    <3>3. left = n + 2 - k
      BY <2>1, <3>1, <3>2
    <3> QED BY <3>1, <3>2, <3>3
  <2>3. writes[1] = [at |-> k, value |-> t[k]]
    BY <1>4, <2>2
  <2> QED BY <1>8, <2>1, <2>2, <2>3 DEF n, left, t
<1> QED BY <1>7, <1>8

LEMMA WriteKeepsSaved ==
    ASSUME ScenesInv, NEW h, WriteMade(h)
    PROVE  (Unsaved \/ Saved)'
<1> DEFINE t == zclGenSceneTable
           n == Len(t)
           M == ZCL_GEN_MAX_SCENES
           left == Len(writes)
           trim == writes' = << >> /\ ~Restoring
           v == Written(h)
           W == NVWrite(Scenes)
<1>1. SceneTypes
  BY DEF ScenesInv
<1>2. /\ h = writes[1] /\ nv'.numRecs = v.numRecs
      /\ v.numRecs = IF h.at = Header THEN h.value ELSE nv.numRecs
      /\ \A k \in 1 .. M :
            /\ v.recs[k] = IF h.at = k THEN h.value ELSE nv.recs[k]
            /\ nv'.recs[k] = IF trim /\ k > v.numRecs THEN Unread ELSE v.recs[k]
  BY <1>1, WriteIs
<1>3. /\ writes' = Tail(writes) /\ writes # << >>
      /\ zclGenSceneTable' = t /\ restore' = restore
  BY DEF WriteMade
<1>4. M \in Nat /\ n \in Nat /\ writes \in Seq(W)
  BY <1>1, ScenesAssumption DEF SceneTypes
<1> HIDE DEF v, W, M, n
<1>5. /\ left \in Nat \ {0} /\ Len(writes') = left - 1
      /\ \A i \in 1 .. left - 1 : writes'[i] = writes[i + 1]
      /\ writes' = << >> <=> left = 1
  BY <1>3, <1>4, TailIs
<1>6. CASE Unsaved
  BY <1>3, <1>6 DEF Unsaved, Restoring
<1>7. CASE Saved
  <2>1. /\ \A k \in 1 .. n :
              /\ n + 2 - k <= left => writes[left - (n + 1 - k)] =
                                          [at |-> k, value |-> t[k]]
              /\ ~(n + 2 - k <= left) =>
                    (k <= M => nv.recs[k] = t[k])
        /\ left > 0 => writes[left] = [at |-> Header, value |-> n]
    BY <1>7 DEF Saved, n, M
  <2> HIDE DEF left
  <2>2. left > 0
    BY <1>5
  <2>3. left = 1 => h.at = Header /\ h.value = n
    <3>1. left = 1 => h = [at |-> Header, value |-> n]
      BY <1>2, <2>1, <2>2
    <3> QED BY <3>1
  <2>4. left <= n + 1 /\ left # 1 => h.at = n + 2 - left
    <3> SUFFICES ASSUME left <= n + 1, left # 1 PROVE h.at = n + 2 - left
      OBVIOUS
    <3>1. PICK k : k = n + 2 - left
      OBVIOUS
    <3>2. writes[1] = [at |-> k, value |-> t[k]]
      BY <1>3, <1>7, <3>1, NextOfLast DEF n, left
    <3>3. h.at = k
      BY <1>2, <3>2
    <3> QED BY <3>1, <3>3
  <2>5. ASSUME NEW k \in 1 .. n
        PROVE  IF n + 2 - k <= left - 1
               THEN writes'[left - 1 - (n + 1 - k)] = [at |-> k, value |-> t[k]]
               ELSE k <= M => nv'.recs[k] = t[k]
    <3>1. CASE n + 2 - k <= left - 1
      <4>1. PICK i : i = left - 1 - (n + 1 - k)
        OBVIOUS
      <4>2. i \in 1 .. left - 1 /\ i + 1 = left - (n + 1 - k)
            /\ n + 2 - k <= left
        BY <1>4, <1>5, <3>1, <4>1
      <4>3. writes'[i] = writes[i + 1]
        BY <1>5, <4>2
      <4> QED BY <2>1, <3>1, <4>1, <4>2, <4>3
    <3>2. CASE ~(n + 2 - k <= left - 1) /\ k <= M
      <4>1. k \in 1 .. M /\ left <= n + 1
        BY <1>4, <1>5, <3>2
      <4>2. nv'.recs[k] = v.recs[k]
        <5>1. trim => v.numRecs = n /\ ~(k > n)
          BY <1>2, <1>4, <1>5, <2>3
        <5> QED BY <1>2, <4>1, <5>1
      <4>3. CASE n + 2 - k = left
        <5>1. left # 1 /\ k = n + 2 - left
          BY <1>4, <1>5, <4>3
        <5>2. writes[1] = [at |-> k, value |-> t[k]]
          BY <1>3, <1>7, <4>1, <5>1, NextOfLast DEF n, left
        <5>3. h.at = k /\ h.value = t[k]
          BY <1>2, <5>2
        <5> QED BY <1>2, <3>2, <4>1, <4>2, <5>3
      <4>4. CASE n + 2 - k # left
        <5>1. ~(n + 2 - k <= left)
          BY <1>4, <1>5, <3>2, <4>4
        <5>2. nv.recs[k] = t[k]
          BY <2>1, <3>2, <5>1
        <5>3. h.at # k
          <6>1. k # 0
            OBVIOUS
          <6> QED BY <1>4, <1>5, <2>3, <2>4, <4>1, <4>4, <6>1 DEF Header
        <5> QED BY <1>2, <3>2, <4>1, <4>2, <5>2, <5>3
      <4> QED BY <4>3, <4>4
    <3> QED BY <3>1, <3>2
  <2>6. IF left - 1 > 0 THEN writes'[left - 1] = [at |-> Header, value |-> n]
        ELSE nv'.numRecs = n
    <3>1. CASE left = 1
      BY <1>2, <2>3, <3>1
    <3>2. CASE left # 1
      <4>1. PICK i : i = left - 1
        OBVIOUS
      <4>2. i \in 1 .. left - 1 /\ i + 1 = left /\ left - 1 > 0
        BY <1>5, <3>2, <4>1
      <4>3. writes'[i] = writes[left]
        BY <1>5, <4>2
      <4> QED BY <2>1, <2>2, <4>1, <4>2, <4>3
    <3> QED BY <3>1, <3>2
  <2>7. Saved'
    BY <1>3, <1>5, <2>5, <2>6 DEF Saved, n, M, left
  <2> QED BY <2>7
<1>8. Unsaved \/ Saved
  BY DEF ScenesInv
<1> QED BY <1>6, <1>7, <1>8

LEMMA WriteKeepsResumed ==
    ASSUME ScenesInv, NEW h, WriteMade(h), NEW x \in Seq(Scenes), Restores(x)
    PROVE  Restores(x)'
<1> DEFINE t == zclGenSceneTable
           n == Len(t)
           M == ZCL_GEN_MAX_SCENES
           left == Len(writes)
           trim == writes' = << >> /\ ~Restoring
           v == Written(h)
           W == NVWrite(Scenes)
<1>1. SceneTypes
  BY DEF ScenesInv
<1>2. /\ h = writes[1] /\ h \in W
      /\ v.numRecs = IF h.at = Header THEN h.value ELSE nv.numRecs
      /\ \A k \in 1 .. M :
            /\ v.recs[k] = IF h.at = k THEN h.value ELSE nv.recs[k]
            /\ nv'.recs[k] = IF trim /\ k > v.numRecs THEN Unread ELSE v.recs[k]
  BY <1>1, WriteIs
<1>3. /\ writes' = Tail(writes) /\ writes # << >>
      /\ zclGenSceneTable' = t /\ restore' = restore
  BY DEF WriteMade
<1>4. M \in Nat /\ n \in Nat /\ writes \in Seq(W) /\ Len(x) \in Nat
  BY <1>1, ScenesAssumption DEF SceneTypes
<1> HIDE DEF v, W
<1>5. /\ left \in Nat \ {0} /\ Len(writes') = left - 1
      /\ \A i \in 1 .. left - 1 : writes'[i] = writes[i + 1]
      /\ writes' = << >> <=> left = 1
      /\ DOMAIN writes = 1 .. left /\ DOMAIN writes' = 1 .. left - 1
  BY <1>3, <1>4, TailIs
<1>6. /\ \A k \in 1 .. M : k <= Len(x) => nv.recs[k] = x[k]
      /\ \A k \in DOMAIN t : k <= Len(x) /\ t[k] = x[k]
      /\ \A i \in 1 .. left : writes[i].at # Header =>
            writes[i].at <= Len(x) /\ writes[i].value = x[writes[i].at]
      /\ IF Restoring THEN restore.numRecs = Len(x) ELSE n = AtMost(Len(x))
  BY <1>5 DEF Restores
<1>7. trim => \A k \in 1 .. M : k <= Len(x) => k <= v.numRecs
  <2> SUFFICES ASSUME trim, NEW k \in 1 .. M, k <= Len(x)
               PROVE  k <= v.numRecs
    OBVIOUS
  <2>1. Saved /\ left = 1
    BY <1>5 DEF ScenesInv, Unsaved
  <2>2. writes[1] = [at |-> Header, value |-> n]
    <3>1. left > 0
      BY <2>1
    <3> QED BY <2>1, <3>1 DEF Saved
  <2>3. h.at = Header /\ h.value = n
    BY <1>2, <2>2
  <2>4. n = AtMost(Len(x))
    BY <1>6
  <2>5. k <= n
    <3> HIDE DEF n
    <3> QED BY <1>4, <2>4 DEF AtMost
  <2> QED BY <1>2, <2>3, <2>5
<1> HIDE DEF M, n, left, t
<1>8. ASSUME NEW k \in 1 .. M, k <= Len(x)
      PROVE  nv'.recs[k] = x[k]
  <2>1. nv'.recs[k] = v.recs[k]
    <3>1. trim => v.numRecs \in Nat
      <4>1. h.at = Header => h.value \in Nat
        BY <1>2 DEF W, NVWrite, Header
      <4>2. nv.numRecs \in Nat
        BY <1>1 DEF SceneTypes, NVItem
      <4> QED BY <1>2, <4>1, <4>2
    <3>2. trim => k <= v.numRecs
      BY <1>7, <1>8
    <3>3. trim => ~(k > v.numRecs)
      BY <1>4, <3>1, <3>2
    <3> QED BY <1>2, <3>3
  <2>2. h.at = k => h.value = x[k]
    <3>1. k # Header /\ 1 \in 1 .. left
      BY <1>4, <1>5 DEF Header
    <3> QED BY <1>2, <1>6, <3>1
  <2> QED BY <1>2, <1>6, <1>8, <2>1, <2>2
<1>9. ASSUME NEW i \in 1 .. left - 1, writes'[i].at # Header
      PROVE  writes'[i].at <= Len(x) /\ writes'[i].value = x[writes'[i].at]
  <2>1. i + 1 \in 1 .. left
    BY <1>5
  <2>2. writes'[i] = writes[i + 1]
    BY <1>5
  <2> QED BY <1>6, <1>9, <2>1, <2>2
<1>10. Restoring' <=> Restoring
  BY <1>3 DEF Restoring
<1>11. \A k \in DOMAIN zclGenSceneTable' :
           k <= Len(x) /\ zclGenSceneTable'[k] = x[k]
  BY <1>3, <1>6
<1>12. IF Restoring' THEN restore'.numRecs = Len(x)
       ELSE Len(zclGenSceneTable') = AtMost(Len(x))
  BY <1>3, <1>6, <1>10 DEF n
<1>13. \A i \in DOMAIN writes' : writes'[i].at # Header =>
           writes'[i].at <= Len(x) /\ writes'[i].value = x[writes'[i].at]
  BY <1>5, <1>9
<1> QED BY <1>8, <1>11, <1>12, <1>13 DEF Restores, M, AtMost

LEMMA WriteKeepsUndecided ==
    ASSUME ScenesInv, NEW h, WriteMade(h)
    PROVE  Undecided'
<1> DEFINE t == zclGenSceneTable
           n == Len(t)
           M == ZCL_GEN_MAX_SCENES
           left == Len(writes)
           trim == writes' = << >> /\ ~Restoring
           v == Written(h)
           W == NVWrite(Scenes)
           old == crash.old
<1>1. SceneTypes
  BY DEF ScenesInv
<1>2. /\ h = writes[1] /\ nv'.numRecs = v.numRecs
      /\ v.numRecs = IF h.at = Header THEN h.value ELSE nv.numRecs
      /\ \A k \in 1 .. M :
            /\ v.recs[k] = IF h.at = k THEN h.value ELSE nv.recs[k]
            /\ nv'.recs[k] = IF trim /\ k > v.numRecs THEN Unread ELSE v.recs[k]
  BY <1>1, WriteIs
<1>3. /\ writes' = Tail(writes) /\ writes # << >>
      /\ zclGenSceneTable' = t /\ restore' = restore /\ crash' = crash
  BY DEF WriteMade
<1>4. M \in Nat /\ n \in Nat /\ writes \in Seq(W) /\ Len(old) \in Nat
  BY <1>1, ScenesAssumption DEF SceneTypes
<1> HIDE DEF v, W, M
<1>5. /\ left \in Nat \ {0} /\ Len(writes') = left - 1
      /\ writes' = << >> <=> left = 1
  BY <1>3, <1>4, TailIs
<1>6. SUFFICES ASSUME crash.kind = "none", Whole
               PROVE  /\ OneChange(old, crash.new)
                      /\ writes' # << >> =>
                            /\ nv'.numRecs = Len(old)
                            /\ Len(writes') <= Len(crash.new) + 1
                            /\ \A k \in 1 .. M :
                                  /\ k <= Len(old)
                                  /\ Len(crash.new) + 1 - Len(writes') < k
                                  => nv'.recs[k] = old[k]
  BY <1>3 DEF Undecided, Whole, M
<1>7. /\ OneChange(old, crash.new) /\ nv.numRecs = Len(old)
      /\ left <= Len(crash.new) + 1
      /\ \A k \in 1 .. M : /\ k <= Len(old) /\ Len(crash.new) + 1 - left < k
                           => nv.recs[k] = old[k]
  BY <1>3, <1>6 DEF ScenesInv, Undecided, M
<1>8. crash.new = t /\ ~Restoring
  BY <1>6 DEF ScenesInv, Reading
<1>9. Saved
  BY <1>8 DEF ScenesInv, Unsaved
<1>10. ASSUME writes' # << >>
       PROVE  /\ nv'.numRecs = Len(old)
              /\ Len(writes') <= n + 1
              /\ \A k \in 1 .. M : k <= Len(old) /\ n + 1 - Len(writes') < k
                                   => nv'.recs[k] = old[k]
  <2>1. left # 1 /\ left <= n + 1
    BY <1>5, <1>7, <1>8, <1>10
  <2>2. PICK d : d = n + 2 - left
    OBVIOUS
  <2>3. h = [at |-> d, value |-> t[d]] /\ d \in 1 .. n
    <3>1. h = [at |-> n + 2 - left, value |-> t[n + 2 - left]]
          /\ n + 2 - left \in 1 .. n
      BY <1>2, <1>3, <1>9, <2>1, NextOfLast
    <3> QED BY <2>2, <3>1
  <2> HIDE DEF n, left, t, old
  <2>4. h.at = d /\ d # Header
    BY <1>4, <2>3 DEF Header
  <2>5. ~trim
    BY <1>10
  <2>6. nv'.numRecs = Len(old)
    BY <1>2, <1>7, <2>4
  <2>7. Len(writes') <= n + 1
    BY <1>4, <1>5, <2>1
  <2>8. ASSUME NEW k \in 1 .. M, k <= Len(old), n + 1 - Len(writes') < k
        PROVE  nv'.recs[k] = old[k]
    <3>1. n + 2 - left < k
      BY <1>4, <1>5, <2>8
    <3>2. k # d /\ n + 1 - left < k
      BY <1>4, <1>5, <2>2, <3>1
    <3> QED BY <1>2, <1>7, <1>8, <2>4, <2>5, <2>8, <3>2 DEF n
  <2> QED BY <2>6, <2>7, <2>8
<1> HIDE DEF left
<1> QED BY <1>7, <1>8, <1>10

LEMMA WriteKeeps ==
    ASSUME ScenesInv, UNCHANGED crash, WriteNV
    PROVE  ScenesInv'
<1> DEFINE h == Head(writes)
<1>1. WriteMade(h)
  BY DEF WriteNV, WriteMade
<1> HIDE DEF h
<1>2. /\ UNCHANGED <<zclGenSceneTable, leaving, restore, crash>>
  BY <1>1 DEF WriteMade
<1>3. SceneTypes' /\ InGroups' /\ Counted' /\ NoneBehind' /\ (Unsaved \/ Saved)'
      /\ Undecided'
  BY <1>1, WriteKeepsRecords, WriteKeepsSaved, WriteKeepsUndecided
<1>4. Emptied' /\ Reading'
  BY <1>2 DEF ScenesInv, Emptied, Reading, Restoring, AtMost
<1>5. Resumed'
  <2>1. crash.old \in Seq(Scenes) /\ crash.new \in Seq(Scenes)
    BY DEF ScenesInv, SceneTypes
  <2>2. /\ crash.kind = "idle" => Restores(crash.new)
        /\ crash.kind = "handling" /\ Whole =>
              Restores(crash.old) \/ Restores(crash.new)
    BY DEF ScenesInv, Resumed
  <2>3. \A x \in Seq(Scenes) : Restores(x) => Restores(x)'
    BY <1>1, WriteKeepsResumed
  <2>4. crash'.kind = "idle" => Restores(crash.new)'
    BY <1>2, <2>1, <2>2, <2>3
  <2>5. crash'.kind = "handling" /\ Whole' =>
            Restores(crash.old)' \/ Restores(crash.new)'
    BY <1>2, <2>1, <2>2, <2>3 DEF Whole
  <2> QED BY <1>2, <2>4, <2>5 DEF Resumed
<1> QED BY <1>3, <1>4, <1>5 DEF ScenesInv

--------------------------------------------------------------------------------
(* The groups are left.                                                      *)
LEMMA LeavingKeeps ==
    ASSUME ScenesInv, UNCHANGED crash, LeaveGroups
    PROVE  ScenesInv'
<1> DEFINE t == zclGenSceneTable
           S == Scenes
<1>1. /\ writes = << >> /\ leaving # {}
      /\ groups' = groups \ leaving /\ leaving' = {}
      /\ UNCHANGED <<zclGenSceneTable, nv, writes, restore, crash>>
  BY DEF LeaveGroups
<1>2. /\ ~Restoring
      /\ \A k \in DOMAIN t : t[k].groupID \in leaving => t[k].groupID = NoGroup
  BY <1>1 DEF ScenesInv, Emptied
<1>3. /\ TableGood
      /\ \A k \in 1 .. ZCL_GEN_MAX_SCENES :
            nv.recs[k] = Unread \/ nv.recs[k] \in Range(t)
  BY <1>1, <1>2, WrittenOut
<1>4. t \in Seq(Range(t)) /\ IsFiniteSet(groups)
  BY <1>3 DEF TableGood
<1>5. \A s \in Range(t) : s.groupID = NoGroup \/ s.groupID \in groups'
  <2> TAKE s \in Range(t)
  <2>1. Valid(s.groupID)
    BY <1>3 DEF TableGood, Good
  <2>2. s.groupID \in leaving => s.groupID = NoGroup
    BY <1>2 DEF Range
  <2> QED BY <1>1, <2>1, <2>2 DEF Valid, GroupExists
<1>6. SceneTypes'
  <2>1. IsFiniteSet(groups')
    BY <1>1, <1>4, FS_Subset
  <2> QED BY <1>1, <2>1 DEF ScenesInv, SceneTypes, Scenes
<1>7. InGroups'
  <2>1. \A k \in DOMAIN t : t[k] \in Range(t)
    BY DEF Range
  <2>2. DOMAIN nv.recs = 1 .. ZCL_GEN_MAX_SCENES
    BY DEF ScenesInv, SceneTypes, NVItem
  <2>3. DOMAIN writes' = {}
    BY <1>1
  <2> HIDE DEF t
  <2>4. \A k \in DOMAIN t : t[k].groupID = NoGroup \/ t[k].groupID \in groups'
    BY <1>5, <2>1
  <2>5. \A k \in DOMAIN nv.recs : nv.recs[k] # Unread =>
            nv.recs[k].groupID = NoGroup \/ nv.recs[k].groupID \in groups'
    BY <1>3, <1>5, <2>2
  <2> QED BY <1>1, <2>3, <2>4, <2>5 DEF InGroups, Valid, GroupExists, t
<1>8. Restoring' <=> Restoring
  BY <1>1 DEF Restoring
<1>9. Counted' /\ (Unsaved \/ Saved)' /\ NoneBehind'
  <2>1. Counted'
    BY <1>1 DEF ScenesInv, Counted
  <2>2. (Unsaved \/ Saved)'
    BY <1>1, <1>8 DEF ScenesInv, Unsaved, Saved
  <2>3. NoneBehind'
    BY <1>1, <1>8 DEF ScenesInv, NoneBehind
  <2> QED BY <2>1, <2>2, <2>3
<1>10. Emptied' /\ Reading'
  BY <1>1, <1>8 DEF ScenesInv, Emptied, Reading, AtMost
<1>11. Undecided'
  BY <1>1 DEF ScenesInv, Undecided, Whole
<1>12. Resumed'
  BY <1>1, <1>8 DEF ScenesInv, Resumed, Restores, Whole, AtMost
<1> QED BY <1>6, <1>7, <1>9, <1>10, <1>11, <1>12 DEF ScenesInv

--------------------------------------------------------------------------------
(* A scene is read again.                                                    *)
LEMMA ReadBehind ==
    ASSUME ScenesInv, UNCHANGED crash, zclGeneral_ScenesRestoreFromNV,
           restore.next \notin DOMAIN nv.recs
    PROVE  ScenesInv'
<1> DEFINE t == zclGenSceneTable
           i == restore.next
           M == ZCL_GEN_MAX_SCENES
<1>1. /\ writes = << >> /\ Restoring
      /\ restore' = IF i = restore.numRecs THEN NoRestore
                    ELSE [restore EXCEPT !.next = @ + 1]
      /\ UNCHANGED <<groups, nv, leaving, crash>>
  BY DEF zclGeneral_ScenesRestoreFromNV
<1>2. Restored(Now) = Now
  BY DEF Restored
<1>3. zclGenSceneTable' = t
  BY <1>2 DEF zclGeneral_ScenesRestoreFromNV, Now, Work
<1>4. writes' = << >>
  <2>1. writes' = AllWrites(<< >>)
    BY <1>2 DEF zclGeneral_ScenesRestoreFromNV, AllWrites, Now, Work
  <2> QED BY <2>1, NothingSaved
<1>5. /\ i \in Nat \ {0} /\ restore.numRecs \in Nat /\ M \in Nat \ {0}
      /\ i \notin 1 .. M /\ Len(t) \in Nat
      /\ restore = [next |-> i, numRecs |-> restore.numRecs]
  BY ScenesAssumption DEF ScenesInv, SceneTypes, NVItem
<1>6. i <= restore.numRecs
  BY <1>1 DEF Restoring
<1>7. i > M
  BY <1>5
<1>8. Len(t) = M /\ crash.kind # "none"
  <2>1. Len(t) = AtMost(i - 1) /\ crash.kind # "none"
    BY <1>1 DEF ScenesInv, Reading
  <2>2. AtMost(i - 1) = M
    <3>1. i - 1 >= M
      BY <1>5, <1>7
    <3> QED BY <1>5, <3>1 DEF AtMost
  <2> QED BY <2>1, <2>2
<1> HIDE DEF t, M
<1>9. /\ i = restore.numRecs => restore' = [next |-> 1, numRecs |-> 0]
      /\ i # restore.numRecs =>
             restore' = [next |-> i + 1, numRecs |-> restore.numRecs]
  <2>1. PICK a, b : restore = [next |-> a, numRecs |-> b]
    BY <1>5
  <2> QED BY <1>1, <2>1 DEF NoRestore
<1> DEFINE n == restore.numRecs
<1>10. /\ i = n => restore'.next = 1 /\ restore'.numRecs = 0
       /\ i # n => restore'.next = i + 1 /\ restore'.numRecs = n
       /\ restore' \in [next : Nat \ {0}, numRecs : Nat]
  <2> HIDE DEF i
  <2>1. CASE i = n
    BY <1>9, <2>1
  <2>2. CASE i # n
    <3>1. i + 1 \in Nat \ {0} /\ n \in Nat
      BY <1>5
    <3> HIDE DEF n
    <3> QED BY <1>9, <2>2, <3>1 DEF n
  <2> QED BY <2>1, <2>2
<1> HIDE DEF i, n
<1>11. Restoring' <=> i # n
  BY <1>5, <1>6, <1>10 DEF Restoring, n
<1>12. SceneTypes' /\ InGroups'
  <2>1. SceneTypes'
    BY <1>1, <1>3, <1>4, <1>10 DEF ScenesInv, SceneTypes, Scenes, t
  <2>2. InGroups'
    BY <1>1, <1>3, <1>4 DEF ScenesInv, InGroups, Valid, GroupExists, t
  <2> QED BY <2>1, <2>2
<1>13. Counted'
  <2>1. DOMAIN writes' = {}
    BY <1>4
  <2>2. \A k \in 1 .. M : k <= nv.numRecs => nv.recs[k] # Unread
    BY DEF ScenesInv, Counted, M
  <2>3. \A k \in 1 .. M : ~(restore'.next <= k /\ k <= restore'.numRecs)
    BY <1>5, <1>7, <1>10
  <2> QED BY <1>1, <2>1, <2>2, <2>3 DEF Counted, M
<1>14. Saved
  <2>1. i # 1
    BY <1>5, <1>7
  <2> QED BY <2>1 DEF ScenesInv, Unsaved, i
<1>15. (Unsaved \/ Saved)'
  BY <1>1, <1>3, <1>4, <1>14 DEF Saved, t
<1>16. NoneBehind'
  <2>1. nv.numRecs = Len(t) /\ Len(writes) = 0
    BY <1>1, <1>14 DEF Saved, t
  <2>2. \A k \in 1 .. M : ~(k > nv'.numRecs)
    BY <1>1, <1>5, <1>8, <2>1
  <2> QED BY <2>2 DEF NoneBehind, M
<1>17. Emptied' /\ Undecided'
  <2>1. leaving' = {}
    BY <1>1 DEF ScenesInv, Emptied
  <2> QED BY <1>1, <1>8, <2>1 DEF Emptied, Undecided
<1>18. Reading'
  <2>1. Restoring' => Len(t) = AtMost(restore'.next - 1)
    <3>1. Restoring' => restore'.next - 1 = i
      BY <1>5, <1>10, <1>11
    <3> QED BY <1>5, <1>7, <1>8, <3>1 DEF AtMost, M
  <2> QED BY <1>1, <1>3, <1>8, <2>1 DEF Reading, AtMost
<1>19. ASSUME NEW x \in Seq(Scenes), Restores(x)
       PROVE  Restores(x)'
  <2>1. n = Len(x) /\ \A k \in 1 .. M : k <= Len(x) => nv.recs[k] = x[k]
    BY <1>1, <1>19 DEF Restores, n, M
  <2>2. \A k \in DOMAIN t : k <= Len(x) /\ t[k] = x[k]
    BY <1>19 DEF Restores, t
  <2>3. IF Restoring' THEN restore'.numRecs = Len(x) ELSE Len(t) = AtMost(Len(x))
    <3>1. i = n => AtMost(Len(x)) = M
      BY <1>5, <1>7, <2>1 DEF AtMost, M
    <3> QED BY <1>8, <1>10, <1>11, <2>1, <3>1
  <2>4. DOMAIN writes' = {}
    BY <1>4
  <2> QED BY <1>1, <1>3, <2>1, <2>2, <2>3, <2>4 DEF Restores, AtMost, M
<1>20. Resumed'
  <2>1. crash.old \in Seq(Scenes) /\ crash.new \in Seq(Scenes)
    BY DEF ScenesInv, SceneTypes
  <2>2. /\ crash.kind = "idle" => Restores(crash.new)
        /\ crash.kind = "handling" /\ Whole =>
              Restores(crash.old) \/ Restores(crash.new)
    BY DEF ScenesInv, Resumed
  <2>3. crash'.kind = "idle" => Restores(crash.new)'
    BY <1>1, <1>19, <2>1, <2>2
  <2>4. crash'.kind = "handling" /\ Whole' =>
            Restores(crash.old)' \/ Restores(crash.new)'
    BY <1>1, <1>19, <2>1, <2>2 DEF Whole
  <2> QED BY <2>3, <2>4 DEF Resumed
<1> QED BY <1>12, <1>13, <1>15, <1>16, <1>17, <1>18, <1>20 DEF ScenesInv

LEMMA OneSaveWrites ==
    ASSUME NEW S, NEW table \in Seq(S)
    PROVE  LET ws == AllWrites(<<table>>)
               n == Len(table)
           IN /\ ws \in Seq(NVWrite(S)) /\ Len(ws) = n + 1
              /\ Ordered(ws) /\ Ends(ws, table)
              /\ \A k \in 1 .. n : ws[k] = [at |-> k, value |-> table[k]]
              /\ ws[n + 1] = [at |-> Header, value |-> n]
<1> DEFINE ws == AllWrites(<<table>>)
           n == Len(table)
           X == Seq(S)
           W == NVWrite(S)
<1>1. <<table>> \in Seq(X) /\ <<table>> # << >> /\ Len(<<table>>) = 1
      /\ <<table>>[1] = table /\ n \in Nat
  OBVIOUS
<1>2. /\ ws \in Seq(W) /\ Ordered(ws) /\ Ends(ws, table) /\ Len(ws) = n + 1
  <2>1. PICK saves : saves = <<table>>
    OBVIOUS
  <2>2. saves \in Seq(Seq(S)) /\ saves # << >> /\ Len(saves) = 1
        /\ saves[1] = table
    BY <1>1, <2>1
  <2> HIDE DEF W, n
  <2>3. /\ AllWrites(saves) \in Seq(NVWrite(S))
        /\ Ordered(AllWrites(saves))
        /\ Ends(AllWrites(saves), saves[Len(saves)])
        /\ Len(saves) = 1 => Len(AllWrites(saves)) = Len(saves[1]) + 1
    BY <2>2, SavesWritten
  <2> QED BY <2>1, <2>2, <2>3 DEF W, n
<1> HIDE DEF ws, n
<1>3. /\ ws[Len(ws)] = [at |-> Header, value |-> n]
      /\ \A k \in 1 .. n : ws[Len(ws) - (n + 1 - k)] =
                            [at |-> k, value |-> table[k]]
  BY <1>2 DEF Ends, n
<1>4. \A k \in 1 .. n : ws[k] = [at |-> k, value |-> table[k]]
  <2> TAKE k \in 1 .. n
  <2>1. Len(ws) - (n + 1 - k) = k
    BY <1>1, <1>2
  <2> QED BY <1>3, <2>1
<1>5. ws[n + 1] = [at |-> Header, value |-> n]
  BY <1>2, <1>3
<1> QED BY <1>2, <1>3, <1>4, <1>5 DEF ws, n

LEMMA ReadNext ==
    ASSUME ScenesInv, UNCHANGED crash, zclGeneral_ScenesRestoreFromNV,
           restore.next \in DOMAIN nv.recs
    PROVE  ScenesInv'
<1> DEFINE t == zclGenSceneTable
           i == restore.next
           n == restore.numRecs
           M == ZCL_GEN_MAX_SCENES
           S == Scenes
           W == NVWrite(S)
           e == nv.recs[i]
           x == Append(t, e)
           ws == AllWrites(<<x>>)
<1>1. /\ writes = << >> /\ Restoring
      /\ restore' = IF i = n THEN NoRestore
                    ELSE [restore EXCEPT !.next = @ + 1]
      /\ UNCHANGED <<groups, nv, leaving, crash>>
  BY DEF zclGeneral_ScenesRestoreFromNV
<1>2. Restored(Now) = Work(x, <<x>>)
  <2>1. Append(<< >>, x) = <<x>>
    OBVIOUS
  <2> HIDE DEF x
  <2>2. Restored(Now) = zclGeneral_AddScene(Now, e)
    BY DEF Restored
  <2> QED BY <2>1, <2>2 DEF zclGeneral_AddScene, zclGeneral_ScenesSave, Now, Work, x
<1>3. zclGenSceneTable' = x /\ writes' = ws
  <2> HIDE DEF x
  <2> QED BY <1>2 DEF zclGeneral_ScenesRestoreFromNV, AllWrites, Work
<1>4. /\ i \in Nat \ {0} /\ n \in Nat /\ M \in Nat \ {0}
      /\ i \in 1 .. M /\ Len(t) \in Nat
      /\ restore = [next |-> i, numRecs |-> n]
      /\ t \in Seq(S) /\ \A s \in S : IsScene(s) /\ s # Unread
      /\ nv.recs \in [1 .. M -> S \cup {Unread}]
  BY ScenesAssumption, SceneIsRead DEF ScenesInv, SceneTypes, NVItem
<1>5. i <= n
  BY <1>1 DEF Restoring
<1>6. Len(t) = i - 1 /\ crash.kind # "none"
  <2>1. Len(t) = AtMost(i - 1) /\ crash.kind # "none"
    BY <1>1 DEF ScenesInv, Reading
  <2>2. i - 1 <= M
    BY <1>4
  <2> QED BY <2>1, <2>2 DEF AtMost
<1> HIDE DEF S, W, ws, x, t, M
<1>7. /\ i = n => restore' = [next |-> 1, numRecs |-> 0]
      /\ i # n => restore' = [next |-> i + 1, numRecs |-> n]
  <2>1. PICK a, b : restore = [next |-> a, numRecs |-> b]
    BY <1>4
  <2> QED BY <1>1, <2>1 DEF NoRestore
<1>8. e \in S /\ e # Unread /\ Valid(e.groupID)
  <2>1. e # Unread
    BY <1>4, <1>5 DEF ScenesInv, Counted, M
  <2>2. Valid(e.groupID)
    BY <1>4, <2>1 DEF ScenesInv, InGroups
  <2> QED BY <1>4, <2>1, <2>2
<1> HIDE DEF e
<1>9. /\ x \in Seq(S) /\ Len(x) = i /\ x[i] = e
      /\ \A k \in 1 .. i - 1 : x[k] = t[k]
  <2>1. /\ Append(t, e) \in Seq(S) /\ Len(Append(t, e)) = Len(t) + 1
        /\ \A k \in 1 .. Len(t) : Append(t, e)[k] = t[k]
        /\ Append(t, e)[Len(t) + 1] = e
    BY <1>4, <1>8, AppendProperties
  <2>2. Len(t) + 1 = i
    BY <1>4, <1>6
  <2> QED BY <1>6, <2>1, <2>2 DEF x
<1>10. /\ ws \in Seq(W) /\ Len(ws) = i + 1 /\ Ordered(ws) /\ Ends(ws, x)
       /\ \A k \in 1 .. i : ws[k] = [at |-> k, value |-> x[k]]
       /\ ws[i + 1] = [at |-> Header, value |-> i]
  BY <1>9, OneSaveWrites DEF ws, W
<1>11. restore' \in [next : Nat \ {0}, numRecs : Nat]
       /\ (i = n => restore'.next = 1 /\ restore'.numRecs = 0)
       /\ (i # n => restore'.next = i + 1 /\ restore'.numRecs = n)
  <2>1. PICK a, b : a = i /\ b = n
    OBVIOUS
  <2>2. a + 1 \in Nat \ {0} /\ b \in Nat
    BY <1>4, <2>1
  <2>3. /\ a = b => restore' = [next |-> 1, numRecs |-> 0]
        /\ a # b => restore' = [next |-> a + 1, numRecs |-> b]
    BY <1>7, <2>1
  <2> HIDE DEF i, n
  <2> QED BY <2>1, <2>2, <2>3
<1> HIDE DEF i, n
<1>12. Restoring' <=> i # n
  BY <1>4, <1>5, <1>11 DEF Restoring
<1>13. DOMAIN ws = 1 .. i + 1 /\ DOMAIN x = 1 .. i
  BY <1>4, <1>9, <1>10
<1>14. \A k \in 1 .. i : x[k] \in S /\ Valid(x[k].groupID)
  <2> TAKE k \in 1 .. i
  <2>1. x[k] \in S
    BY <1>9
  <2>2. CASE k = i
    BY <1>8, <1>9, <2>2
  <2>3. CASE k # i
    <3>1. k \in 1 .. i - 1 /\ k \in DOMAIN t
      BY <1>4, <1>6, <2>3
    <3>2. Valid(t[k].groupID)
      BY <3>1 DEF ScenesInv, InGroups, t
    <3> QED BY <1>9, <2>1, <3>1, <3>2
  <2> QED BY <2>1, <2>2, <2>3
<1>15. \A j \in 1 .. i + 1 : ws[j].at # Header =>
           j \in 1 .. i /\ ws[j].at = j /\ ws[j].value = x[j]
  <2> TAKE j \in 1 .. i + 1
  <2>1. j \in 1 .. i \/ j = i + 1
    BY <1>4
  <2>2. CASE j = i + 1
    <3>1. ws[j] = [at |-> Header, value |-> i]
      BY <1>10, <2>2
    <3> QED BY <3>1
  <2>3. CASE j \in 1 .. i
    <3>1. ws[j] = [at |-> j, value |-> x[j]]
      BY <1>10, <2>3
    <3> QED BY <2>3, <3>1
  <2> QED BY <2>1, <2>2, <2>3
<1>16. SceneTypes'
  <2>1. Scenes' = S
    BY <1>1 DEF Scenes, S
  <2> QED BY <1>1, <1>3, <1>9, <1>10, <1>11, <2>1
          DEF ScenesInv, SceneTypes, S, W
<1>17. InGroups'
  <2>1. \A k \in DOMAIN x : Valid(x[k].groupID)
    BY <1>13, <1>14
  <2>2. \A j \in DOMAIN ws : ws[j].at # Header => Valid(ws[j].value.groupID)
    BY <1>13, <1>14, <1>15
  <2>3. \A k \in DOMAIN nv.recs : nv.recs[k] # Unread =>
            Valid(nv.recs[k].groupID)
    BY DEF ScenesInv, InGroups
  <2> QED BY <1>1, <1>3, <2>1, <2>2, <2>3 DEF InGroups, Valid, GroupExists
<1>18. Counted'
  <2>1. \A k \in 1 .. M :
            k <= nv.numRecs \/ (i <= k /\ k <= n) => nv.recs[k] # Unread
    BY DEF ScenesInv, Counted, M, i, n
  <2>2. \A k \in 1 .. M :
            k <= nv'.numRecs \/ (restore'.next <= k /\ k <= restore'.numRecs) =>
                nv'.recs[k] # Unread
    <3> TAKE k \in 1 .. M
    <3>1. restore'.next <= k /\ k <= restore'.numRecs => i <= k /\ k <= n
      BY <1>4, <1>11
    <3> QED BY <1>1, <2>1, <3>1
  <2>3. \A j \in DOMAIN writes' : writes'[j].at = Header =>
            \A k \in 1 .. M : k <= writes'[j].value =>
                \E d \in 1 .. j - 1 : writes'[d].at = k
    <3> SUFFICES ASSUME NEW j \in 1 .. i + 1, ws[j].at = Header,
                        NEW k \in 1 .. M, k <= ws[j].value
                 PROVE  \E d \in 1 .. j - 1 : ws[d].at = k
      BY <1>3, <1>13
    <3>1. j = i + 1
      <4>1. j \in 1 .. i => ws[j] = [at |-> j, value |-> x[j]]
        BY <1>10
      <4>2. j \in 1 .. i => ws[j].at = j /\ j # Header
        BY <4>1 DEF Header
      <4> QED BY <1>4, <4>2
    <3>2. ws[j].value = i
      BY <1>10, <3>1
    <3>3. k \in 1 .. i /\ k \in 1 .. j - 1
      BY <1>4, <3>1, <3>2
    <3>4. ws[k] = [at |-> k, value |-> x[k]]
      BY <1>10, <3>3
    <3>5. ws[k].at = k
      BY <3>4
    <3> QED BY <3>3, <3>5
  <2> QED BY <2>2, <2>3 DEF Counted, M
<1>19. (Unsaved \/ Saved)'
  <2>1. \A k \in 1 .. i : /\ i + 2 - k <= i + 1
                          /\ i + 1 - (i + 1 - k) = k
    BY <1>4
  <2>2. i + 1 > 0
    BY <1>4
  <2> QED BY <1>3, <1>9, <1>10, <2>1, <2>2 DEF Saved
<1>20. NoneBehind' /\ Emptied' /\ Undecided'
  <2>1. writes' # << >>
    BY <1>3, <1>4, <1>10
  <2>2. leaving' = {}
    BY <1>1 DEF ScenesInv, Emptied
  <2> QED BY <1>1, <1>6, <2>1, <2>2 DEF NoneBehind, Emptied, Undecided
<1>21. Reading'
  <2>1. Restoring' => i = AtMost(restore'.next - 1)
    <3>1. Restoring' => restore'.next - 1 = i
      BY <1>4, <1>11, <1>12
    <3>2. i <= M
      BY <1>4
    <3> QED BY <3>1, <3>2 DEF AtMost, M
  <2> QED BY <1>1, <1>3, <1>6, <1>9, <2>1 DEF Reading, AtMost
<1>22. ASSUME NEW y \in Seq(Scenes), Restores(y)
       PROVE  Restores(y)'
  <2>1. n = Len(y) /\ \A k \in 1 .. M : k <= Len(y) => nv.recs[k] = y[k]
    BY <1>1, <1>22 DEF Restores, n, M
  <2>2. \A k \in 1 .. i : k <= Len(y) /\ x[k] = y[k]
    <3> TAKE k \in 1 .. i
    <3>1. k <= Len(y)
      BY <1>4, <1>5, <2>1
    <3>2. CASE k = i
      <4>1. k \in 1 .. M /\ e = nv.recs[k]
        BY <1>4, <3>2 DEF e, i
      <4> QED BY <1>9, <2>1, <3>1, <3>2, <4>1
    <3>3. CASE k # i
      <4>1. k \in 1 .. i - 1 /\ k \in DOMAIN t
        BY <1>4, <1>6, <3>3
      <4>2. t[k] = y[k]
        BY <1>22, <4>1 DEF Restores, t
      <4> QED BY <1>9, <3>1, <4>1, <4>2
    <3> QED BY <3>2, <3>3
  <2>3. IF Restoring' THEN restore'.numRecs = Len(y) ELSE i = AtMost(Len(y))
    <3>1. i = n => AtMost(Len(y)) = i
      BY <1>4, <2>1 DEF AtMost, M
    <3> QED BY <1>11, <1>12, <2>1, <3>1
  <2>4. \A j \in DOMAIN ws : ws[j].at # Header =>
            ws[j].at <= Len(y) /\ ws[j].value = y[ws[j].at]
    BY <1>13, <1>15, <2>2
  <2> QED BY <1>1, <1>3, <1>9, <1>13, <2>1, <2>2, <2>3, <2>4
          DEF Restores, AtMost, M
<1>23. Resumed'
  <2>1. crash.old \in Seq(Scenes) /\ crash.new \in Seq(Scenes)
    BY DEF ScenesInv, SceneTypes
  <2>2. /\ crash.kind = "idle" => Restores(crash.new)
        /\ crash.kind = "handling" /\ Whole =>
              Restores(crash.old) \/ Restores(crash.new)
    BY DEF ScenesInv, Resumed
  <2>3. crash'.kind = "idle" => Restores(crash.new)'
    BY <1>1, <1>22, <2>1, <2>2
  <2>4. crash'.kind = "handling" /\ Whole' =>
            Restores(crash.old)' \/ Restores(crash.new)'
    BY <1>1, <1>22, <2>1, <2>2 DEF Whole
  <2> QED BY <2>3, <2>4 DEF Resumed
<1> QED BY <1>16, <1>17, <1>18, <1>19, <1>20, <1>21, <1>23 DEF ScenesInv

--------------------------------------------------------------------------------
(* The power fails.                                                          *)
LEMMA RestartIs ==
    ASSUME SceneTypes, Restart
    PROVE  /\ zclGenSceneTable' = << >> /\ writes' = << >> /\ leaving' = {}
           /\ UNCHANGED groups
           /\ restore' \in [next : Nat \ {0}, numRecs : Nat]
           /\ restore'.next = 1 /\ restore'.numRecs = nv.numRecs
           /\ nv' \in NVItem(Scenes) /\ nv'.numRecs = nv.numRecs
           /\ \A k \in 1 .. ZCL_GEN_MAX_SCENES :
                 nv'.recs[k] = IF k > nv.numRecs THEN Unread ELSE nv.recs[k]
<1> DEFINE M == ZCL_GEN_MAX_SCENES
           S == Scenes
           recs == [k \in 1 .. M |-> IF k > nv.numRecs THEN Unread
                                     ELSE nv.recs[k]]
<1>1. /\ nv = [numRecs |-> nv.numRecs, recs |-> nv.recs]
      /\ nv.numRecs \in Nat
      /\ nv.recs \in [1 .. M -> S \cup {Unread}]
  BY DEF SceneTypes, NVItem
<1> HIDE DEF S
<1>2. nv' = [numRecs |-> nv.numRecs, recs |-> recs]
  <2>1. DOMAIN nv.recs = 1 .. M
    BY <1>1
  <2>2. nv' = [nv EXCEPT !.recs = recs]
    BY <2>1 DEF Trimmed, Restart
  <2>3. PICK a, b : nv = [numRecs |-> a, recs |-> b]
    BY <1>1
  <2> HIDE DEF recs
  <2> QED BY <2>2, <2>3
<1>3. recs \in [1 .. M -> S \cup {Unread}]
  BY <1>1
<1>4. \A k \in 1 .. M :
          recs[k] = IF k > nv.numRecs THEN Unread ELSE nv.recs[k]
  OBVIOUS
<1> HIDE DEF recs
<1>5. nv' \in NVItem(S) /\ nv'.numRecs = nv.numRecs /\ nv'.recs = recs
  BY <1>1, <1>2, <1>3 DEF NVItem
<1>6. /\ restore' \in [next : Nat \ {0}, numRecs : Nat]
      /\ restore'.next = 1 /\ restore'.numRecs = nv.numRecs
  <2>1. PICK n : n = nv.numRecs
    OBVIOUS
  <2>2. restore' = [next |-> 1, numRecs |-> n]
    BY <2>1 DEF Restart
  <2> QED BY <1>1, <2>1, <2>2
<1> QED BY <1>4, <1>5, <1>6 DEF Restart, S

\* What is stored as x is restored as x.
Stored(x) ==
    /\ nv.numRecs = Len(x)
    /\ \A k \in 1 .. ZCL_GEN_MAX_SCENES : k <= Len(x) => nv.recs[k] = x[k]
LEMMA StoredIsRestored ==
    ASSUME ScenesInv, Restart, NEW S, NEW x \in Seq(S), Stored(x)
    PROVE  /\ \A k \in 1 .. ZCL_GEN_MAX_SCENES :
                  k <= Len(x) => nv'.recs[k] = x[k]
           /\ IF Restoring' THEN restore'.numRecs = Len(x)
              ELSE 0 = AtMost(Len(x))
<1>1. /\ restore'.next = 1 /\ restore'.numRecs = nv.numRecs
      /\ \A k \in 1 .. ZCL_GEN_MAX_SCENES :
            nv'.recs[k] = IF k > nv.numRecs THEN Unread ELSE nv.recs[k]
  BY RestartIs DEF ScenesInv
<1>2. Len(x) \in Nat /\ ZCL_GEN_MAX_SCENES \in Nat \ {0}
  BY ScenesAssumption
<1>3. Restoring' <=> 1 <= Len(x)
  BY <1>1 DEF Restoring, Stored
<1>4. AtMost(0) = 0
  BY <1>2 DEF AtMost
<1>5. Len(x) = 0 \/ 1 <= Len(x)
  BY <1>2
<1>6. ASSUME NEW k \in 1 .. ZCL_GEN_MAX_SCENES, k <= Len(x)
      PROVE  nv'.recs[k] = x[k]
  <2>1. ~(k > nv.numRecs)
    BY <1>2, <1>6 DEF Stored
  <2> QED BY <1>1, <1>6, <2>1 DEF Stored
<1> QED BY <1>1, <1>3, <1>4, <1>5, <1>6 DEF Stored

\* The failure's kind, and the tables it is about.
Interrupted ==
    crash' = IF Busy /\ crash.kind # "none"
             THEN [crash EXCEPT !.kind = "restoring"]
             ELSE IF Busy THEN [crash EXCEPT !.kind = "handling"]
             ELSE Unharmed("idle")
LEMMA InterruptedIs ==
    ASSUME SceneTypes, Interrupted
    PROVE  /\ Busy /\ crash.kind # "none" =>
                 crash' = [old |-> crash.old, new |-> crash.new,
                           saves |-> crash.saves, kind |-> "restoring"]
           /\ Busy /\ crash.kind = "none" =>
                 crash' = [old |-> crash.old, new |-> crash.new,
                           saves |-> crash.saves, kind |-> "handling"]
           /\ ~Busy => crash' = Unharmed("idle")
<1>1. PICK o, n, s, q : crash = [old |-> o, new |-> n, saves |-> s, kind |-> q]
  BY DEF SceneTypes
<1>2. /\ [crash EXCEPT !.kind = "restoring"] =
             [old |-> o, new |-> n, saves |-> s, kind |-> "restoring"]
      /\ [crash EXCEPT !.kind = "handling"] =
             [old |-> o, new |-> n, saves |-> s, kind |-> "handling"]
      /\ crash.old = o /\ crash.new = n /\ crash.saves = s
  BY <1>1
<1> QED BY <1>2 DEF Interrupted

\* A handler that was interrupted before or after its writes, or between them.
LEMMA OldOrNew ==
    ASSUME ScenesInv, Busy, crash.kind = "none", Whole
    PROVE  Stored(crash.old) \/ Stored(crash.new)
<1> DEFINE x == crash.old
           y == crash.new
           M == ZCL_GEN_MAX_SCENES
           t == zclGenSceneTable
           left == Len(writes)
<1>1. t = y /\ ~Restoring
  BY DEF ScenesInv, Reading
<1>2. Saved
  BY <1>1 DEF ScenesInv, Unsaved
<1>3. x \in Seq(Scenes) /\ y \in Seq(Scenes)
  BY DEF ScenesInv, SceneTypes
<1>4. left \in Nat /\ (writes = << >> <=> left = 0)
  <2> DEFINE X == NVWrite(Scenes)
  <2>1. writes \in Seq(X)
    BY DEF ScenesInv, SceneTypes
  <2> HIDE DEF X
  <2> QED BY <2>1
<1>5. Len(x) \in Nat /\ Len(y) \in Nat /\ M \in Nat
  BY <1>3, ScenesAssumption
<1>6. ASSUME NEW k \in 1 .. M, k <= Len(y), ~(Len(y) + 2 - k <= left)
      PROVE  nv.recs[k] = y[k]
  <2>1. k \in 1 .. Len(y) /\ k <= M
    <3> HIDE DEF y, M
    <3> QED BY <1>5, <1>6
  <2>2. \A i \in 1 .. Len(y) : ~(Len(y) + 2 - i <= left) =>
            (i <= M => nv.recs[i] = y[i])
    BY <1>1, <1>2 DEF Saved
  <2> QED BY <1>6, <2>1, <2>2
<1>7. CASE left = 0
  <2>1. nv.numRecs = Len(y)
    BY <1>1, <1>2, <1>7 DEF Saved
  <2>2. ASSUME NEW k \in 1 .. M, k <= Len(y) PROVE nv.recs[k] = y[k]
    <3>1. ~(Len(y) + 2 - k <= left)
      <4> HIDE DEF y, M, left
      <4> QED BY <1>5, <1>7, <2>2
    <3> QED BY <1>6, <2>2, <3>1
  <2> QED BY <2>1, <2>2 DEF Stored
<1>8. CASE left # 0
  <2>1. /\ OneChange(x, y) /\ nv.numRecs = Len(x) /\ left <= Len(y) + 1
        /\ \A k \in 1 .. M :
              k <= Len(x) /\ Len(y) + 1 - left < k => nv.recs[k] = x[k]
    BY <1>4, <1>8 DEF ScenesInv, Undecided
  <2>2. PICK p \in 0 .. Len(y) :
            /\ \/ Len(y) = Len(x)
               \/ Len(y) = Len(x) + 1 /\ p = Len(y)
            /\ \A k \in 1 .. Len(x) : k # p => y[k] = x[k]
    BY <2>1 DEF OneChange
  <2> HIDE DEF x, y, M, left, t
  <2>3. CASE Len(y) = Len(x) /\ p <= Len(y) + 1 - left
    <3>1. ASSUME NEW k \in 1 .. M, k <= Len(y) PROVE nv.recs[k] = y[k]
      <4>1. CASE Len(y) + 1 - left < k
        <5>1. nv.recs[k] = x[k] /\ k \in 1 .. Len(x) /\ k # p
          BY <1>5, <1>4, <2>1, <2>2, <2>3, <3>1, <4>1
        <5> QED BY <2>2, <5>1
      <4>2. CASE k <= Len(y) + 1 - left
        <5>1. ~(Len(y) + 2 - k <= left)
          BY <1>4, <1>5, <4>2
        <5> QED BY <1>6, <3>1, <5>1
      <4> QED BY <1>4, <1>5, <4>1, <4>2
    <3>2. Stored(y)
      BY <2>1, <2>3, <3>1 DEF Stored, M
    <3> QED BY <3>2 DEF y
  <2>4. CASE Len(y) = Len(x) + 1 \/ ~(p <= Len(y) + 1 - left)
    <3>1. ASSUME NEW k \in 1 .. M, k <= Len(x) PROVE nv.recs[k] = x[k]
      <4>1. CASE Len(y) + 1 - left < k
        BY <2>1, <3>1, <4>1
      <4>2. CASE k <= Len(y) + 1 - left
        <5>1. ~(Len(y) + 2 - k <= left) /\ k <= Len(y)
          BY <1>4, <1>5, <2>2, <3>1, <4>2
        <5>2. nv.recs[k] = y[k]
          BY <1>6, <5>1
        <5>3. k \in 1 .. Len(x) /\ k # p
          BY <1>4, <1>5, <2>2, <2>4, <3>1, <4>2
        <5> QED BY <2>2, <5>2, <5>3
      <4> QED BY <1>4, <1>5, <4>1, <4>2
    <3>2. Stored(x)
      BY <2>1, <3>1 DEF Stored, M
    <3> QED BY <3>2 DEF x
  <2> QED BY <2>2, <2>3, <2>4 DEF x, y
<1> QED BY <1>4, <1>7, <1>8

LEMMA FailKeeps ==
    ASSUME ScenesInv, Restart, Interrupted
    PROVE  ScenesInv'
<1> DEFINE M == ZCL_GEN_MAX_SCENES
           S == Scenes
           old == crash.old
           new == crash.new
<1>1. /\ zclGenSceneTable' = << >> /\ writes' = << >> /\ leaving' = {}
      /\ UNCHANGED groups
      /\ restore' \in [next : Nat \ {0}, numRecs : Nat]
      /\ restore'.next = 1 /\ restore'.numRecs = nv.numRecs
      /\ nv' \in NVItem(S) /\ nv'.numRecs = nv.numRecs
      /\ \A k \in 1 .. M :
            nv'.recs[k] = IF k > nv.numRecs THEN Unread ELSE nv.recs[k]
  BY RestartIs DEF ScenesInv
<1>2. /\ nv.numRecs \in Nat /\ DOMAIN nv.recs = 1 .. M
      /\ DOMAIN nv'.recs = 1 .. M
  BY <1>1 DEF ScenesInv, SceneTypes, NVItem
<1>3. /\ Busy /\ crash.kind # "none" =>
            crash' = [old |-> old, new |-> new,
                      saves |-> crash.saves, kind |-> "restoring"]
      /\ Busy /\ crash.kind = "none" =>
            crash' = [old |-> old, new |-> new,
                      saves |-> crash.saves, kind |-> "handling"]
      /\ ~Busy => crash' = Unharmed("idle")
  BY InterruptedIs DEF ScenesInv
<1>4. /\ DOMAIN zclGenSceneTable' = {} /\ Len(zclGenSceneTable') = 0
      /\ DOMAIN writes' = {}
  BY <1>1
<1>5. ~Busy => /\ TableGood /\ CopyOf(zclGenSceneTable)
               /\ \A k \in 1 .. M :
                     nv.recs[k] = Unread \/ nv.recs[k] \in Range(zclGenSceneTable)
  BY WrittenOut DEF Busy
<1> HIDE DEF S, M
<1>6. SceneTypes'
  <2> DEFINE U == Scenes'
  <2>1. CASE Busy
    <3>1. crash'.old = old /\ crash'.new = new /\ crash'.saves = crash.saves
          /\ crash'.kind \in {"restoring", "handling"}
          /\ crash' = [old |-> crash'.old, new |-> crash'.new,
                       saves |-> crash'.saves, kind |-> crash'.kind]
      BY <1>3, <2>1
    <3>2. U = S
      BY <3>1 DEF Scenes, S
    <3>3. /\ crash.old \in Seq(S) /\ crash.new \in Seq(S)
          /\ crash.saves \in Nat /\ \A s \in S : IsScene(s)
      BY DEF ScenesInv, SceneTypes, S
    <3> HIDE DEF U
    <3>4. /\ crash' \in [old : Seq(U), new : Seq(U), saves : Nat,
                         kind : {"none", "idle", "handling", "restoring"}]
          /\ \A s \in U : IsScene(s)
      BY <3>1, <3>2, <3>3
    <3>5. /\ nv' \in NVItem(U) /\ IsFiniteSet(groups')
          /\ zclGenSceneTable' \in Seq(U) /\ writes' \in Seq(NVWrite(U))
      BY <1>1, <3>2 DEF ScenesInv, SceneTypes
    <3> QED BY <1>1, <3>4, <3>5 DEF SceneTypes, U
  <2>2. CASE ~Busy
    <3> DEFINE t == zclGenSceneTable
    <3>1. crash' = [old |-> t, new |-> t, saves |-> 0, kind |-> "idle"]
      BY <1>3, <2>2 DEF Unharmed
    <3>2. crash'.old = t /\ crash'.new = t
      BY <3>1
    <3>3. U = Range(t)
      BY <3>2 DEF Scenes
    <3>4. t \in Seq(Range(t)) /\ \A s \in Range(t) : IsScene(s)
      BY <1>5, <2>2 DEF TableGood, Good
    <3> HIDE DEF U
    <3>5. /\ crash' \in [old : Seq(U), new : Seq(U), saves : Nat,
                         kind : {"none", "idle", "handling", "restoring"}]
          /\ \A s \in U : IsScene(s)
      BY <3>1, <3>3, <3>4
    <3>6. nv' \in NVItem(U)
      <4>1. \A k \in 1 .. M : nv'.recs[k] \in U \cup {Unread}
        BY <1>1, <1>5, <2>2, <3>3
      <4>2. nv' = [numRecs |-> nv'.numRecs, recs |-> nv'.recs]
            /\ nv'.numRecs \in Nat /\ nv'.recs = [k \in 1 .. M |-> nv'.recs[k]]
        BY <1>1 DEF NVItem, M
      <4>3. nv'.recs \in [1 .. M -> U \cup {Unread}]
        BY <4>1, <4>2
      <4> QED BY <4>2, <4>3 DEF NVItem, M
    <3>7. /\ IsFiniteSet(groups')
          /\ zclGenSceneTable' \in Seq(U) /\ writes' \in Seq(NVWrite(U))
      BY <1>1 DEF ScenesInv, SceneTypes
    <3> QED BY <1>1, <3>5, <3>6, <3>7 DEF SceneTypes, U
  <2> QED BY <2>1, <2>2
<1>7. InGroups'
  <2>1. \A k \in DOMAIN nv'.recs : nv'.recs[k] # Unread =>
            Valid(nv.recs[k].groupID) /\ nv'.recs[k] = nv.recs[k]
    BY <1>1, <1>2 DEF ScenesInv, InGroups
  <2>2. \A k \in DOMAIN nv'.recs : nv'.recs[k] # Unread =>
            Valid(nv'.recs[k].groupID)
    BY <2>1
  <2> QED BY <1>1, <1>4, <2>2 DEF InGroups, Valid, GroupExists
<1>8. Counted'
  <2>1. \A k \in 1 .. M : k <= nv.numRecs => nv'.recs[k] # Unread
    <3> TAKE k \in 1 .. M
    <3>1. k <= nv.numRecs => nv.recs[k] # Unread /\ ~(k > nv.numRecs)
      BY <1>2, ScenesAssumption DEF ScenesInv, Counted, M
    <3> QED BY <1>1, <3>1
  <2> QED BY <1>1, <1>4, <2>1 DEF Counted, M
<1>9. (Unsaved \/ Saved)'
  <2>1. CASE nv.numRecs = 0
    <3>1. ~Restoring'
      BY <1>1, <2>1 DEF Restoring
    <3>2. nv'.numRecs = 0 /\ Len(writes') = 0
      BY <1>1, <2>1
    <3> QED BY <1>4, <3>1, <3>2 DEF Saved
  <2>2. CASE nv.numRecs # 0
    <3>1. Restoring' /\ restore'.next = 1
      BY <1>1, <1>2, <2>2 DEF Restoring
    <3> QED BY <3>1 DEF Unsaved
  <2> QED BY <2>1, <2>2
<1>10. NoneBehind' /\ Emptied'
  BY <1>1 DEF NoneBehind, Emptied, M
<1>11. crash'.kind # "none"
  BY <1>3 DEF Unharmed
<1>12. Reading' /\ Undecided'
  <2>1. 0 = AtMost(restore'.next - 1)
    BY <1>1, ScenesAssumption DEF AtMost
  <2> QED BY <1>4, <1>11, <2>1 DEF Reading, Undecided, AtMost
<1>13. ASSUME NEW T, NEW x \in Seq(T), Stored(x)
       PROVE  Restores(x)'
  <2>1. /\ \A k \in 1 .. M : k <= Len(x) => nv'.recs[k] = x[k]
        /\ IF Restoring' THEN restore'.numRecs = Len(x)
           ELSE 0 = AtMost(Len(x))
    BY <1>13, StoredIsRestored DEF M
  <2> QED BY <1>4, <2>1 DEF Restores, AtMost, M
<1>14. Resumed'
  <2>1. CASE Busy /\ crash.kind # "none"
    <3>1. crash'.kind = "restoring"
      BY <1>3, <2>1
    <3> QED BY <3>1 DEF Resumed
  <2>2. CASE Busy /\ crash.kind = "none"
    <3>1. /\ crash'.kind = "handling" /\ crash'.old = old /\ crash'.new = new
          /\ crash'.saves = crash.saves
      BY <1>3, <2>2
    <3>2. Whole' => Whole
      BY <3>1 DEF Whole
    <3>3. Whole => Stored(old) \/ Stored(new)
      BY <2>2, OldOrNew
    <3>4. old \in Seq(Scenes) /\ new \in Seq(Scenes)
      BY DEF ScenesInv, SceneTypes
    <3>5. Stored(old) => Restores(crash.old)'
      <4>1. PICK x : x = old
        OBVIOUS
      <4>2. Stored(x) => Restores(x)'
        BY <1>13, <3>4, <4>1
      <4> QED BY <3>1, <4>1, <4>2 DEF Restores
    <3>6. Stored(new) => Restores(crash.new)'
      <4>1. PICK x : x = new
        OBVIOUS
      <4>2. Stored(x) => Restores(x)'
        BY <1>13, <3>4, <4>1
      <4> QED BY <3>1, <4>1, <4>2 DEF Restores
    <3> QED BY <3>1, <3>2, <3>3, <3>5, <3>6 DEF Resumed
  <2>3. CASE ~Busy
    <3>1. crash' = [old |-> zclGenSceneTable, new |-> zclGenSceneTable,
                    saves |-> 0, kind |-> "idle"]
      BY <1>3, <2>3 DEF Unharmed
    <3>2. crash'.kind = "idle" /\ crash'.new = zclGenSceneTable
      BY <3>1
    <3>3. Stored(zclGenSceneTable)
      BY <1>5, <2>3 DEF Stored, CopyOf, M
    <3>4. zclGenSceneTable \in Seq(Scenes)
      BY DEF ScenesInv, SceneTypes
    <3>5. PICK x : x = zclGenSceneTable
      OBVIOUS
    <3>6. Restores(x)'
      BY <1>13, <3>3, <3>4, <3>5
    <3>7. Restores(crash.new)'
      BY <3>2, <3>5, <3>6 DEF Restores
    <3> QED BY <3>2, <3>7 DEF Resumed
  <2> QED BY <2>1, <2>2, <2>3
<1> QED BY <1>6, <1>7, <1>8, <1>9, <1>10, <1>12, <1>14 DEF ScenesInv

--------------------------------------------------------------------------------
(* Every step keeps the invariant.                                           *)
LEMMA InitScenes ==
    ASSUME ZclInit
    PROVE  ScenesInv
<1> DEFINE M == ZCL_GEN_MAX_SCENES
           recs == [k \in 1 .. M |-> Unread]
<1>1. /\ zclGenSceneTable = << >> /\ groups = {} /\ writes = << >>
      /\ leaving = {} /\ restore = [next |-> 1, numRecs |-> 0]
      /\ nv = [numRecs |-> 0, recs |-> recs]
      /\ crash = [old |-> << >>, new |-> << >>, saves |-> 0, kind |-> "none"]
  BY DEF ZclInit, ScenesInit, NoRestore
<1>2. \A k \in 1 .. M : recs[k] = Unread
  OBVIOUS
<1>3. DOMAIN recs = 1 .. M /\ recs \in [1 .. M -> {Unread}]
  OBVIOUS
<1>4. M \in Nat \ {0}
  BY ScenesAssumption
<1> HIDE DEF recs
<1>5. /\ nv.numRecs = 0 /\ nv.recs = recs
      /\ restore.next = 1 /\ restore.numRecs = 0
      /\ crash.old = << >> /\ crash.new = << >> /\ crash.saves = 0
      /\ crash.kind = "none"
  BY <1>1
<1>6. ~Restoring /\ Scenes = {}
  BY <1>5 DEF Restoring, Scenes, Range
<1>7. SceneTypes
  <2>1. nv \in NVItem(Scenes)
    BY <1>1, <1>3, <1>6 DEF NVItem, M
  <2>2. IsFiniteSet(groups)
    BY <1>1, FS_EmptySet
  <2>3. restore \in [next : Nat \ {0}, numRecs : Nat]
    BY <1>1
  <2>4. crash \in [old : Seq(Scenes), new : Seq(Scenes), saves : Nat,
                   kind : {"none", "idle", "handling", "restoring"}]
    BY <1>1
  <2> QED BY <1>1, <1>6, <2>1, <2>2, <2>3, <2>4 DEF SceneTypes
<1>8. DOMAIN zclGenSceneTable = {} /\ DOMAIN writes = {}
      /\ Len(zclGenSceneTable) = 0 /\ Len(writes) = 0
  BY <1>1
<1>9. InGroups /\ Counted
  BY <1>2, <1>3, <1>4, <1>5, <1>8 DEF InGroups, Counted, M
<1>10. Saved /\ NoneBehind /\ Emptied
  BY <1>1, <1>2, <1>5, <1>8 DEF Saved, NoneBehind, Emptied, M
<1>11. Reading
  BY <1>1, <1>5, <1>6 DEF Reading
<1>12. Undecided
  <2>1. OneChange(<< >>, << >>)
    BY DEF OneChange
  <2> QED BY <1>1, <1>5, <2>1 DEF Undecided
<1>13. Resumed
  BY <1>5 DEF Resumed
<1> QED BY <1>7, <1>9, <1>10, <1>11, <1>12, <1>13 DEF ScenesInv

LEMMA NextScenes ==
    ASSUME ScenesInv, [ZclNext]_zclVars
    PROVE  ScenesInv'
<1>1. ASSUME UNCHANGED <<sceneVars, crash>> PROVE ScenesInv'
  <2>1. UNCHANGED <<zclGenSceneTable, groups, nv, writes, leaving, restore,
                    crash>>
    BY <1>1 DEF sceneVars
  <2>2. (Restoring' <=> Restoring) /\ Scenes' = Scenes
    BY <2>1 DEF Restoring, Scenes
  <2>3. SceneTypes'
    BY <2>1, <2>2 DEF ScenesInv, SceneTypes
  <2>4. InGroups' /\ Counted'
    BY <2>1 DEF ScenesInv, InGroups, Valid, GroupExists, Counted
  <2>5. (Unsaved \/ Saved)'
    BY <2>1, <2>2 DEF ScenesInv, Unsaved, Saved
  <2>6. NoneBehind' /\ Emptied' /\ Reading'
    BY <2>1, <2>2 DEF ScenesInv, NoneBehind, Emptied, Reading, AtMost
  <2>7. Undecided'
    BY <2>1 DEF ScenesInv, Undecided, Whole
  <2>8. Resumed'
    BY <2>1, <2>2 DEF ScenesInv, Resumed, Restores, Whole, AtMost
  <2> QED BY <2>3, <2>4, <2>5, <2>6, <2>7, <2>8 DEF ScenesInv
<1>2. ASSUME Ask \/ Forget PROVE ScenesInv'
  <2>1. ~Busy /\ UNCHANGED sceneVars /\ crash' = Unharmed("none")
    BY <1>2 DEF Ask, Forget
  <2> QED BY <2>1, LeftAlone
<1>3. ASSUME NEW v, NEW sent, NEW given, ~Busy, Handled(v, Quiet, sent, given)
      PROVE  ScenesInv'
  <2>1. Carry(Quiet) /\ Handed(Quiet)
    BY <1>3 DEF Handled, Handed
  <2> QED BY <1>3, <2>1, QuietSound, Carried
<1>4. ASSUME Ignore PROVE ScenesInv'
  BY <1>3, <1>4 DEF Ignore
<1>5. ASSUME RejectInsecure PROVE ScenesInv'
  BY <1>3, <1>5 DEF RejectInsecure
<1>6. ASSUME ProcessFoundation PROVE ScenesInv'
  <2>1. ~Busy /\ \E v, sent, given : Handled(v, Quiet, sent, given)
    BY <1>6 DEF ProcessFoundation
  <2> QED BY <1>3, <2>1
<1>7. ASSUME RejectFoundation PROVE ScenesInv'
  <2>1. ~Busy /\ \E v, sent, given : Handled(v, Quiet, sent, given)
    BY <1>7 DEF RejectFoundation
  <2> QED BY <1>3, <2>1
<1>8. ASSUME ProcessSpecific PROVE ScenesInv'
  <2>1. ~Busy
    BY <1>8 DEF ProcessSpecific
  <2>2. TableGood
    BY <2>1, WrittenOut DEF Busy
  <2>3. PICK msg, r, sent, given :
            /\ \/ r \in zclGeneral_HdlIncoming(msg)
               \/ r = Result(Now, ZFailure, << >>)
            /\ Handled(vals, r, sent, given)
    BY <1>8 DEF ProcessSpecific
  <2>4. Sound(r)
    BY <2>2, <2>3, HandlersSound, PlainSound
  <2>5. Carry(r) /\ Handed(r)
    BY <2>3 DEF Handled, Handed
  <2> QED BY <2>1, <2>4, <2>5, Carried
<1>9. ASSUME Finish PROVE ScenesInv'
  <2>1. UNCHANGED <<sceneVars, crash>>
    BY <1>9 DEF Finish
  <2> QED BY <1>1, <2>1
<1>10. ASSUME Proceed PROVE ScenesInv'
  BY <1>10, WriteKeeps, LeavingKeeps, ReadNext, ReadBehind DEF Proceed
<1>11. ASSUME Fail PROVE ScenesInv'
  BY <1>11, FailKeeps DEF Fail, Interrupted
<1>13. ASSUME Collapse PROVE ScenesInv'
  BY <1>11, <1>13 DEF Collapse
<1>12. ASSUME UNCHANGED zclVars PROVE ScenesInv'
  <2>1. UNCHANGED <<sceneVars, crash>>
    BY <1>12 DEF zclVars
  <2> QED BY <1>1, <2>1
<1> QED BY <1>2, <1>4, <1>5, <1>6, <1>7, <1>8, <1>9, <1>10, <1>11, <1>12,
        <1>13 DEF ZclNext

(* Whatever the handlers, the writes, the failures of the power and the      *)
(* restorings do, in any order, the table, the writes that are still to be   *)
(* made and the records in non-volatile memory fit together                  *)
(* (zclGeneral_ScenesSave, zclGeneral_ScenesWriteNV,                         *)
(* zclGeneral_ScenesRestoreFromNV).                                          *)
THEOREM ScenesFitTogether == ZclSpec => []ScenesInv
BY InitScenes, NextScenes, PTL DEF ZclSpec

(* zcl_general.c, zclGeneral_ProcessInGroupsServer, zclGeneral_ScenesInit:   *)
(* between two commands every scene of the table belongs to group 0 or to a  *)
(* group the endpoint is in, however many scenes and groups there may be and *)
(* wherever the power has failed.                                            *)
THEOREM ScenesBelongToGroups == ZclSpec => []BelongToGroups
<1>1. ScenesInv => BelongToGroups
  BY DEF ScenesInv, InGroups, BelongToGroups
<1> QED BY <1>1, ScenesFitTogether, PTL

LEMMA Least ==
    ASSUME NEW a \in Nat, NEW b \in Nat
    PROVE  Min({a, b}) = IF a <= b THEN a ELSE b
<1>1. \E e \in {a, b} : \A f \in {a, b} : e <= f
  <2>1. CASE a <= b
    BY <2>1
  <2>2. CASE ~(a <= b)
    <3>1. b <= a
      BY <2>2
    <3> QED BY <3>1
  <2> QED BY <2>1, <2>2
<1>2. Min({a, b}) \in {a, b} /\ \A f \in {a, b} : Min({a, b}) <= f
  BY <1>1 DEF Min
<1>3. Min({a, b}) <= a /\ Min({a, b}) <= b
      /\ (Min({a, b}) = a \/ Min({a, b}) = b)
  BY <1>2
<1> QED BY <1>3

LEMMA CutToFit ==
    ASSUME NEW S, NEW x \in Seq(S), NEW y \in Seq(S), Len(y) = AtMost(Len(x)),
           \A k \in DOMAIN y : k <= Len(x) /\ y[k] = x[k]
    PROVE  y = SubSeq(x, 1, Min({Len(x), ZCL_GEN_MAX_SCENES}))
<1> DEFINE M == ZCL_GEN_MAX_SCENES
<1>1. M \in Nat \ {0} /\ Len(x) \in Nat
  BY ScenesAssumption
<1>2. PICK n : n = Min({Len(x), M})
  OBVIOUS
<1>3. n = (IF Len(x) <= M THEN Len(x) ELSE M) /\ n = Len(y)
  BY <1>1, <1>2, Least DEF AtMost
<1>4. n \in Nat /\ n <= Len(x)
  BY <1>1, <1>3
<1>5. /\ SubSeq(x, 1, n) \in Seq(S) /\ Len(SubSeq(x, 1, n)) = n
      /\ \A k \in 1 .. n : SubSeq(x, 1, n)[k] = x[k]
  BY <1>1, <1>4
<1>6. \A k \in 1 .. n : y[k] = x[k]
  BY <1>3
<1>7. y = SubSeq(x, 1, n)
  BY <1>3, <1>5, <1>6
<1> QED BY <1>2, <1>7

(* zcl_general.c, zclGeneral_ScenesWriteNV, zclGeneral_ScenesRestoreFromNV:  *)
(* what is restored after a failure of the power.  Between two commands it   *)
(* is the table as it was, as far as the item's records reach; in the middle *)
(* of a command that saves once and takes nothing out, it is the table       *)
(* before the command or after it; and no failure invents a scene.           *)
THEOREM ScenesAreRestored == ZclSpec => []RestoredAsSaved
<1>1. ASSUME ScenesInv PROVE RestoredAsSaved
  <2> DEFINE t == zclGenSceneTable
             M == ZCL_GEN_MAX_SCENES
             Fitting(x) == SubSeq(x, 1, Min({Len(x), M}))
  <2>1. t \in Seq(Scenes) /\ M \in Nat \ {0}
        /\ crash.old \in Seq(Scenes) /\ crash.new \in Seq(Scenes)
    BY <1>1, ScenesAssumption DEF ScenesInv, SceneTypes
  <2>2. Range(t) \subseteq Range(crash.old) \cup Range(crash.new)
    BY <2>1, RangeIs DEF Scenes
  <2>3. ASSUME NEW S, NEW x \in Seq(S), NEW y \in Seq(S), Len(y) = AtMost(Len(x)),
               \A k \in DOMAIN y : k <= Len(x) /\ y[k] = x[k]
        PROVE  y = Fitting(x)
    BY <2>1, <2>3, CutToFit
  <2>4. ASSUME ~Busy, NEW x \in Seq(Scenes), Restores(x)
        PROVE  t = Fitting(x)
    <3>1. Len(t) = AtMost(Len(x))
      BY <2>4 DEF Restores, Busy
    <3>2. \A k \in DOMAIN t : k <= Len(x) /\ t[k] = x[k]
      BY <2>4 DEF Restores
    <3> QED BY <2>1, <2>3, <3>1, <3>2
  <2>5. ~Busy /\ crash.kind = "idle" => t = Fitting(crash.new)
    BY <1>1, <2>1, <2>4 DEF ScenesInv, Resumed
  <2>6. ~Busy /\ crash.kind = "handling" /\ Whole =>
            t = Fitting(crash.old) \/ t = Fitting(crash.new)
    BY <1>1, <2>1, <2>4 DEF ScenesInv, Resumed
  <2> QED BY <2>2, <2>5, <2>6 DEF RestoredAsSaved, Whole
<1> QED BY <1>1, ScenesFitTogether, PTL
=============================================================================
