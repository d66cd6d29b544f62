------------------------------- MODULE RpcProofs -------------------------------
(***************************************************************************)
(* Proofs about the requests over the serial line.  First the message      *)
(* queue: the list and the semaphore that counts its messages stay in step *)
(* although the head is looked at without the mutex, and the queue         *)
(* implements MessageQueue.  Then the RPC layer on top of it: it uses the  *)
(* queue as the queue wants to be used, one request is sent at a time, and *)
(* the response semaphore is posted for an answer or for a wait given up.  *)
(***************************************************************************)
EXTENDS Rpc, FiniteSetTheorems, TLAPS

--------------------------------------------------------------------------------
(* What the list operations do to the sequence of nodes.                     *)

\* addToHead moves every element one place on.
LEMMA Prepended ==
    ASSUME NEW S, NEW s \in Seq(S), NEW e \in S
    PROVE  /\ <<e>> \o s \in Seq(S)
           /\ Len(<<e>> \o s) = Len(s) + 1
           /\ (<<e>> \o s)[1] = e
           /\ \A i \in 1 .. Len(s) : (<<e>> \o s)[i + 1] = s[i]
OBVIOUS

\* addToTail leaves them where they are.
LEMMA Appended ==
    ASSUME NEW S, NEW s \in Seq(S), NEW e \in S
    PROVE  /\ Append(s, e) \in Seq(S)
           /\ Len(Append(s, e)) = Len(s) + 1
           /\ Append(s, e)[Len(s) + 1] = e
           /\ \A i \in 1 .. Len(s) : Append(s, e)[i] = s[i]
OBVIOUS

\* A removal moves every element but the first one place back.
LEMMA Shortened ==
    ASSUME NEW S, NEW s \in Seq(S), s # << >>
    PROVE  /\ Tail(s) \in Seq(S)
           /\ Len(s) \in Nat \ {0}
           /\ Len(Tail(s)) = Len(s) - 1
           /\ \A i \in 1 .. Len(s) - 1 : Tail(s)[i] = s[i + 1]
OBVIOUS

--------------------------------------------------------------------------------
(* Counting threads.                                                         *)

\* The threads at one of some places.
AtOne(places) == {t \in Threads : at[t] \in places}

\* A thread that goes from one place to another changes the number of threads
\* at some places only if one of the two is among them and the other is not.
LEMMA Moves ==
    ASSUME LlqTypeOK, NEW t \in Threads, NEW to \in At, Goto(t, to), NEW P
    PROVE  /\ Cardinality(AtOne(P)) \in Nat /\ Cardinality(AtOne(P)') \in Nat
           /\ at[t] \in P => Cardinality(AtOne(P)) > 0
           /\ Cardinality(AtOne(P)') =
                Cardinality(AtOne(P)) + (IF to \in P THEN 1 ELSE 0)
                                      - (IF at[t] \in P THEN 1 ELSE 0)
<1> DEFINE S == AtOne(P)
           R == AtOne(P) \ {t}
<1>1. IsFiniteSet(S) /\ IsFiniteSet(R) /\ t \notin R
  BY ThreadsFinite, FS_Subset, FS_RemoveElement DEF AtOne
<1>2. S = (IF at[t] \in P THEN R \cup {t} ELSE R)
  BY DEF AtOne
<1>3. S' = (IF to \in P THEN R \cup {t} ELSE R)
  BY DEF AtOne, Goto, LlqTypeOK
<1>4. Cardinality(R \cup {t}) = Cardinality(R) + 1 /\ Cardinality(R) \in Nat
  BY <1>1, FS_AddElement, FS_CardinalityType
<1> HIDE DEF R, S
<1> QED BY <1>2, <1>3, <1>4 DEF S

\* The same for the three groups the invariant counts.
LEMMA GroupsMove ==
    ASSUME LlqTypeOK, NEW t \in Threads, NEW to \in At, Goto(t, to)
    PROVE  /\ Cardinality(InMutex) \in Nat /\ Cardinality(InMutex') \in Nat
           /\ Cardinality(Claimants) \in Nat /\ Cardinality(Claimants') \in Nat
           /\ Cardinality(Uncounted) \in Nat /\ Cardinality(Uncounted') \in Nat
           /\ Cardinality(InMutex') = Cardinality(InMutex)
                + (IF to \in {"linking", "removing"} THEN 1 ELSE 0)
                - (IF at[t] \in {"linking", "removing"} THEN 1 ELSE 0)
           /\ Cardinality(Claimants') = Cardinality(Claimants)
                + (IF to \in {"granted", "tested", "removing"} THEN 1 ELSE 0)
                - (IF at[t] \in {"granted", "tested", "removing"} THEN 1 ELSE 0)
           /\ Cardinality(Uncounted') = Cardinality(Uncounted)
                + (IF to = "counting" THEN 1 ELSE 0)
                - (IF at[t] = "counting" THEN 1 ELSE 0)
<1>1. /\ InMutex = AtOne({"linking", "removing"})
      /\ Claimants = AtOne({"granted", "tested", "removing"})
      /\ Uncounted = AtOne({"counting"})
      /\ InMutex' = AtOne({"linking", "removing"})'
      /\ Claimants' = AtOne({"granted", "tested", "removing"})'
      /\ Uncounted' = AtOne({"counting"})'
  BY DEF InMutex, Claimants, Uncounted, AtOne
<1> HIDE DEF InMutex, Claimants, Uncounted, AtOne
<1> DEFINE Mutex == {"linking", "removing"}
           Claim == {"granted", "tested", "removing"}
           Count1 == {"counting"}
<1>2. /\ Cardinality(InMutex) \in Nat /\ Cardinality(InMutex') \in Nat
      /\ Cardinality(InMutex') = Cardinality(InMutex)
           + (IF to \in Mutex THEN 1 ELSE 0) - (IF at[t] \in Mutex THEN 1 ELSE 0)
  BY <1>1, Moves
<1>3. /\ Cardinality(Claimants) \in Nat /\ Cardinality(Claimants') \in Nat
      /\ Cardinality(Claimants') = Cardinality(Claimants)
           + (IF to \in Claim THEN 1 ELSE 0) - (IF at[t] \in Claim THEN 1 ELSE 0)
  BY <1>1, Moves
<1>4. /\ Cardinality(Uncounted) \in Nat /\ Cardinality(Uncounted') \in Nat
      /\ Cardinality(Uncounted') = Cardinality(Uncounted)
           + (IF to \in Count1 THEN 1 ELSE 0) - (IF at[t] \in Count1 THEN 1 ELSE 0)
  BY <1>1, Moves
<1> QED BY <1>2, <1>3, <1>4

--------------------------------------------------------------------------------
(* The invariant.                                                            *)

\* A thread that adds has the message in hand.
ItemsHeld == \A t \in Threads : at[t] \in {"adding", "linking"} => item[t] \in Message
\* Whoever was granted a message has found one.
NoneEmpty == \A t \in Threads : at[t] # "empty"

LlqInv == /\ LlqTypeOK /\ ItemsHeld /\ NoneEmpty
          /\ MutexHeld /\ CountMatchesList /\ PointersAreList

\* What the count promises, the list holds: HeadThere follows from the rest.
LEMMA ClaimFindsHead == LlqInv => HeadThere
<1> SUFFICES ASSUME LlqInv, NEW t \in Threads,
                    at[t] \in {"granted", "tested", "removing"}
             PROVE  head # NULL
  BY DEF LlqInv, HeadThere, NoneEmpty
<1>1. IsFiniteSet(Claimants) /\ IsFiniteSet(Uncounted) /\ t \in Claimants
  BY ThreadsFinite, FS_Subset DEF Claimants, Uncounted
<1>2. Cardinality(Claimants) \in Nat \ {0} /\ Cardinality(Uncounted) \in Nat
  BY <1>1, FS_CardinalityType, FS_EmptySet
<1>3. Len(nodes) > 0
  BY <1>2 DEF LlqInv, CountMatchesList, LlqTypeOK
<1> QED BY <1>3 DEF LlqInv, PointersAreList, LlqTypeOK

--------------------------------------------------------------------------------
(* The three changes of the list.                                            *)

LEMMA HeadGrows ==
    ASSUME LlqTypeOK, PointersAreList, NEW c \in Fresh,
           NEW m \in Message \cup {NoMessage}, addToHead(c, m)
    PROVE  /\ PointersAreList' /\ Len(nodes') = Len(nodes) + 1
           /\ head' \in Cell \cup {NULL} /\ tail' \in Cell \cup {NULL}
           /\ ptr' \in [Cell -> Cell \cup {NULL}]
           /\ data' \in [Cell -> Message \cup {NoMessage}]
           /\ nodes' \in Seq(Cell)
<1>1. c \in Cell /\ c # NULL /\ \A i \in 1 .. Len(nodes) : nodes[i] # c
  BY NullIsNoCell DEF Fresh, InUse
<1>2. /\ nodes \in Seq(Cell) /\ Len(nodes) \in Nat
      /\ \A i \in 1 .. Len(nodes) : nodes[i] \in Cell
  BY DEF LlqTypeOK
<1>3. /\ nodes' \in Seq(Cell) /\ Len(nodes') = Len(nodes) + 1
      /\ nodes'[1] = c
      /\ \A i \in 1 .. Len(nodes) : nodes'[i + 1] = nodes[i]
  BY <1>1, <1>2, Prepended DEF addToHead
<1>4. /\ head' = c /\ ptr' = [ptr EXCEPT ![c] = head]
      /\ tail' = (IF nodes = << >> THEN c ELSE tail)
  BY DEF addToHead, PointersAreList
<1>5. /\ head' \in Cell \cup {NULL} /\ tail' \in Cell \cup {NULL}
      /\ ptr' \in [Cell -> Cell \cup {NULL}]
      /\ data' \in [Cell -> Message \cup {NoMessage}]
  BY <1>1 DEF LlqTypeOK, addToHead
<1>6. nodes' # << >> /\ head' # NULL /\ tail' # NULL
  <2>1. tail # NULL \/ nodes = << >>
    BY DEF PointersAreList
  <2> QED BY <1>1, <1>2, <1>3, <1>4, <2>1
<1>7. head' = nodes'[1] /\ tail' = nodes'[Len(nodes')] /\ ptr'[tail'] = NULL
  <2>1. CASE nodes = << >>
    <3>1. head = NULL /\ Len(nodes) = 0
      BY <2>1 DEF PointersAreList
    <3> QED BY <1>1, <1>2, <1>3, <1>4, <2>1, <3>1 DEF LlqTypeOK
  <2>2. CASE nodes # << >>
    <3>1. /\ Len(nodes) \in 1 .. Len(nodes) /\ tail = nodes[Len(nodes)]
          /\ ptr[tail] = NULL /\ tail \in Cell /\ tail # c
      BY <1>1, <1>2, <2>2 DEF PointersAreList
    <3> QED BY <1>1, <1>2, <1>3, <1>4, <2>2, <3>1 DEF LlqTypeOK
  <2> QED BY <2>1, <2>2
<1>8. \A i \in 1 .. Len(nodes') - 1 : ptr'[nodes'[i]] = nodes'[i + 1]
  <2> SUFFICES ASSUME NEW i \in 1 .. Len(nodes)
               PROVE  ptr'[nodes'[i]] = nodes[i]
    BY <1>2, <1>3
  <2>1. CASE i = 1
    <3>1. head = nodes[1]
      BY <1>2, <2>1 DEF PointersAreList
    <3> QED BY <1>1, <1>3, <1>4, <2>1, <3>1 DEF LlqTypeOK
  <2>2. CASE i > 1
    <3>1. i - 1 \in 1 .. Len(nodes) - 1 /\ (i - 1) + 1 = i
      BY <1>2, <2>2
    <3>2. nodes'[i] = nodes[i - 1] /\ ptr[nodes[i - 1]] = nodes[i]
      BY <1>2, <1>3, <3>1 DEF PointersAreList
    <3>3. nodes[i - 1] \in Cell /\ nodes[i - 1] # c
      BY <1>1, <1>2, <3>1
    <3> QED BY <1>4, <3>2, <3>3 DEF LlqTypeOK
  <2> QED BY <2>1, <2>2
<1>9. \A i, j \in 1 .. Len(nodes') : nodes'[i] = nodes'[j] => i = j
  <2> SUFFICES ASSUME NEW i \in 1 .. Len(nodes) + 1, NEW j \in 1 .. Len(nodes) + 1,
                      nodes'[i] = nodes'[j]
               PROVE  i = j
    BY <1>3
  <2>1. \A k \in 2 .. Len(nodes) + 1 : /\ k - 1 \in 1 .. Len(nodes)
                                       /\ nodes'[k] = nodes[k - 1]
    <3> TAKE k \in 2 .. Len(nodes) + 1
    <3>1. k - 1 \in 1 .. Len(nodes) /\ (k - 1) + 1 = k
      BY <1>2
    <3> QED BY <1>3, <3>1
  <2>2. CASE i = 1 \/ j = 1
    BY <1>1, <1>2, <1>3, <2>1, <2>2
  <2>3. CASE i # 1 /\ j # 1
    <3>1. i \in 2 .. Len(nodes) + 1 /\ j \in 2 .. Len(nodes) + 1
      BY <1>2, <2>3
    <3>2. i - 1 = j - 1
      BY <2>1, <3>1 DEF PointersAreList
    <3> QED BY <3>2
  <2> QED BY <2>2, <2>3
<1> QED BY <1>3, <1>5, <1>6, <1>7, <1>8, <1>9 DEF PointersAreList

LEMMA TailGrows ==
    ASSUME LlqTypeOK, PointersAreList, NEW c \in Fresh,
           NEW m \in Message \cup {NoMessage}, addToTail(c, m)
    PROVE  /\ PointersAreList' /\ Len(nodes') = Len(nodes) + 1
           /\ head' \in Cell \cup {NULL} /\ tail' \in Cell \cup {NULL}
           /\ ptr' \in [Cell -> Cell \cup {NULL}]
           /\ data' \in [Cell -> Message \cup {NoMessage}]
           /\ nodes' \in Seq(Cell)
<1>1. c \in Cell /\ c # NULL /\ \A i \in 1 .. Len(nodes) : nodes[i] # c
  BY NullIsNoCell DEF Fresh, InUse
<1>2. /\ nodes \in Seq(Cell) /\ Len(nodes) \in Nat
      /\ \A i \in 1 .. Len(nodes) : nodes[i] \in Cell
  BY DEF LlqTypeOK
<1>3. /\ nodes' \in Seq(Cell) /\ Len(nodes') = Len(nodes) + 1
      /\ nodes'[Len(nodes) + 1] = c
      /\ \A i \in 1 .. Len(nodes) : nodes'[i] = nodes[i]
  BY <1>1, <1>2, Appended DEF addToTail
<1>4. CASE nodes = << >>
  <2>1. tail = NULL /\ head = NULL /\ Len(nodes) = 0
    BY <1>4 DEF PointersAreList
  <2>2. /\ head' = c /\ tail' = c /\ ptr' = [ptr EXCEPT ![c] = NULL]
        /\ data' = [data EXCEPT ![c] = m]
    BY <2>1 DEF addToTail
  <2>3. ptr'[c] = NULL /\ Len(nodes') = 1 /\ nodes'[1] = c
    BY <1>1, <1>3, <2>1, <2>2 DEF LlqTypeOK
  <2>4. nodes' # << >>
    BY <1>3, <2>3
  <2> QED BY <1>1, <1>3, <2>2, <2>3, <2>4 DEF PointersAreList, LlqTypeOK
<1>5. CASE nodes # << >>
  <2>1. /\ tail # NULL /\ head # NULL /\ Len(nodes) \in Nat \ {0}
        /\ head = nodes[1] /\ tail = nodes[Len(nodes)]
    BY <1>2, <1>5 DEF PointersAreList
  <2>2. tail \in Cell /\ tail # c
    BY <1>1, <1>2, <2>1
  <2>3. /\ head' = head /\ tail' = c
        /\ ptr' = [ptr EXCEPT ![tail] = c, ![c] = NULL]
        /\ data' = [data EXCEPT ![c] = m]
    BY <2>1 DEF addToTail
  <2>4. /\ ptr' \in [Cell -> Cell \cup {NULL}]
        /\ ptr'[c] = NULL /\ ptr'[tail] = c
        /\ \A d \in Cell \ {c, tail} : ptr'[d] = ptr[d]
    BY <1>1, <2>2, <2>3 DEF LlqTypeOK
  <2>5. /\ nodes' # << >> /\ head' = nodes'[1] /\ tail' = nodes'[Len(nodes')]
        /\ ptr'[tail'] = NULL
    BY <1>2, <1>3, <2>1, <2>3, <2>4
  <2>6. \A i \in 1 .. Len(nodes') - 1 : ptr'[nodes'[i]] = nodes'[i + 1]
    <3> SUFFICES ASSUME NEW i \in 1 .. Len(nodes)
                 PROVE  ptr'[nodes[i]] = nodes'[i + 1]
      BY <1>2, <1>3
    <3>1. CASE i = Len(nodes)
      BY <1>3, <2>1, <2>4, <3>1
    <3>2. CASE i # Len(nodes)
      <4>1. i \in 1 .. Len(nodes) - 1 /\ i + 1 \in 1 .. Len(nodes)
        BY <1>2, <3>2
      <4>2. nodes[i] # tail /\ nodes[i] # c /\ nodes[i] \in Cell
        BY <1>1, <1>2, <2>1, <3>2 DEF PointersAreList
      <4>3. ptr[nodes[i]] = nodes[i + 1] /\ nodes'[i + 1] = nodes[i + 1]
        BY <1>3, <4>1 DEF PointersAreList
      <4> QED BY <2>4, <4>2, <4>3
    <3> QED BY <3>1, <3>2
  <2>7. \A i, j \in 1 .. Len(nodes') : nodes'[i] = nodes'[j] => i = j
    <3> SUFFICES ASSUME NEW i \in 1 .. Len(nodes) + 1, NEW j \in 1 .. Len(nodes) + 1,
                        nodes'[i] = nodes'[j]
                 PROVE  i = j
      BY <1>3
    <3>1. CASE i \in 1 .. Len(nodes) /\ j \in 1 .. Len(nodes)
      BY <1>3, <3>1 DEF PointersAreList
    <3>2. CASE i = Len(nodes) + 1 \/ j = Len(nodes) + 1
      BY <1>1, <1>2, <1>3, <3>2
    <3> QED BY <1>2, <3>1, <3>2
  <2> QED BY <1>1, <1>3, <2>1, <2>3, <2>4, <2>5, <2>6, <2>7 DEF PointersAreList, LlqTypeOK
<1> QED BY <1>4, <1>5

LEMMA HeadLeaves ==
    ASSUME LlqTypeOK, PointersAreList, NEW t \in Threads, Remove(t)
    PROVE  /\ PointersAreList' /\ nodes # << >> /\ Len(nodes') = Len(nodes) - 1
           /\ head' \in Cell \cup {NULL} /\ tail' \in Cell \cup {NULL}
           /\ ptr' \in [Cell -> Cell \cup {NULL}]
           /\ data' \in [Cell -> Message \cup {NoMessage}]
           /\ nodes' \in Seq(Cell)
           /\ item'[t] = data[nodes[1]]
           /\ item' \in [Threads -> Message \cup {NoMessage}]
<1>1. /\ head # NULL /\ nodes # << >> /\ head = nodes[1] /\ tail = nodes[Len(nodes)]
      /\ head \in Cell /\ tail \in Cell
  BY DEF Remove, PointersAreList, LlqTypeOK
<1>2. /\ nodes \in Seq(Cell) /\ Len(nodes) \in Nat \ {0}
      /\ \A i \in 1 .. Len(nodes) : nodes[i] \in Cell
  BY <1>1 DEF LlqTypeOK
<1>3. /\ nodes' \in Seq(Cell) /\ Len(nodes') = Len(nodes) - 1
      /\ \A i \in 1 .. Len(nodes) - 1 : nodes'[i] = nodes[i + 1]
  BY <1>1, <1>2, Shortened DEF Remove
<1>4. /\ head' = ptr[head] /\ tail' = (IF ptr[head] = NULL THEN NULL ELSE tail)
      /\ ptr' = [ptr EXCEPT ![head] = NULL]
      /\ data' = [data EXCEPT ![head] = NoMessage]
      /\ item' = [item EXCEPT ![t] = data[head]]
  BY DEF Remove
<1>5. /\ head' \in Cell \cup {NULL} /\ tail' \in Cell \cup {NULL}
      /\ ptr' \in [Cell -> Cell \cup {NULL}]
      /\ data' \in [Cell -> Message \cup {NoMessage}]
      /\ item'[t] = data[nodes[1]]
      /\ item' \in [Threads -> Message \cup {NoMessage}]
  BY <1>1, <1>4 DEF LlqTypeOK
<1>6. CASE Len(nodes) = 1
  <2>1. ptr[head] = NULL /\ nodes' = << >>
    BY <1>1, <1>3, <1>6 DEF PointersAreList
  <2> QED BY <1>1, <1>3, <1>4, <1>5, <2>1 DEF PointersAreList
<1>7. CASE Len(nodes) > 1
  <2>1. /\ ptr[head] = nodes[2] /\ nodes[2] \in Cell /\ nodes[2] # NULL
        /\ 1 \in 1 .. Len(nodes) - 1
    BY <1>1, <1>2, <1>7, NullIsNoCell DEF PointersAreList
  <2>2. /\ head' = nodes[2] /\ tail' = tail /\ nodes' # << >>
        /\ tail \in Cell /\ tail # NULL
    BY <1>1, <1>3, <1>4, <1>7, <2>1, NullIsNoCell
  <2>3. \A i \in 2 .. Len(nodes) : nodes[i] # head /\ ptr'[nodes[i]] = ptr[nodes[i]]
    BY <1>1, <1>2, <1>4 DEF PointersAreList, LlqTypeOK
  <2>4. /\ head' = nodes'[1] /\ tail' = nodes'[Len(nodes')] /\ ptr'[tail'] = NULL
    <3>1. /\ Len(nodes) - 1 \in 1 .. Len(nodes) - 1 /\ Len(nodes) \in 2 .. Len(nodes)
          /\ (Len(nodes) - 1) + 1 = Len(nodes) /\ 1 + 1 = 2
      BY <1>2, <1>7
    <3>2. nodes'[1] = nodes[2] /\ nodes'[Len(nodes')] = nodes[Len(nodes)]
      BY <1>3, <2>1, <3>1
    <3>3. ptr'[tail] = NULL
      BY <1>1, <2>3, <3>1 DEF PointersAreList
    <3> QED BY <1>1, <2>2, <3>2, <3>3
  <2>5. \A i \in 1 .. Len(nodes') - 1 : ptr'[nodes'[i]] = nodes'[i + 1]
    <3> TAKE i \in 1 .. Len(nodes') - 1
    <3>1. /\ i \in 1 .. Len(nodes) - 1 /\ i + 1 \in 1 .. Len(nodes) - 1
          /\ i + 1 \in 2 .. Len(nodes)
      BY <1>2, <1>3
    <3>2. nodes'[i] = nodes[i + 1] /\ nodes'[i + 1] = nodes[(i + 1) + 1]
      BY <1>3, <3>1
    <3>3. ptr[nodes[i + 1]] = nodes[(i + 1) + 1]
      BY <3>1 DEF PointersAreList
    <3> QED BY <2>3, <3>1, <3>2, <3>3
  <2>6. \A i, j \in 1 .. Len(nodes') : nodes'[i] = nodes'[j] => i = j
    <3> SUFFICES ASSUME NEW i \in 1 .. Len(nodes) - 1, NEW j \in 1 .. Len(nodes) - 1,
                        nodes'[i] = nodes'[j]
                 PROVE  i = j
      BY <1>3
    <3>1. i + 1 \in 1 .. Len(nodes) /\ j + 1 \in 1 .. Len(nodes)
      BY <1>2
    <3>2. nodes[i + 1] = nodes[j + 1]
      BY <1>3
    <3>3. i + 1 = j + 1
      BY <3>1, <3>2 DEF PointersAreList
    <3> QED BY <1>2, <3>3
  <2> QED BY <1>1, <1>3, <1>5, <1>7, <2>1, <2>2, <2>4, <2>5, <2>6 DEF PointersAreList
<1>8. Len(nodes) = 1 \/ Len(nodes) > 1
  <2> DEFINE n == Len(nodes)
  <2>1. n \in Nat \ {0}
    BY <1>2
  <2> HIDE DEF n
  <2>2. n = 1 \/ n > 1
    BY <2>1
  <2> QED BY <2>2 DEF n
<1> QED BY <1>1, <1>3, <1>5, <1>6, <1>7, <1>8

--------------------------------------------------------------------------------
(* The invariant is inductive.                                               *)

LEMMA LlqInvInit == LlqInit => LlqInv
<1> SUFFICES ASSUME LlqInit PROVE LlqInv
  OBVIOUS
<1>1. LlqTypeOK /\ ItemsHeld /\ NoneEmpty
  BY DEF LlqInit, LlqTypeOK, ItemsHeld, NoneEmpty, At
<1>2. InMutex = {} /\ Claimants = {} /\ Uncounted = {}
  BY DEF LlqInit, InMutex, Claimants, Uncounted
<1>3. Cardinality({}) = 0
  BY FS_EmptySet
<1>4. MutexHeld /\ CountMatchesList
  BY <1>2, <1>3 DEF LlqInit, MutexHeld, CountMatchesList
<1>5. PointersAreList
  BY DEF LlqInit, PointersAreList
<1> QED BY <1>1, <1>4, <1>5 DEF LlqInv

\* A step that leaves the list alone.
LEMMA ListKept ==
    ASSUME LlqTypeOK, PointersAreList, UNCHANGED <<head, tail, ptr, data, nodes>>
    PROVE  /\ PointersAreList' /\ Len(nodes') = Len(nodes)
           /\ head' \in Cell \cup {NULL} /\ tail' \in Cell \cup {NULL}
           /\ ptr' \in [Cell -> Cell \cup {NULL}]
           /\ data' \in [Cell -> Message \cup {NoMessage}]
           /\ nodes' \in Seq(Cell)
BY DEF PointersAreList, LlqTypeOK

\* How the counts move with a thread, as the invariant needs it.
LEMMA CountsMove ==
    ASSUME LlqInv, NEW t \in Threads, NEW to \in At, Goto(t, to),
           NEW a \in Int, NEW c \in Int, NEW n \in Int,
           access' = access + a, count' = count + c, Len(nodes') = Len(nodes) + n,
           a = (IF at[t] \in {"linking", "removing"} THEN 1 ELSE 0)
               - (IF to \in {"linking", "removing"} THEN 1 ELSE 0),
           a < 0 => access > 0,
           n = c + (IF to \in {"granted", "tested", "removing"} THEN 1 ELSE 0)
                 - (IF at[t] \in {"granted", "tested", "removing"} THEN 1 ELSE 0)
                 + (IF to = "counting" THEN 1 ELSE 0)
                 - (IF at[t] = "counting" THEN 1 ELSE 0)
    PROVE  MutexHeld' /\ CountMatchesList' /\ access' \in {0, 1}
<1>1. LlqTypeOK /\ MutexHeld /\ CountMatchesList
  BY DEF LlqInv
<1>2. access \in {0, 1} /\ count \in Nat /\ Len(nodes) \in Nat
  BY <1>1 DEF LlqTypeOK
<1> DEFINE m == Cardinality(InMutex)    m1 == Cardinality(InMutex')
           k == Cardinality(Claimants)  k1 == Cardinality(Claimants')
           u == Cardinality(Uncounted)  u1 == Cardinality(Uncounted')
<1>3. /\ m \in Nat /\ m1 \in Nat /\ k \in Nat /\ k1 \in Nat /\ u \in Nat /\ u1 \in Nat
      /\ m1 = m + (IF to \in {"linking", "removing"} THEN 1 ELSE 0)
                - (IF at[t] \in {"linking", "removing"} THEN 1 ELSE 0)
      /\ k1 = k + (IF to \in {"granted", "tested", "removing"} THEN 1 ELSE 0)
                - (IF at[t] \in {"granted", "tested", "removing"} THEN 1 ELSE 0)
      /\ u1 = u + (IF to = "counting" THEN 1 ELSE 0)
                - (IF at[t] = "counting" THEN 1 ELSE 0)
  BY <1>1, GroupsMove
<1>4. access + m = 1 /\ Len(nodes) = count + k + u
  BY <1>1 DEF MutexHeld, CountMatchesList
<1> HIDE DEF m, m1, k, k1, u, u1
<1>5. access' + m1 = 1 /\ access' \in {0, 1}
  BY <1>2, <1>3, <1>4
<1>6. Len(nodes') = count' + k1 + u1
  BY <1>2, <1>3, <1>4
<1>7. MutexHeld'
  BY <1>5 DEF MutexHeld, m1
<1>8. CountMatchesList'
  BY <1>6 DEF CountMatchesList, k1, u1
<1> QED BY <1>5, <1>7, <1>8

\* A call, which only sets out.
LEMMA CallKeeps ==
    ASSUME LlqInv, NEW t \in Threads,
           \/ \E m \in Message : llq_add(t, m)
           \/ llq_timedreceive(t)
           \/ llq_receive(t)
    PROVE  LlqInv'
<1> USE DEF LlqInv
<1>1. PICK to \in {"adding", "waiting", "blocked"} :
          /\ Goto(t, to) /\ at[t] = "out"
          /\ UNCHANGED <<head, tail, ptr, data, access, count, nodes>>
          /\ item' \in [Threads -> Message \cup {NoMessage}]
          /\ \A u \in Threads \ {t} : item'[u] = item[u]
          /\ to = "adding" => item'[t] \in Message
  BY DEF llq_add, llq_timedreceive, llq_receive, LlqTypeOK
<1>2. to \in At
  BY DEF At
<1>3. at' \in [Threads -> At] /\ at' = [at EXCEPT ![t] = to]
  BY <1>1, <1>2 DEF Goto, LlqTypeOK
<1>4. LlqTypeOK'
  BY <1>1, <1>3, ListKept DEF LlqTypeOK
<1>5. ItemsHeld' /\ NoneEmpty'
  BY <1>1, <1>3 DEF ItemsHeld, NoneEmpty, LlqTypeOK
<1>6. MutexHeld' /\ CountMatchesList'
  <2> DEFINE z == 0
  <2>1. /\ z \in Int /\ ~(z < 0)
        /\ access' = access + z /\ count' = count + z /\ Len(nodes') = Len(nodes) + z
    BY <1>1 DEF LlqTypeOK
  <2>2. z = (IF at[t] \in {"linking", "removing"} THEN 1 ELSE 0)
            - (IF to \in {"linking", "removing"} THEN 1 ELSE 0)
    BY <1>1
  <2>3. z = z + (IF to \in {"granted", "tested", "removing"} THEN 1 ELSE 0)
              - (IF at[t] \in {"granted", "tested", "removing"} THEN 1 ELSE 0)
              + (IF to = "counting" THEN 1 ELSE 0)
              - (IF at[t] = "counting" THEN 1 ELSE 0)
    BY <1>1
  <2> HIDE DEF LlqInv, z
  <2> QED BY <1>1, <1>2, <2>1, <2>2, <2>3, CountsMove
<1>7. PointersAreList'
  BY <1>1, ListKept
<1> QED BY <1>4, <1>5, <1>6, <1>7

LEMMA LinkKeeps ==
    ASSUME LlqInv, NEW t \in Threads, Link(t)
    PROVE  LlqInv'
<1> USE DEF LlqInv
<1>1. PICK c \in Fresh : IF item[t] \in Urgent THEN addToHead(c, item[t])
                                               ELSE addToTail(c, item[t])
  BY DEF Link
<1>2. /\ at[t] = "linking" /\ Goto(t, "counting") /\ access' = access + 1
      /\ UNCHANGED <<count, item>> /\ "counting" \in At
  BY DEF Link, At
<1>3. item[t] \in Message \cup {NoMessage}
  BY DEF LlqTypeOK
<1>4. /\ PointersAreList' /\ Len(nodes') = Len(nodes) + 1
      /\ head' \in Cell \cup {NULL} /\ tail' \in Cell \cup {NULL}
      /\ ptr' \in [Cell -> Cell \cup {NULL}]
      /\ data' \in [Cell -> Message \cup {NoMessage}]
      /\ nodes' \in Seq(Cell)
  BY <1>1, <1>3, HeadGrows, TailGrows
<1>5. at' = [at EXCEPT ![t] = "counting"] /\ at' \in [Threads -> At]
  BY <1>2 DEF Goto, LlqTypeOK
<1>6. MutexHeld' /\ CountMatchesList' /\ access' \in {0, 1}
  <2>1. count' = count + 0 /\ Len(nodes') = Len(nodes) + 1
    BY <1>2, <1>4 DEF LlqTypeOK
  <2>2. 1 = (IF at[t] \in {"linking", "removing"} THEN 1 ELSE 0)
            - (IF "counting" \in {"linking", "removing"} THEN 1 ELSE 0)
    BY <1>2
  <2>3. 1 = 0 + (IF "counting" \in {"granted", "tested", "removing"} THEN 1 ELSE 0)
              - (IF at[t] \in {"granted", "tested", "removing"} THEN 1 ELSE 0)
              + (IF "counting" = "counting" THEN 1 ELSE 0)
              - (IF at[t] = "counting" THEN 1 ELSE 0)
    BY <1>2
  <2> HIDE DEF LlqInv
  <2> QED BY <1>2, <2>1, <2>2, <2>3, CountsMove
<1>7. LlqTypeOK'
  BY <1>2, <1>4, <1>5, <1>6 DEF LlqTypeOK
<1>8. ItemsHeld' /\ NoneEmpty'
  BY <1>2, <1>5 DEF ItemsHeld, NoneEmpty, LlqTypeOK
<1> QED BY <1>4, <1>6, <1>7, <1>8

LEMMA RemoveKeeps ==
    ASSUME LlqInv, NEW t \in Threads, Remove(t)
    PROVE  LlqInv'
<1> USE DEF LlqInv
<1>1. /\ at[t] = "removing" /\ Goto(t, "got") /\ access' = access + 1
      /\ count' = count /\ "got" \in At
      /\ \A u \in Threads \ {t} : item'[u] = item[u]
  BY DEF Remove, At, LlqTypeOK
<1>2. at' = [at EXCEPT ![t] = "got"] /\ at' \in [Threads -> At]
  BY <1>1 DEF Goto, LlqTypeOK
<1>3. MutexHeld' /\ CountMatchesList' /\ access' \in {0, 1}
  <2>1. count' = count + 0 /\ Len(nodes') = Len(nodes) + (-1)
    <3>1. Len(nodes') = Len(nodes) - 1
      BY HeadLeaves
    <3> QED BY <1>1, <3>1 DEF LlqTypeOK
  <2>2. 1 = (IF at[t] \in {"linking", "removing"} THEN 1 ELSE 0)
            - (IF "got" \in {"linking", "removing"} THEN 1 ELSE 0)
    BY <1>1
  <2>3. -1 = 0 + (IF "got" \in {"granted", "tested", "removing"} THEN 1 ELSE 0)
               - (IF at[t] \in {"granted", "tested", "removing"} THEN 1 ELSE 0)
               + (IF "got" = "counting" THEN 1 ELSE 0)
               - (IF at[t] = "counting" THEN 1 ELSE 0)
    BY <1>1
  <2> HIDE DEF LlqInv
  <2> QED BY <1>1, <2>1, <2>2, <2>3, CountsMove
<1>4. LlqTypeOK'
  BY <1>1, <1>2, <1>3, HeadLeaves DEF LlqTypeOK
<1>5. ItemsHeld' /\ NoneEmpty'
  BY <1>1, <1>2 DEF ItemsHeld, NoneEmpty, LlqTypeOK
<1> QED BY <1>3, <1>4, <1>5, HeadLeaves

\* The steps that move one of the semaphores, or none.
LEMMA StepKeeps ==
    ASSUME LlqInv, NEW t \in Threads,
           \/ AddLock(t) \/ Count(t) \/ Grant(t) \/ GiveUp(t)
           \/ TestHead(t) \/ TakeLock(t) \/ Return(t)
    PROVE  LlqInv'
<1> USE DEF LlqInv
<1>1. UNCHANGED <<head, tail, ptr, data, nodes>>
  BY DEF AddLock, Count, Grant, GiveUp, TestHead, TakeLock, Return
<1>2. ASSUME NEW to \in At, Goto(t, to), to # "empty", access' \in {0, 1},
             count' \in Nat, item' \in [Threads -> Message \cup {NoMessage}],
             \A u \in Threads \ {t} : item'[u] = item[u],
             to \in {"linking", "removing"} => access > 0,
             to \in {"adding", "linking"} => item'[t] \in Message,
             access' = access
               + ((IF at[t] \in {"linking", "removing"} THEN 1 ELSE 0)
                  - (IF to \in {"linking", "removing"} THEN 1 ELSE 0)),
             count' = count
               + ((IF at[t] \in {"granted", "tested", "removing"} THEN 1 ELSE 0)
                  - (IF to \in {"granted", "tested", "removing"} THEN 1 ELSE 0)
                  + (IF at[t] = "counting" THEN 1 ELSE 0)
                  - (IF to = "counting" THEN 1 ELSE 0))
      PROVE  LlqInv'
  <2>1. at' = [at EXCEPT ![t] = to] /\ at' \in [Threads -> At]
    BY <1>2 DEF Goto, LlqTypeOK
  <2>2. LlqTypeOK'
    BY <1>1, <1>2, <2>1, ListKept DEF LlqTypeOK
  <2>3. ItemsHeld' /\ NoneEmpty'
    BY <1>2, <2>1 DEF ItemsHeld, NoneEmpty, LlqTypeOK
  <2>4. access \in {0, 1} /\ count \in Nat /\ Len(nodes) \in Nat /\ Len(nodes') = Len(nodes)
    BY <1>1 DEF LlqTypeOK
  <2> DEFINE a == (IF at[t] \in {"linking", "removing"} THEN 1 ELSE 0)
                  - (IF to \in {"linking", "removing"} THEN 1 ELSE 0)
             c == (IF at[t] \in {"granted", "tested", "removing"} THEN 1 ELSE 0)
                  - (IF to \in {"granted", "tested", "removing"} THEN 1 ELSE 0)
                  + (IF at[t] = "counting" THEN 1 ELSE 0)
                  - (IF to = "counting" THEN 1 ELSE 0)
  <2>5. /\ a \in Int /\ c \in Int /\ Len(nodes') = Len(nodes) + 0
        /\ 0 = c + (IF to \in {"granted", "tested", "removing"} THEN 1 ELSE 0)
                 - (IF at[t] \in {"granted", "tested", "removing"} THEN 1 ELSE 0)
                 + (IF to = "counting" THEN 1 ELSE 0)
                 - (IF at[t] = "counting" THEN 1 ELSE 0)
    BY <2>4
  <2>6. MutexHeld' /\ CountMatchesList'
    <3>1. access' = access + a /\ count' = count + c /\ (a < 0 => access > 0)
      BY <1>2
    <3> HIDE DEF LlqInv, a, c
    <3>2. a = (IF at[t] \in {"linking", "removing"} THEN 1 ELSE 0)
              - (IF to \in {"linking", "removing"} THEN 1 ELSE 0)
      BY DEF a
    <3>3. Goto(t, to)
      BY <1>2
    <3>4. LlqInv
      OBVIOUS
    <3> DEFINE n == 0
    <3>5. n \in Int /\ Len(nodes') = Len(nodes) + n
      BY <2>5
    <3>6. n = c + (IF to \in {"granted", "tested", "removing"} THEN 1 ELSE 0)
                - (IF at[t] \in {"granted", "tested", "removing"} THEN 1 ELSE 0)
                + (IF to = "counting" THEN 1 ELSE 0)
                - (IF at[t] = "counting" THEN 1 ELSE 0)
      BY <2>5
    <3>7. a \in Int /\ c \in Int
      BY <2>5
    <3> HIDE DEF n
    <3> QED BY <3>1, <3>2, <3>3, <3>4, <3>5, <3>6, <3>7, CountsMove
  <2> QED BY <1>1, <2>2, <2>3, <2>6, ListKept
<1>3. at[t] \in At /\ access \in {0, 1} /\ count \in Nat
      /\ item \in [Threads -> Message \cup {NoMessage}]
  BY DEF LlqTypeOK
<1>4. CASE AddLock(t)
  <2>1. "linking" \in At /\ item[t] \in Message
    BY <1>4 DEF At, AddLock, ItemsHeld
  <2> QED BY <1>2, <1>3, <1>4, <2>1 DEF AddLock
<1>5. CASE Count(t)
  <2>1. "out" \in At /\ item' \in [Threads -> Message \cup {NoMessage}]
        /\ \A u \in Threads \ {t} : item'[u] = item[u]
    BY <1>3, <1>5 DEF At, Count
  <2> QED BY <1>2, <1>3, <1>5, <2>1 DEF Count
<1>6. CASE Grant(t)
  <2>1. "granted" \in At
    BY DEF At
  <2> QED BY <1>2, <1>3, <1>6, <2>1 DEF Grant
<1>7. CASE GiveUp(t)
  <2>1. "out" \in At
    BY DEF At
  <2> QED BY <1>2, <1>3, <1>7, <2>1 DEF GiveUp
<1>8. CASE TestHead(t)
  <2>1. "tested" \in At
    BY DEF At
  <2>2. head # NULL
    BY <1>8, ClaimFindsHead DEF TestHead, HeadThere
  <2> QED BY <1>2, <1>3, <1>8, <2>1, <2>2 DEF TestHead
<1>9. CASE TakeLock(t)
  <2>1. "removing" \in At
    BY DEF At
  <2> QED BY <1>2, <1>3, <1>9, <2>1 DEF TakeLock
<1>10. CASE Return(t)
  <2>1. "out" \in At
    BY DEF At
  <2> QED BY <1>2, <1>3, <1>10, <2>1 DEF Return, NoneEmpty
<1> QED BY <1>4, <1>5, <1>6, <1>7, <1>8, <1>9, <1>10

LEMMA LlqInvStep == LlqInv /\ [LlqNext]_llqVars => LlqInv'
<1> SUFFICES ASSUME LlqInv, [LlqNext]_llqVars PROVE LlqInv'
  OBVIOUS
<1>1. CASE UNCHANGED llqVars
  <2>1. LlqTypeOK' /\ ItemsHeld' /\ NoneEmpty'
    BY <1>1 DEF LlqInv, LlqTypeOK, ItemsHeld, NoneEmpty, llqVars
  <2>2. InMutex' = InMutex /\ Claimants' = Claimants /\ Uncounted' = Uncounted
    BY <1>1 DEF InMutex, Claimants, Uncounted, llqVars
  <2>3. MutexHeld' /\ CountMatchesList'
    BY <1>1, <2>2 DEF LlqInv, MutexHeld, CountMatchesList, llqVars
  <2>4. PointersAreList'
    BY <1>1 DEF LlqInv, PointersAreList, llqVars
  <2> QED BY <2>1, <2>3, <2>4 DEF LlqInv
<1>2. CASE LlqNext
  BY <1>2, CallKeeps, LinkKeeps, RemoveKeeps, StepKeeps DEF LlqNext, LlqStep
<1> QED BY <1>1, <1>2

LEMMA LlqInvariance == LlqSpec => []LlqInv
BY LlqInvInit, LlqInvStep, PTL DEF LlqSpec

\* The queue is intact at every step of its receivers and senders (queue.c): who
\* was granted a message finds one, though the head is read without the mutex;
\* the count is what is on the list; and the pointers are the list.
THEOREM QueueStaysIntact == LlqSpec => []QueueIntact
<1>1. LlqInv => QueueIntact
  BY ClaimFindsHead DEF LlqInv, QueueIntact
<1> QED BY <1>1, LlqInvariance, PTL

--------------------------------------------------------------------------------
(* The queue implements MessageQueue.                                        *)

Value == Message \cup {NoMessage}
\* What MessageQueue sees of the state.
Contents == [i \in 1 .. Len(nodes) |-> data[nodes[i]]]
Handed == [t \in Threads |-> IF at[t] \in {"adding", "linking", "counting"}
                             THEN NoMessage ELSE item[t]]

LEMMA ContentsType ==
    ASSUME LlqTypeOK
    PROVE  /\ Contents \in Seq(Value) /\ Len(Contents) = Len(nodes)
           /\ \A i \in 1 .. Len(nodes) : Contents[i] = data[nodes[i]]
<1>1. Len(nodes) \in Nat /\ \A i \in 1 .. Len(nodes) : nodes[i] \in Cell
  BY DEF LlqTypeOK
<1>2. Contents \in [1 .. Len(nodes) -> Value]
  BY <1>1 DEF Contents, Value, LlqTypeOK
<1>3. Contents \in Seq(Value)
  BY <1>1, <1>2
<1>4. Len(Contents) = Len(nodes)
  <2>1. DOMAIN Contents = 1 .. Len(nodes)
    BY DEF Contents
  <2> QED BY <1>1, <1>3, <2>1
<1> QED BY <1>3, <1>4 DEF Contents

\* The same after a step.
LEMMA ContentsTypeNext ==
    ASSUME LlqTypeOK'
    PROVE  /\ Contents' \in Seq(Value) /\ Len(Contents') = Len(nodes')
           /\ \A i \in 1 .. Len(nodes') : Contents'[i] = data'[nodes'[i]]
<1>1. Len(nodes') \in Nat /\ \A i \in 1 .. Len(nodes') : nodes'[i] \in Cell
  BY DEF LlqTypeOK
<1>2. Contents' \in [1 .. Len(nodes') -> Value]
  BY <1>1 DEF Contents, Value, LlqTypeOK
<1>3. Contents' \in Seq(Value)
  BY <1>1, <1>2
<1>4. Len(Contents') = Len(nodes')
  <2>1. DOMAIN Contents' = 1 .. Len(nodes')
    BY DEF Contents
  <2> QED BY <1>1, <1>3, <2>1
<1> QED BY <1>3, <1>4 DEF Contents

LEMMA SameSequence ==
    ASSUME NEW S, NEW s \in Seq(S), NEW r \in Seq(S), Len(s) = Len(r),
           \A i \in 1 .. Len(s) : s[i] = r[i]
    PROVE  s = r
OBVIOUS

LEMMA InitIsEmpty == LlqInit => Queue!Init
<1> SUFFICES ASSUME LlqInit PROVE Contents = << >> /\ Handed = [t \in Threads |-> NoMessage]
  BY DEF Queue!Init, Contents, Handed
<1>1. Len(nodes) = 0
  BY DEF LlqInit
<1>2. Contents = << >>
  BY <1>1 DEF Contents
<1>3. Handed = [t \in Threads |-> NoMessage]
  BY DEF LlqInit, Handed
<1> QED BY <1>2, <1>3

\* A step that leaves list and messages alone changes at most what is handed.
LEMMA ContentsKept ==
    ASSUME UNCHANGED <<data, nodes>>
    PROVE  Contents' = Contents
BY DEF Contents

LEMMA CallAsks ==
    ASSUME LlqInv, NEW t \in Threads,
           \/ \E m \in Message : llq_add(t, m)
           \/ llq_timedreceive(t)
           \/ llq_receive(t)
    PROVE  Queue!Ask(t)
<1>1. LlqTypeOK
  BY DEF LlqInv
<1>2. Contents' = Contents
  BY ContentsKept DEF llq_add, llq_timedreceive, llq_receive
<1>3. Handed' = [Handed EXCEPT ![t] = NoMessage]
  <2>1. CASE \E m \in Message : llq_add(t, m)
    BY <1>1, <2>1 DEF llq_add, Handed, Goto, LlqTypeOK
  <2>2. CASE llq_timedreceive(t)
    BY <1>1, <2>2 DEF llq_timedreceive, Handed, Goto, LlqTypeOK
  <2>3. CASE llq_receive(t)
    BY <1>1, <2>3 DEF llq_receive, Handed, Goto, LlqTypeOK
  <2> QED BY <2>1, <2>2, <2>3
<1> QED BY <1>2, <1>3 DEF Queue!Ask, Contents, Handed

LEMMA LinkAdds ==
    ASSUME LlqInv, NEW t \in Threads, Link(t)
    PROVE  Queue!Add(item[t]) /\ item[t] \in Message
<1>1. /\ LlqTypeOK /\ LlqTypeOK' /\ PointersAreList
      /\ at[t] = "linking" /\ item[t] \in Message
  BY LinkKeeps DEF LlqInv, ItemsHeld, Link
<1>2. PICK c \in Fresh : IF item[t] \in Urgent THEN addToHead(c, item[t])
                                               ELSE addToTail(c, item[t])
  BY DEF Link
<1>3. /\ c \in Cell /\ \A i \in 1 .. Len(nodes) : nodes[i] # c /\ nodes[i] \in Cell
      /\ nodes \in Seq(Cell) /\ Len(nodes) \in Nat
  BY <1>1 DEF Fresh, InUse, LlqTypeOK
<1>4. data' = [data EXCEPT ![c] = item[t]] /\ data \in [Cell -> Value]
  BY <1>1, <1>2 DEF addToHead, addToTail, LlqTypeOK, Value
<1>5. /\ data'[c] = item[t]
      /\ \A i \in 1 .. Len(nodes) : data'[nodes[i]] = data[nodes[i]]
  BY <1>3, <1>4
<1>6. Handed' = Handed
  BY <1>1 DEF Link, Goto, Handed, LlqTypeOK
<1>7. /\ Contents \in Seq(Value) /\ Len(Contents) = Len(nodes)
      /\ \A i \in 1 .. Len(nodes) : Contents[i] = data[nodes[i]]
  BY <1>1, ContentsType
<1>8. /\ Contents' \in Seq(Value) /\ Len(Contents') = Len(nodes')
      /\ \A i \in 1 .. Len(nodes') : Contents'[i] = data'[nodes'[i]]
  BY <1>1, ContentsTypeNext
<1>9. item[t] \in Value
  BY <1>1 DEF Value
<1>10. CASE item[t] \in Urgent
  <2> DEFINE r == <<item[t]>> \o Contents
  <2>1. /\ Len(nodes') = Len(nodes) + 1 /\ nodes'[1] = c
        /\ \A i \in 1 .. Len(nodes) : nodes'[i + 1] = nodes[i]
    BY <1>2, <1>3, <1>10, Prepended DEF addToHead
  <2>2. /\ r \in Seq(Value) /\ Len(r) = Len(nodes) + 1 /\ r[1] = item[t]
        /\ \A i \in 1 .. Len(nodes) : r[i + 1] = Contents[i]
    BY <1>7, <1>9, Prepended
  <2> HIDE DEF r
  <2>3. ASSUME NEW i \in 1 .. Len(nodes) + 1 PROVE Contents'[i] = r[i]
    <3>1. CASE i = 1
      BY <1>3, <1>5, <1>8, <2>1, <2>2, <3>1
    <3>2. CASE i # 1
      <4>1. i - 1 \in 1 .. Len(nodes) /\ (i - 1) + 1 = i
        BY <1>3, <3>2
      <4>2. nodes'[i] = nodes[i - 1] /\ r[i] = Contents[i - 1]
        BY <2>1, <2>2, <4>1
      <4> QED BY <1>5, <1>7, <1>8, <2>1, <4>1, <4>2
    <3> QED BY <3>1, <3>2
  <2>4. Contents' = r
    BY <1>8, <2>1, <2>2, <2>3, SameSequence
  <2> QED BY <1>1, <1>6, <1>10, <2>4 DEF Queue!Add, Contents, Handed, r
<1>11. CASE item[t] \notin Urgent
  <2> DEFINE r == Append(Contents, item[t])
  <2>1. /\ Len(nodes') = Len(nodes) + 1 /\ nodes'[Len(nodes) + 1] = c
        /\ \A i \in 1 .. Len(nodes) : nodes'[i] = nodes[i]
    BY <1>2, <1>3, <1>11, Appended DEF addToTail
  <2>2. /\ r \in Seq(Value) /\ Len(r) = Len(nodes) + 1 /\ r[Len(nodes) + 1] = item[t]
        /\ \A i \in 1 .. Len(nodes) : r[i] = Contents[i]
    BY <1>7, <1>9, Appended
  <2> HIDE DEF r
  <2>3. ASSUME NEW i \in 1 .. Len(nodes) + 1 PROVE Contents'[i] = r[i]
    <3>1. CASE i = Len(nodes) + 1
      BY <1>3, <1>5, <1>8, <2>1, <2>2, <3>1
    <3>2. CASE i # Len(nodes) + 1
      <4>1. i \in 1 .. Len(nodes)
        BY <1>3, <3>2
      <4> QED BY <1>5, <1>7, <1>8, <2>1, <2>2, <4>1
    <3> QED BY <3>1, <3>2
  <2>4. Contents' = r
    BY <1>8, <2>1, <2>2, <2>3, SameSequence
  <2> QED BY <1>1, <1>6, <1>11, <2>4 DEF Queue!Add, Contents, Handed, r
<1> QED BY <1>10, <1>11

LEMMA RemoveHandsOut ==
    ASSUME LlqInv, NEW t \in Threads, Remove(t)
    PROVE  Queue!HandOut(t)
<1>1. LlqTypeOK /\ LlqTypeOK' /\ PointersAreList /\ at[t] = "removing"
  BY RemoveKeeps DEF LlqInv, Remove
<1>2. /\ nodes # << >> /\ head = nodes[1] /\ nodes' = Tail(nodes)
      /\ data' = [data EXCEPT ![head] = NoMessage]
      /\ item' = [item EXCEPT ![t] = data[nodes[1]]]
  BY <1>1 DEF Remove, PointersAreList
<1>3. /\ nodes \in Seq(Cell) /\ Len(nodes) \in Nat \ {0}
      /\ Len(nodes') = Len(nodes) - 1
      /\ \A i \in 1 .. Len(nodes) - 1 : nodes'[i] = nodes[i + 1]
      /\ \A i \in 1 .. Len(nodes) : nodes[i] \in Cell
  BY <1>1, <1>2, Shortened DEF LlqTypeOK
<1>4. \A i \in 1 .. Len(nodes) - 1 : data'[nodes[i + 1]] = data[nodes[i + 1]]
  <2> TAKE i \in 1 .. Len(nodes) - 1
  <2>1. i + 1 \in 1 .. Len(nodes) /\ 1 \in 1 .. Len(nodes) /\ i + 1 # 1
    BY <1>3
  <2>2. nodes[i + 1] # head /\ nodes[i + 1] \in Cell
    BY <1>1, <1>2, <1>3, <2>1 DEF PointersAreList
  <2> QED BY <1>1, <1>2, <2>2 DEF LlqTypeOK
<1>5. /\ Contents \in Seq(Value) /\ Len(Contents) = Len(nodes)
      /\ \A i \in 1 .. Len(nodes) : Contents[i] = data[nodes[i]]
  BY <1>1, ContentsType
<1>6. /\ Contents' \in Seq(Value) /\ Len(Contents') = Len(nodes')
      /\ \A i \in 1 .. Len(nodes') : Contents'[i] = data'[nodes'[i]]
  BY <1>1, ContentsTypeNext
<1>7. Contents # << >> /\ Head(Contents) = data[nodes[1]]
  BY <1>3, <1>5
<1>8. /\ Tail(Contents) \in Seq(Value) /\ Len(Tail(Contents)) = Len(nodes) - 1
      /\ \A i \in 1 .. Len(nodes) - 1 : Tail(Contents)[i] = Contents[i + 1]
  BY <1>5, <1>7, Shortened
<1>9. Contents' = Tail(Contents)
  <2>1. ASSUME NEW i \in 1 .. Len(nodes) - 1 PROVE Contents'[i] = Tail(Contents)[i]
    <3>1. i + 1 \in 1 .. Len(nodes)
      BY <1>3
    <3> QED BY <1>3, <1>4, <1>5, <1>6, <1>8, <3>1
  <2> QED BY <1>3, <1>6, <1>8, <2>1, SameSequence
<1>10. Handed' = [Handed EXCEPT ![t] = data[nodes[1]]]
  BY <1>1, <1>2 DEF Remove, Goto, Handed, LlqTypeOK
<1> QED BY <1>7, <1>9, <1>10 DEF Queue!HandOut, Contents, Handed

LEMMA StepIsUnseen ==
    ASSUME LlqInv, NEW t \in Threads,
           \/ AddLock(t) \/ Count(t) \/ Grant(t) \/ GiveUp(t)
           \/ TestHead(t) \/ TakeLock(t) \/ Return(t)
    PROVE  UNCHANGED Queue!vars
<1>1. LlqTypeOK
  BY DEF LlqInv
<1>2. Contents' = Contents
  BY ContentsKept DEF AddLock, Count, Grant, GiveUp, TestHead, TakeLock, Return
<1>3. Handed' = Handed
  <2>1. CASE AddLock(t)
    BY <1>1, <2>1 DEF AddLock, Handed, Goto, LlqTypeOK
  <2>2. CASE Count(t)
    BY <1>1, <2>2 DEF Count, Handed, Goto, LlqTypeOK
  <2>3. CASE Grant(t) \/ GiveUp(t) \/ TakeLock(t) \/ Return(t)
    BY <1>1, <2>3 DEF Grant, GiveUp, TakeLock, Return, Handed, Goto, LlqTypeOK
  <2>4. CASE TestHead(t)
    BY <1>1, <2>4 DEF TestHead, Handed, Goto, LlqTypeOK
  <2> QED BY <2>1, <2>2, <2>3, <2>4
<1> QED BY <1>2, <1>3 DEF Queue!vars, Contents, Handed

LEMMA StepImplements == LlqInv /\ [LlqNext]_llqVars => [Queue!Next]_Queue!vars
<1> SUFFICES ASSUME LlqInv, [LlqNext]_llqVars PROVE [Queue!Next]_Queue!vars
  OBVIOUS
<1>1. CASE UNCHANGED llqVars
  BY <1>1 DEF llqVars, Queue!vars
<1>2. CASE LlqNext
  <2>1. PICK t \in Threads : \/ \E m \in Message : llq_add(t, m)
                             \/ llq_timedreceive(t) \/ llq_receive(t)
                             \/ LlqStep(t)
    BY <1>2 DEF LlqNext
  <2>2. CASE \/ \E m \in Message : llq_add(t, m)
             \/ llq_timedreceive(t) \/ llq_receive(t)
    BY <2>2, CallAsks DEF Queue!Next
  <2>3. CASE LlqStep(t)
    <3>1. CASE Link(t)
      <4>1. item[t] \in Message /\ Queue!Add(item[t])
        BY <3>1, LinkAdds
      <4>2. \E m \in Message : Queue!Add(m)
        BY <4>1 DEF Queue!Add
      <4> QED BY <4>2 DEF Queue!Next
    <3>2. CASE Remove(t)
      BY <3>2, RemoveHandsOut DEF Queue!Next
    <3>3. CASE \/ AddLock(t) \/ Count(t) \/ Grant(t) \/ GiveUp(t)
               \/ TestHead(t) \/ TakeLock(t) \/ Return(t)
      BY <3>3, StepIsUnseen
    <3> QED BY <2>3, <3>1, <3>2, <3>3 DEF LlqStep
  <2> QED BY <2>1, <2>2, <2>3
<1> QED BY <1>1, <1>2

\* The linked list with its two semaphores is a queue: an urgent message goes to
\* the head, another to the tail, and who receives is handed the head (queue.c).
THEOREM ImplementsMessageQueue == LlqSpec => IsMessageQueue
<1>1. LlqInit => Queue!Init
  BY InitIsEmpty
<1>2. LlqInv /\ [LlqNext]_llqVars => [Queue!Next]_Queue!vars
  BY StepImplements
<1> QED BY <1>1, <1>2, LlqInvariance, PTL DEF LlqSpec, IsMessageQueue, Queue!Spec

--------------------------------------------------------------------------------
(* What the messages are made of.                                            *)

LEMMA RequestFields ==
    ASSUME NEW r \in Request
    PROVE  /\ r.type \in {"SREQ", "AREQ"} /\ r.id \in Ids
           /\ r.type = "SREQ" => r.sub \in Subs /\ Srsp(r) \in Message
           /\ Srsp(r).type = "SRSP" /\ Srsp(r).id = r.id
<1>1. CASE r \in [type : {"SREQ"}, sub : Subs, id : Ids]
  BY <1>1, MessageAssumption DEF Ids, Srsp
<1>2. CASE r \in [type : {"AREQ"}, id : Ids]
  BY <1>2 DEF Srsp
<1> QED BY <1>1, <1>2 DEF Request

LEMMA MessageFields ==
    ASSUME NEW m \in Message
    PROVE  /\ m.type \in {"SRSP", "AREQ"}
           /\ m.type = "SRSP" => m \in Srsps /\ m.sub \in Subs /\ m.id \in Ids
<1>1. CASE m \in [type : {"SRSP"}, sub : Subs, id : 1 .. MaxRequests]
  BY <1>1 DEF Ids, Srsps
<1>2. CASE m \in [type : {"AREQ"}, id : 1 .. MaxAreqs]
  BY <1>2
<1> QED BY <1>1, <1>2, MessageAssumption

LEMMA IndicationIsMessage ==
    ASSUME NEW n \in 1 .. MaxAreqs
    PROVE  [type |-> "AREQ", id |-> n] \in Message
BY MessageAssumption

--------------------------------------------------------------------------------
(* What every variable holds.                                                *)

\* What is on the list is a message, and so is what a receiver was handed.
RealMessages ==
    /\ \A i \in 1 .. Len(nodes) : data[nodes[i]] \in Message
    /\ \A t \in Threads : at[t] = "got" => item[t] \in Message
\* The receiving thread has the response it posts for and then adds.
FrameHeld == rxpc \in {"post", "add"} => frame \in Srsps
\* A thread inside a request function has its request, and waits for an answer
\* only if it wants one.
RequestsMade ==
    \A t \in Apps : /\ pc[t] \notin {"idle", "listening"} => req[t] \in Request
                    /\ pc[t] \in {"await", "clear"} => req[t].type = "SREQ"
\* Who is inside the queue's code is there to receive.
ReceivesOutside ==
    \A t \in Apps : at[t] # "out" => pc[t] \in {"receiving", "listening"}

RpcInv == /\ TypeOK /\ LlqInv /\ RealMessages
          /\ FrameHeld /\ RequestsMade /\ ReceivesOutside
          /\ OneRequestAtATime

--------------------------------------------------------------------------------
(* Counting the application's threads.                                       *)

AppsAt(places) == {t \in Apps : pc[t] \in places}
SendingPlaces == {"write", "await", "clear", "unlock"}

LEMMA AppsMove ==
    ASSUME pc \in [Apps -> Pc], NEW t \in Apps, NEW to \in Pc, NEW P,
           pc' = [pc EXCEPT ![t] = to]
    PROVE  /\ IsFiniteSet(AppsAt(P)) /\ IsFiniteSet(AppsAt(P)')
           /\ Cardinality(AppsAt(P)) \in Nat /\ Cardinality(AppsAt(P)') \in Nat
           /\ Cardinality(AppsAt(P)') =
                Cardinality(AppsAt(P)) + (IF to \in P THEN 1 ELSE 0)
                                       - (IF pc[t] \in P THEN 1 ELSE 0)
<1> DEFINE S == AppsAt(P)
           R == AppsAt(P) \ {t}
<1>1. IsFiniteSet(S) /\ IsFiniteSet(R) /\ t \notin R
  BY ThreadsFinite, ThreadsAssumption, FS_Subset, FS_RemoveElement DEF AppsAt
<1>2. S = (IF pc[t] \in P THEN R \cup {t} ELSE R)
  BY DEF AppsAt
<1>3. S' = (IF to \in P THEN R \cup {t} ELSE R)
  BY DEF AppsAt
<1>4. /\ IsFiniteSet(R \cup {t})
      /\ Cardinality(R \cup {t}) = Cardinality(R) + 1 /\ Cardinality(R) \in Nat
  BY <1>1, FS_AddElement, FS_CardinalityType
<1> HIDE DEF R, S
<1> QED BY <1>1, <1>2, <1>3, <1>4 DEF S

LEMMA AppsAtFinite == \A P : /\ IsFiniteSet(AppsAt(P))
                             /\ Cardinality(AppsAt(P)) \in Nat
BY ThreadsFinite, ThreadsAssumption, FS_Subset, FS_CardinalityType DEF AppsAt

LEMMA SendingIsAt == Sending = AppsAt(SendingPlaces) /\ Sending' = AppsAt(SendingPlaces)'
BY DEF Sending, AppsAt, SendingPlaces

\* Who sends has the mutex, and is the only one.
LEMMA SenderIsAlone ==
    ASSUME OneRequestAtATime, TypeOK, NEW t \in Sending
    PROVE  rpcSem = 0 /\ Sending = {t}
<1>1. IsFiniteSet(Sending) /\ Cardinality(Sending) \in Nat
  BY AppsAtFinite, SendingIsAt
<1>2. Cardinality(Sending) # 0
  BY <1>1, FS_EmptySet
<1>3. rpcSem = 0 /\ Cardinality(Sending) = 1
  BY <1>1, <1>2 DEF OneRequestAtATime, TypeOK
<1>4. \E x : Sending = {x}
  BY <1>1, <1>3, FS_Singleton
<1> QED BY <1>3, <1>4

\* A free mutex is not waited for by anyone who sends; nothing is awaited.
LEMMA FreeMutex ==
    ASSUME OneRequestAtATime, TypeOK, rpcSem > 0
    PROVE  rpcSem = 1 /\ Sending = {} /\ expected = NONE
<1>1. IsFiniteSet(Sending) /\ Cardinality(Sending) \in Nat
  BY AppsAtFinite, SendingIsAt
<1>2. rpcSem = 1 /\ Cardinality(Sending) = 0
  BY <1>1 DEF OneRequestAtATime, TypeOK
<1>3. Sending = {}
  BY <1>1, <1>2, FS_EmptySet
<1> QED BY <1>2, <1>3 DEF OneRequestAtATime

LEMMA RpcInvInit == Init => RpcInv
<1> SUFFICES ASSUME Init PROVE RpcInv
  OBVIOUS
<1>1. LlqInv /\ LlqTypeOK
  BY LlqInvInit DEF Init, LlqInv
<1>2. TypeOK
  BY <1>1, BoundsAssumption DEF Init, TypeOK, Pc, Ids
<1>3. RealMessages
  BY DEF Init, LlqInit, RealMessages
<1>4. FrameHeld /\ RequestsMade /\ ReceivesOutside
  BY ThreadsAssumption DEF Init, LlqInit, FrameHeld, RequestsMade, ReceivesOutside
<1>5. OneRequestAtATime
  <2>1. Sending = {}
    BY DEF Init, Sending
  <2> QED BY <2>1, FS_EmptySet DEF Init, OneRequestAtATime
<1> QED BY <1>1, <1>2, <1>3, <1>4, <1>5 DEF RpcInv

\* Every step of Rpc is one of the queue's, or none of its.
LEMMA StepsTheQueue ==
    ASSUME RpcInv, [Next]_vars
    PROVE  [LlqNext]_llqVars
<1>1. CASE UNCHANGED vars
  BY <1>1 DEF vars
<1>2. Apps \subseteq Threads /\ Rx \in Threads
  BY ThreadsAssumption
<1>3. ASSUME NEW t \in Apps, \/ Call(t) \/ Listen(t) \/ rpcSendFrame(t)
                             \/ rpcWaitMqClientMsg(t) \/ Status(t)
      PROVE  [LlqNext]_llqVars
  <2>1. CASE Call(t) \/ rpcSendFrame(t) \/ Status(t) \/ NoMessageCame(t)
    BY <2>1 DEF Call, rpcSendFrame, Enter, Write, Await, Clear, Unlock, Status,
                NoMessageCame
  <2>2. CASE Listen(t) \/ Receive(t)
    BY <1>2, <2>2 DEF Listen, Receive, LlqNext
  <2>3. CASE AppQueueStep(t) \/ mtProcess(t)
    BY <1>2, <2>3 DEF AppQueueStep, mtProcess, LlqNext, LlqStep
  <2> QED BY <1>3, <2>1, <2>2, <2>3 DEF rpcWaitMqClientMsg
<1>4. CASE Read
  <2>1. Head(line) \in Message
    BY <1>4 DEF Read, RpcInv, TypeOK
  <2> QED BY <1>2, <1>4, <2>1 DEF Read, LlqNext
<1>5. CASE AddResponse
  <2>1. frame \in Message
    BY <1>5 DEF AddResponse, RpcInv, FrameHeld, Srsps
  <2> QED BY <1>2, <1>5, <2>1 DEF AddResponse, LlqNext
<1>6. CASE RxQueueStep
  BY <1>2, <1>6 DEF RxQueueStep, LlqNext
<1>7. CASE Post \/ Answer \/ Indicate
  BY <1>7 DEF Post, Answer, Indicate
<1>8. Senders \subseteq Apps /\ Listeners \subseteq Apps
  BY ThreadsAssumption
<1> QED BY <1>1, <1>3, <1>4, <1>5, <1>6, <1>7, <1>8 DEF Next, rpcProcess

LEMMA RealMessagesKept ==
    ASSUME LlqInv, RealMessages, [LlqNext]_llqVars
    PROVE  RealMessages'
<1>1. LlqTypeOK /\ PointersAreList /\ ItemsHeld
  BY DEF LlqInv
<1>2. CASE UNCHANGED llqVars
  BY <1>2 DEF RealMessages, llqVars
<1>3. ASSUME NEW t \in Threads,
             \/ \E m \in Message : llq_add(t, m)
             \/ llq_timedreceive(t) \/ llq_receive(t)
             \/ AddLock(t) \/ Count(t) \/ Grant(t) \/ GiveUp(t) \/ TestHead(t)
             \/ TakeLock(t) \/ Return(t)
      PROVE  RealMessages'
  <2>1. UNCHANGED <<nodes, data>>
    BY <1>3 DEF llq_add, llq_timedreceive, llq_receive, AddLock, Count, Grant,
                GiveUp, TestHead, TakeLock, Return
  <2>2. \E to \in At \ {"got"} : Goto(t, to)
    BY <1>3 DEF llq_add, llq_timedreceive, llq_receive, AddLock, Count, Grant,
                GiveUp, TestHead, TakeLock, Return, At
  <2>3. \A u \in Threads \ {t} : item'[u] = item[u]
    BY <1>1, <1>3 DEF llq_add, llq_timedreceive, llq_receive, AddLock, Count, Grant,
                GiveUp, TestHead, TakeLock, Return, LlqTypeOK
  <2>4. \A u \in Threads : at'[u] = "got" => at[u] = "got" /\ u # t
    BY <1>1, <2>2 DEF Goto, LlqTypeOK
  <2> QED BY <2>1, <2>3, <2>4 DEF RealMessages
<1>4. ASSUME NEW t \in Threads, Link(t)
      PROVE  RealMessages'
  <2>1. item[t] \in Message /\ item' = item
    BY <1>1, <1>4 DEF Link, ItemsHeld
  <2>2. PICK c \in Fresh : IF item[t] \in Urgent THEN addToHead(c, item[t])
                                                 ELSE addToTail(c, item[t])
    BY <1>4 DEF Link
  <2>3. /\ c \in Cell /\ Len(nodes) \in Nat /\ nodes \in Seq(Cell)
        /\ \A i \in 1 .. Len(nodes) : nodes[i] # c /\ nodes[i] \in Cell
    BY <1>1 DEF Fresh, InUse, LlqTypeOK
  <2>4. data' = [data EXCEPT ![c] = item[t]]
    BY <2>2 DEF addToHead, addToTail
  <2>5. /\ data'[c] \in Message
        /\ \A i \in 1 .. Len(nodes) : data'[nodes[i]] \in Message
    BY <1>1, <2>1, <2>3, <2>4 DEF RealMessages, LlqTypeOK
  <2>6. \A i \in 1 .. Len(nodes') : \/ nodes'[i] = c
                                    \/ \E j \in 1 .. Len(nodes) : nodes'[i] = nodes[j]
    <3>1. CASE addToHead(c, item[t])
      <4>1. /\ Len(nodes') = Len(nodes) + 1 /\ nodes'[1] = c
            /\ \A i \in 1 .. Len(nodes) : nodes'[i + 1] = nodes[i]
        BY <2>3, <3>1, Prepended DEF addToHead
      <4> TAKE i \in 1 .. Len(nodes')
      <4>2. CASE i # 1
        <5>1. i - 1 \in 1 .. Len(nodes) /\ (i - 1) + 1 = i
          BY <2>3, <4>1, <4>2
        <5> QED BY <4>1, <5>1
      <4> QED BY <4>1, <4>2
    <3>2. CASE addToTail(c, item[t])
      <4>1. /\ Len(nodes') = Len(nodes) + 1 /\ nodes'[Len(nodes) + 1] = c
            /\ \A i \in 1 .. Len(nodes) : nodes'[i] = nodes[i]
        BY <2>3, <3>2, Appended DEF addToTail
      <4> QED BY <2>3, <4>1
    <3> QED BY <2>2, <3>1, <3>2
  <2>7. \A u \in Threads : at'[u] = "got" => at[u] = "got"
    BY <1>1, <1>4 DEF Link, Goto, LlqTypeOK
  <2> QED BY <2>1, <2>5, <2>6, <2>7 DEF RealMessages
<1>5. ASSUME NEW t \in Threads, Remove(t)
      PROVE  RealMessages'
  <2>1. /\ nodes # << >> /\ head = nodes[1] /\ nodes' = Tail(nodes)
        /\ data' = [data EXCEPT ![head] = NoMessage]
        /\ item' = [item EXCEPT ![t] = data[nodes[1]]]
    BY <1>1, <1>5 DEF Remove, PointersAreList
  <2>2. /\ Len(nodes) \in Nat \ {0} /\ Len(nodes') = Len(nodes) - 1
        /\ \A i \in 1 .. Len(nodes) - 1 : nodes'[i] = nodes[i + 1]
        /\ \A i \in 1 .. Len(nodes) : nodes[i] \in Cell
    BY <1>1, <2>1, Shortened DEF LlqTypeOK
  <2>3. \A i \in 1 .. Len(nodes') : data'[nodes'[i]] \in Message
    <3> TAKE i \in 1 .. Len(nodes')
    <3>1. i + 1 \in 1 .. Len(nodes) /\ 1 \in 1 .. Len(nodes) /\ i + 1 # 1
      BY <2>2
    <3>2. nodes[i + 1] # head /\ nodes[i + 1] \in Cell /\ nodes'[i] = nodes[i + 1]
      BY <1>1, <2>1, <2>2, <3>1 DEF PointersAreList
    <3>3. data[nodes[i + 1]] \in Message
      BY <3>1 DEF RealMessages
    <3> QED BY <1>1, <2>1, <3>2, <3>3 DEF LlqTypeOK
  <2>4. data[nodes[1]] \in Message
    BY <2>2 DEF RealMessages
  <2>5. \A u \in Threads : at'[u] = "got" => u = t \/ at[u] = "got"
    BY <1>1, <1>5 DEF Remove, Goto, LlqTypeOK
  <2>6. \A u \in Threads : item'[u] = IF u = t THEN data[nodes[1]] ELSE item[u]
    BY <1>1, <2>1 DEF LlqTypeOK
  <2> QED BY <2>3, <2>4, <2>5, <2>6 DEF RealMessages
<1> QED BY <1>2, <1>3, <1>4, <1>5 DEF LlqNext, LlqStep

\* A request function's own steps: the thread is not in the queue's code.
LEMMA RequestStepTyped ==
    ASSUME RpcInv, LlqTypeOK', NEW t \in Apps,
           Call(t) \/ rpcSendFrame(t) \/ NoMessageCame(t) \/ Status(t)
    PROVE  TypeOK' /\ FrameHeld' /\ RequestsMade' /\ ReceivesOutside'
<1>1. TypeOK /\ OneRequestAtATime /\ FrameHeld /\ RequestsMade /\ ReceivesOutside
  BY DEF RpcInv
<1>2. pc \in [Apps -> Pc] /\ req \in [Apps -> Request \cup {NoMessage}]
  BY <1>1 DEF TypeOK
<1>3. FrameHeld'
  BY <1>1 DEF Call, rpcSendFrame, Enter, Write, Await, Clear, Unlock, NoMessageCame,
              Status, FrameHeld
<1>4. CASE Call(t)
  <2>1. PICK r \in Request : r.id = made + 1 /\ req' = [req EXCEPT ![t] = r]
    BY <1>4 DEF Call
  <2>2. /\ pc[t] = "idle" /\ pc' = [pc EXCEPT ![t] = "enter"] /\ at' = at
        /\ made < MaxRequests /\ made' = made + 1
    BY <1>4 DEF Call, Step, llqVars
  <2>3. TypeOK'
    BY <1>1, <1>4, <2>1, <2>2, BoundsAssumption DEF Call, TypeOK, Pc
  <2>4. RequestsMade' /\ ReceivesOutside'
    BY <1>1, <1>2, <2>1, <2>2 DEF RequestsMade, ReceivesOutside
  <2> QED BY <1>3, <2>3, <2>4
<1>5. CASE Enter(t)
  <2>1. pc[t] = "enter" /\ pc' = [pc EXCEPT ![t] = "write"] /\ UNCHANGED <<at, req>>
    BY <1>5 DEF Enter, Step, llqVars
  <2>2. req[t] \in Request /\ (req[t].type = "SREQ" => req[t].sub \in Subs)
    BY <1>1, <2>1, RequestFields DEF RequestsMade
  <2>3. TypeOK'
    BY <1>1, <1>5, <2>1, <2>2 DEF Enter, TypeOK, Pc
  <2>4. RequestsMade' /\ ReceivesOutside'
    BY <1>1, <1>2, <2>1 DEF RequestsMade, ReceivesOutside
  <2> QED BY <1>3, <2>3, <2>4
<1>6. CASE Write(t)
  <2>1. /\ pc[t] = "write" /\ UNCHANGED <<at, req>>
        /\ pc' = [pc EXCEPT ![t] = IF req[t].type = "SREQ" THEN "await" ELSE "unlock"]
    BY <1>6 DEF Write, Step, llqVars
  <2>2. req[t] \in Request /\ req[t].id \in Ids
    BY <1>1, <2>1, RequestFields DEF RequestsMade
  <2>3. TypeOK'
    <3>1. toDevice' \in Seq(Request)
      BY <1>1, <1>6, <2>2 DEF Write, TypeOK
    <3>2. pc' \in [Apps -> Pc]
      BY <1>2, <2>1 DEF Pc
    <3>3. outcome' \in [Ids -> {"none", "success", "error"}]
      BY <1>1, <1>6, <2>2 DEF Write, TypeOK
    <3> QED BY <1>1, <1>6, <3>1, <3>2, <3>3 DEF Write, TypeOK
  <2>4. RequestsMade' /\ ReceivesOutside'
    BY <1>1, <1>2, <2>1 DEF RequestsMade, ReceivesOutside
  <2> QED BY <1>3, <2>3, <2>4
<1>7. CASE Await(t)
  <2>1. pc[t] = "await" /\ pc' = [pc EXCEPT ![t] = "clear"] /\ UNCHANGED <<at, req>>
    BY <1>7 DEF Await, Step, llqVars
  <2>2. req[t].id \in Ids
    BY <1>1, <2>1, RequestFields DEF RequestsMade
  <2>3. TypeOK'
    <3>1. pc' \in [Apps -> Pc]
      BY <1>2, <2>1 DEF Pc
    <3>2. outcome' \in [Ids -> {"none", "success", "error"}]
      BY <1>1, <1>7, <2>2 DEF Await, TypeOK
    <3>3. srspSem' \in Nat /\ timeouts' \in Nat
      BY <1>1, <1>7 DEF Await, TypeOK
    <3> QED BY <1>1, <1>7, <3>1, <3>2, <3>3 DEF Await, TypeOK
  <2>4. RequestsMade' /\ ReceivesOutside'
    BY <1>1, <1>2, <2>1 DEF RequestsMade, ReceivesOutside
  <2> QED BY <1>3, <2>3, <2>4
<1>8. CASE Clear(t)
  <2>1. pc[t] = "clear" /\ pc' = [pc EXCEPT ![t] = "unlock"] /\ UNCHANGED <<at, req>>
    BY <1>8 DEF Clear, Step, llqVars
  <2>2. TypeOK'
    BY <1>1, <1>8, <2>1 DEF Clear, TypeOK, Pc
  <2>3. RequestsMade' /\ ReceivesOutside'
    BY <1>1, <1>2, <2>1 DEF RequestsMade, ReceivesOutside
  <2> QED BY <1>3, <2>2, <2>3
<1>9. CASE Unlock(t)
  <2>1. /\ pc[t] = "unlock" /\ UNCHANGED <<at, req>>
        /\ \E to \in {"receive", "idle"} : pc' = [pc EXCEPT ![t] = to]
    BY <1>9 DEF Unlock, Step, llqVars
  <2>2. TypeOK'
    <3>1. rpcSem = 0
      BY <1>1, <2>1, SenderIsAlone DEF Sending
    <3> QED BY <1>1, <1>9, <2>1, <3>1 DEF Unlock, TypeOK, Pc
  <2>3. RequestsMade' /\ ReceivesOutside'
    BY <1>1, <1>2, <2>1 DEF RequestsMade, ReceivesOutside
  <2> QED BY <1>3, <2>2, <2>3
<1>10. CASE NoMessageCame(t)
  <2>1. /\ pc[t] \in {"receiving", "listening"} /\ at[t] = "out" /\ UNCHANGED <<at, req>>
        /\ pc' = [pc EXCEPT ![t] = AfterReceive(t)]
    BY <1>10 DEF NoMessageCame, llqVars
  <2>2. /\ AfterReceive(t) \in {"status", "idle"}
        /\ pc[t] = "listening" => AfterReceive(t) = "idle"
    BY DEF AfterReceive
  <2>3. TypeOK'
    BY <1>1, <1>10, <2>1, <2>2 DEF NoMessageCame, TypeOK, Pc
  <2>4. RequestsMade' /\ ReceivesOutside'
    BY <1>1, <1>2, <2>1, <2>2 DEF RequestsMade, ReceivesOutside
  <2> QED BY <1>3, <2>3, <2>4
<1>11. CASE Status(t)
  <2>1. pc[t] = "status" /\ pc' = [pc EXCEPT ![t] = "idle"] /\ UNCHANGED <<at, req>>
    BY <1>11 DEF Status, Step, llqVars
  <2>2. req[t].id \in Ids
    BY <1>1, <2>1, RequestFields DEF RequestsMade
  <2>3. TypeOK'
    BY <1>1, <1>11, <2>1, <2>2 DEF Status, TypeOK, Pc
  <2>4. RequestsMade' /\ ReceivesOutside'
    BY <1>1, <1>2, <2>1 DEF RequestsMade, ReceivesOutside
  <2> QED BY <1>3, <2>3, <2>4
<1> QED BY <1>4, <1>5, <1>6, <1>7, <1>8, <1>9, <1>10, <1>11 DEF rpcSendFrame

\* A thread's steps in the queue's code move only that thread.
LEMMA QueueStepMoves ==
    ASSUME LlqTypeOK, NEW t \in Threads, LlqStep(t) \/ Return(t)
    PROVE  at[t] # "out" /\ \A u \in Threads \ {t} : at'[u] = at[u]
<1>1. at[t] # "out"
  BY DEF LlqStep, AddLock, Link, Count, Grant, GiveUp, TestHead, TakeLock, Remove, Return
<1>2. \E to \in At : Goto(t, to)
  BY DEF LlqStep, AddLock, Link, Count, Grant, GiveUp, TestHead, TakeLock, Remove,
         Return, At
<1> QED BY <1>1, <1>2 DEF Goto, LlqTypeOK

\* An application thread in the queue's code.
LEMMA ReceiveStepTyped ==
    ASSUME RpcInv, LlqTypeOK', NEW t \in Apps,
           Receive(t) \/ Listen(t) \/ AppQueueStep(t) \/ mtProcess(t)
    PROVE  TypeOK' /\ FrameHeld' /\ RequestsMade' /\ ReceivesOutside'
<1>1. /\ TypeOK /\ FrameHeld /\ RequestsMade /\ ReceivesOutside /\ LlqTypeOK /\ RealMessages
      /\ t \in Threads /\ Apps \subseteq Threads
  BY ThreadsAssumption DEF RpcInv, TypeOK
<1>2. pc \in [Apps -> Pc] /\ req \in [Apps -> Request \cup {NoMessage}]
  BY <1>1 DEF TypeOK
<1>3. FrameHeld'
  BY <1>1 DEF Receive, Listen, AppQueueStep, mtProcess, rpcVars, FrameHeld
<1>4. CASE Receive(t) \/ Listen(t)
  <2>1. /\ \/ pc[t] = "receive" /\ pc' = [pc EXCEPT ![t] = "receiving"]
           \/ pc[t] = "idle" /\ pc' = [pc EXCEPT ![t] = "listening"]
        /\ req' = req
        /\ \E to \in At : at' = [at EXCEPT ![t] = to]
    BY <1>4 DEF Receive, Listen, Step, llq_timedreceive, llq_receive, Goto, At
  <2>2. TypeOK'
    BY <1>1, <1>2, <1>4, <2>1 DEF Receive, Listen, TypeOK, Pc
  <2>3. RequestsMade' /\ ReceivesOutside'
    BY <1>1, <1>2, <2>1 DEF RequestsMade, ReceivesOutside, LlqTypeOK
  <2> QED BY <1>3, <2>2, <2>3
<1>5. CASE AppQueueStep(t)
  <2>1. at[t] # "out" /\ \A u \in Threads \ {t} : at'[u] = at[u]
    BY <1>1, <1>5, QueueStepMoves DEF AppQueueStep
  <2>2. TypeOK'
    BY <1>1, <1>5 DEF AppQueueStep, rpcVars, TypeOK
  <2>3. RequestsMade' /\ ReceivesOutside'
    BY <1>1, <1>5, <2>1 DEF AppQueueStep, rpcVars, RequestsMade, ReceivesOutside
  <2> QED BY <1>3, <2>2, <2>3
<1>6. CASE mtProcess(t)
  <2>1. /\ at[t] = "got" /\ at' = [at EXCEPT ![t] = "out"] /\ req' = req
        /\ pc' = [pc EXCEPT ![t] = AfterReceive(t)]
        /\ item[t] \in Message /\ pc[t] \in {"receiving", "listening"}
    BY <1>1, <1>6 DEF mtProcess, Return, Goto, RealMessages, ReceivesOutside
  <2>2. /\ AfterReceive(t) \in {"status", "idle"}
        /\ pc[t] = "listening" => AfterReceive(t) = "idle"
    BY DEF AfterReceive
  <2>3. TypeOK'
    BY <1>1, <1>2, <1>6, <2>1, <2>2, MessageFields DEF mtProcess, TypeOK, Pc
  <2>4. RequestsMade' /\ ReceivesOutside'
    BY <1>1, <1>2, <2>1, <2>2 DEF RequestsMade, ReceivesOutside, LlqTypeOK
  <2> QED BY <1>3, <2>3, <2>4
<1> QED BY <1>4, <1>5, <1>6

\* The receiving thread and the network processor.
LEMMA RxStepTyped ==
    ASSUME RpcInv, LlqTypeOK', rpcProcess \/ Answer \/ Indicate
    PROVE  TypeOK' /\ FrameHeld' /\ RequestsMade' /\ ReceivesOutside'
<1>1. /\ TypeOK /\ FrameHeld /\ RequestsMade /\ ReceivesOutside /\ LlqTypeOK
      /\ Rx \in Threads /\ Apps \subseteq Threads /\ Rx \notin Apps
  BY ThreadsAssumption DEF RpcInv, TypeOK
<1>2. UNCHANGED <<pc, req>>
  BY DEF rpcProcess, Read, Post, AddResponse, RxQueueStep, Answer, Indicate
<1>3. \A u \in Apps : at'[u] = at[u]
  <2>1. CASE RxQueueStep
    BY <1>1, <2>1, QueueStepMoves DEF RxQueueStep
  <2>2. CASE Read \/ Post \/ AddResponse \/ Answer \/ Indicate
    BY <1>1, <2>2 DEF Read, Post, AddResponse, Answer, Indicate, llqVars, llq_add,
                      Goto, LlqTypeOK
  <2> QED BY <2>1, <2>2 DEF rpcProcess
<1>4. RequestsMade' /\ ReceivesOutside'
  BY <1>1, <1>2, <1>3 DEF RequestsMade, ReceivesOutside
<1>5. CASE Read
  <2>1. /\ Head(line) \in Message /\ Tail(line) \in Seq(Message)
        /\ line' = Tail(line) /\ rxpc = "read"
    BY <1>1, <1>5 DEF Read, TypeOK
  <2>2. Head(line).type = "SRSP" => Head(line) \in Srsps
    BY <2>1, MessageFields
  <2>3. TypeOK' /\ FrameHeld'
    BY <1>1, <1>5, <2>1, <2>2 DEF Read, TypeOK, FrameHeld
  <2> QED BY <1>4, <2>3
<1>6. CASE Post
  <2>1. rxpc = "post" /\ frame \in Srsps /\ frame.id \in Ids
    BY <1>1, <1>6, MessageFields DEF Post, FrameHeld, Srsps
  <2>2. TypeOK' /\ FrameHeld'
    BY <1>1, <1>6, <2>1 DEF Post, TypeOK, FrameHeld
  <2> QED BY <1>4, <2>2
<1>7. CASE AddResponse
  BY <1>1, <1>4, <1>7 DEF AddResponse, TypeOK, FrameHeld
<1>8. CASE RxQueueStep
  BY <1>1, <1>4, <1>8 DEF RxQueueStep, TypeOK, FrameHeld
<1>9. CASE Answer
  <2>1. /\ Head(toDevice) \in Request /\ Tail(toDevice) \in Seq(Request)
        /\ toDevice' = Tail(toDevice)
    BY <1>1, <1>9 DEF Answer, TypeOK
  <2>2. Head(toDevice).type = "SREQ" => Srsp(Head(toDevice)) \in Message
    BY <2>1, RequestFields
  <2>3. TypeOK' /\ FrameHeld'
    BY <1>1, <1>9, <2>1, <2>2 DEF Answer, TypeOK, FrameHeld
  <2> QED BY <1>4, <2>3
<1>10. CASE Indicate
  <2>1. sent + 1 \in 1 .. MaxAreqs
    BY <1>1, <1>10, BoundsAssumption DEF Indicate, TypeOK
  <2>2. [type |-> "AREQ", id |-> sent + 1] \in Message
    BY <2>1, IndicationIsMessage
  <2>3. TypeOK' /\ FrameHeld'
    BY <1>1, <1>10, <2>1, <2>2 DEF Indicate, TypeOK, FrameHeld
  <2> QED BY <1>4, <2>3
<1> QED BY <1>5, <1>6, <1>7, <1>8, <1>9, <1>10 DEF rpcProcess

--------------------------------------------------------------------------------
(* One request at a time.                                                    *)

LEMMA SendingMoves ==
    ASSUME pc \in [Apps -> Pc], NEW t \in Apps, NEW to \in Pc,
           pc' = [pc EXCEPT ![t] = to]
    PROVE  /\ Sending' = IF to \in SendingPlaces THEN Sending \cup {t} ELSE Sending \ {t}
           /\ Cardinality(Sending') =
                CASE to \in SendingPlaces /\ pc[t] \notin SendingPlaces -> Cardinality(Sending) + 1
                  [] to \notin SendingPlaces /\ pc[t] \in SendingPlaces -> Cardinality(Sending) - 1
                  [] OTHER -> Cardinality(Sending)
<1>1. /\ Cardinality(Sending) \in Nat
      /\ Cardinality(Sending') = Cardinality(Sending)
           + (IF to \in SendingPlaces THEN 1 ELSE 0)
           - (IF pc[t] \in SendingPlaces THEN 1 ELSE 0)
  BY SendingIsAt, AppsMove
<1>2. Sending' = IF to \in SendingPlaces THEN Sending \cup {t} ELSE Sending \ {t}
  BY DEF Sending, SendingPlaces
<1> QED BY <1>1, <1>2

LEMMA OneRequestKept ==
    ASSUME RpcInv, [Next]_vars
    PROVE  OneRequestAtATime'
<1>1. /\ TypeOK /\ OneRequestAtATime /\ RequestsMade /\ ReceivesOutside
      /\ pc \in [Apps -> Pc] /\ rpcSem \in {0, 1}
      /\ Apps \subseteq Threads /\ Senders \subseteq Apps /\ Listeners \subseteq Apps
      /\ rpcSem + Cardinality(Sending) = 1
  BY ThreadsAssumption DEF RpcInv, TypeOK, OneRequestAtATime
<1>2. CASE UNCHANGED <<pc, req, rpcSem, expected>>
  <2>1. Sending' = Sending
    BY <1>2 DEF Sending
  <2> QED BY <1>1, <1>2, <2>1 DEF OneRequestAtATime
<1>3. ASSUME NEW t \in Apps, NEW to \in Pc \ SendingPlaces, pc[t] \notin SendingPlaces,
             pc' = [pc EXCEPT ![t] = to], \A u \in Apps \ {t} : req'[u] = req[u],
             UNCHANGED <<rpcSem, expected>>
      PROVE  OneRequestAtATime'
  <2>1. Sending' = Sending /\ t \notin Sending
    BY <1>1, <1>3, SendingMoves DEF Sending, SendingPlaces
  <2>2. \A u \in Sending : u \in Apps \ {t} /\ pc'[u] = pc[u]
    BY <1>1, <1>3, <2>1 DEF Sending
  <2> QED BY <1>1, <1>3, <2>1, <2>2 DEF OneRequestAtATime
<1>4. ASSUME NEW t \in Apps,
             Call(t) \/ Listen(t) \/ Receive(t) \/ NoMessageCame(t) \/ Status(t)
               \/ mtProcess(t)
      PROVE  OneRequestAtATime'
  <2>1. UNCHANGED <<rpcSem, expected>> /\ \A u \in Apps \ {t} : req'[u] = req[u]
    BY <1>1, <1>4 DEF Call, Listen, Receive, NoMessageCame, Status, mtProcess, TypeOK
  <2>2. /\ pc[t] \notin SendingPlaces
        /\ \E to \in Pc \ SendingPlaces : pc' = [pc EXCEPT ![t] = to]
    BY <1>1, <1>4 DEF Call, Listen, Receive, NoMessageCame, Status, mtProcess, Step,
                      AfterReceive, ReceivesOutside, Pc, SendingPlaces
  <2> QED BY <1>3, <2>1, <2>2
<1>5. ASSUME NEW t \in Apps, Enter(t)
      PROVE  OneRequestAtATime'
  <2>1. /\ pc[t] = "enter" /\ pc' = [pc EXCEPT ![t] = "write"] /\ req' = req
        /\ rpcSem > 0 /\ rpcSem' = rpcSem - 1
        /\ expected' = IF req[t].type = "SREQ" THEN req[t].sub ELSE expected
    BY <1>5 DEF Enter, Step
  <2>2. rpcSem = 1 /\ Sending = {} /\ expected = NONE
    BY <1>1, <2>1, FreeMutex
  <2>3. Sending' = Sending \cup {t} /\ Cardinality(Sending') = Cardinality(Sending) + 1
    <3>1. "write" \in Pc /\ "write" \in SendingPlaces /\ pc[t] \notin SendingPlaces
      BY <2>1 DEF Pc, SendingPlaces
    <3> QED BY <1>1, <2>1, <3>1, SendingMoves
  <2>4. pc'[t] = "write"
    BY <1>1, <2>1
  <2>5. rpcSem' + Cardinality(Sending') = 1
    BY <1>1, <2>1, <2>2, <2>3, AppsAtFinite, SendingIsAt
  <2> QED BY <1>1, <2>1, <2>2, <2>3, <2>4, <2>5 DEF OneRequestAtATime
<1>6. ASSUME NEW t \in Apps, Write(t) \/ Await(t)
      PROVE  OneRequestAtATime'
  <2>1. /\ pc[t] \in {"write", "await"} /\ UNCHANGED <<req, rpcSem, expected>>
        /\ pc' = [pc EXCEPT ![t] = IF pc[t] = "await" THEN "clear"
                                   ELSE IF req[t].type = "SREQ" THEN "await" ELSE "unlock"]
        /\ pc[t] = "await" => req[t].type = "SREQ"
    BY <1>1, <1>6 DEF Write, Await, Step, RequestsMade
  <2>2. Sending' = Sending \cup {t} /\ Cardinality(Sending') = Cardinality(Sending)
    <3>1. /\ pc[t] \in SendingPlaces
          /\ \E to \in Pc : to \in SendingPlaces /\ pc' = [pc EXCEPT ![t] = to]
      BY <2>1 DEF Pc, SendingPlaces
    <3> QED BY <1>1, <3>1, SendingMoves
  <2>3. \A u \in Apps : IF u = t THEN req[t].type = "SREQ" => pc'[u] # "unlock"
                                 ELSE pc'[u] = pc[u]
    BY <1>1, <2>1
  <2> QED BY <1>1, <2>1, <2>2, <2>3 DEF OneRequestAtATime
<1>7. ASSUME NEW t \in Apps, Clear(t)
      PROVE  OneRequestAtATime'
  <2>1. /\ pc[t] = "clear" /\ pc' = [pc EXCEPT ![t] = "unlock"]
        /\ rpcSem' = rpcSem /\ expected' = NONE
    BY <1>7 DEF Clear, Step
  <2>2. Cardinality(Sending') = Cardinality(Sending)
    <3>1. "unlock" \in Pc /\ "unlock" \in SendingPlaces /\ pc[t] \in SendingPlaces
      BY <2>1 DEF Pc, SendingPlaces
    <3> QED BY <1>1, <2>1, <3>1, SendingMoves
  <2> QED BY <1>1, <2>1, <2>2 DEF OneRequestAtATime
<1>8. ASSUME NEW t \in Apps, Unlock(t)
      PROVE  OneRequestAtATime'
  <2>1. /\ pc[t] = "unlock" /\ UNCHANGED <<req, expected>> /\ rpcSem' = rpcSem + 1
        /\ \E to \in {"receive", "idle"} : pc' = [pc EXCEPT ![t] = to]
    BY <1>8 DEF Unlock, Step
  <2>2. Sending' = Sending \ {t} /\ Cardinality(Sending') = Cardinality(Sending) - 1
    <3>1. /\ pc[t] \in SendingPlaces
          /\ \E to \in Pc : to \notin SendingPlaces /\ pc' = [pc EXCEPT ![t] = to]
      BY <2>1 DEF Pc, SendingPlaces
    <3> QED BY <1>1, <3>1, SendingMoves
  <2>3. \A u \in Apps \ {t} : pc'[u] = pc[u]
    BY <1>1, <2>1
  <2>4. rpcSem' + Cardinality(Sending') = 1
    BY <1>1, <2>1, <2>2, AppsAtFinite, SendingIsAt
  <2> QED BY <1>1, <2>1, <2>2, <2>3, <2>4 DEF OneRequestAtATime
<1>9. ASSUME NEW t \in Apps, \/ Call(t) \/ Listen(t) \/ rpcSendFrame(t)
                             \/ rpcWaitMqClientMsg(t) \/ Status(t)
      PROVE  OneRequestAtATime'
  <2>1. CASE AppQueueStep(t)
    BY <1>2, <2>1 DEF AppQueueStep, rpcVars
  <2> QED BY <1>4, <1>5, <1>6, <1>7, <1>8, <1>9, <2>1
          DEF rpcSendFrame, rpcWaitMqClientMsg
<1>10. CASE rpcProcess \/ Answer \/ Indicate
  BY <1>2, <1>10 DEF rpcProcess, Read, Post, AddResponse, RxQueueStep, Answer, Indicate
<1>11. CASE UNCHANGED vars
  BY <1>2, <1>11 DEF vars, rpcVars
<1> QED BY <1>1, <1>9, <1>10, <1>11 DEF Next

LEMMA RpcInvStep == RpcInv /\ [Next]_vars => RpcInv'
<1> SUFFICES ASSUME RpcInv, [Next]_vars PROVE RpcInv'
  OBVIOUS
<1>1. LlqInv' /\ LlqTypeOK' /\ RealMessages'
  <2>1. LlqInv /\ RealMessages /\ [LlqNext]_llqVars
    BY StepsTheQueue DEF RpcInv
  <2>2. LlqInv' /\ RealMessages'
    BY <2>1, LlqInvStep, RealMessagesKept
  <2> QED BY <2>2 DEF LlqInv
<1>2. OneRequestAtATime'
  BY OneRequestKept
<1>3. TypeOK' /\ FrameHeld' /\ RequestsMade' /\ ReceivesOutside'
  <2>1. CASE UNCHANGED vars
    BY <1>1, <2>1 DEF vars, rpcVars, llqVars, RpcInv, TypeOK, FrameHeld, RequestsMade,
                      ReceivesOutside
  <2>2. ASSUME NEW t \in Apps, \/ Call(t) \/ Listen(t) \/ rpcSendFrame(t)
                               \/ rpcWaitMqClientMsg(t) \/ Status(t)
        PROVE  TypeOK' /\ FrameHeld' /\ RequestsMade' /\ ReceivesOutside'
    BY <1>1, <2>2, RequestStepTyped, ReceiveStepTyped DEF rpcWaitMqClientMsg
  <2>3. CASE rpcProcess \/ Answer \/ Indicate
    BY <1>1, <2>3, RxStepTyped
  <2> QED BY <2>1, <2>2, <2>3, ThreadsAssumption DEF Next
<1> QED BY <1>1, <1>2, <1>3 DEF RpcInv

LEMMA RpcInvariance == Spec => []RpcInv
BY RpcInvInit, RpcInvStep, PTL DEF Spec

\* Every variable of the RPC layer, its threads and the serial line keeps its type.
THEOREM RpcTypeCorrect == Spec => []TypeOK
<1>1. RpcInv => TypeOK
  BY DEF RpcInv
<1> QED BY <1>1, RpcInvariance, PTL

\* The RPC layer uses its queue as the queue is specified: what is proved of
\* receivers and senders in any order holds for these threads (rpc.c, mtParser.c).
THEOREM UsesTheQueue == Spec => LlqSpec
<1>1. Init => LlqInit
  BY DEF Init
<1>2. RpcInv /\ [Next]_vars => [LlqNext]_llqVars
  BY StepsTheQueue
<1> QED BY <1>1, <1>2, RpcInvariance, PTL DEF Spec, LlqSpec

\* rpcSem lets one thread at a time send (rpc.c:85-86), and a response can match
\* only while that thread awaits one in its subsystem.
THEOREM OneRequestIsSent == Spec => []OneRequestAtATime
<1>1. RpcInv => OneRequestAtATime
  BY DEF RpcInv
<1> QED BY <1>1, RpcInvariance, PTL

\* The queue between the receiving thread and the application's threads stays
\* intact under the RPC layer's use of it.
THEOREM RpcQueueIntact == Spec => []QueueIntact
BY UsesTheQueue, QueueStaysIntact, PTL

\* And it is a queue to them.
THEOREM RpcQueueIsMessageQueue == Spec => IsMessageQueue
BY UsesTheQueue, ImplementsMessageQueue, PTL

--------------------------------------------------------------------------------
(* What the response semaphore stands for.                                   *)

OfType(s, type) == {i \in 1 .. Len(s) : s[i].type = type}

LEMMA OfTypeFinite ==
    ASSUME NEW S, NEW s \in Seq(S), NEW type
    PROVE  /\ IsFiniteSet(OfType(s, type)) /\ Cardinality(OfType(s, type)) \in Nat
           /\ (\A i \in 1 .. Len(s) : s[i].type # type) <=> Cardinality(OfType(s, type)) = 0
<1>1. Len(s) \in Nat
  OBVIOUS
<1>2. IsFiniteSet(OfType(s, type)) /\ Cardinality(OfType(s, type)) \in Nat
  <2>1. IsFiniteSet(1 .. Len(s))
    BY <1>1, FS_Interval
  <2>2. OfType(s, type) \subseteq 1 .. Len(s)
    BY DEF OfType
  <2>3. IsFiniteSet(OfType(s, type))
    BY <2>1, <2>2, FS_Subset
  <2> QED BY <2>3, FS_CardinalityType
<1>3. OfType(s, type) = {} <=> Cardinality(OfType(s, type)) = 0
  BY <1>2, FS_EmptySet
<1> QED BY <1>2, <1>3 DEF OfType

LEMMA OfTypeAppend ==
    ASSUME NEW S, NEW s \in Seq(S), NEW e \in S, NEW type
    PROVE  Cardinality(OfType(Append(s, e), type)) =
               Cardinality(OfType(s, type)) + (IF e.type = type THEN 1 ELSE 0)
<1>1. Len(s) \in Nat /\ Len(s) + 1 \notin OfType(s, type)
  BY DEF OfType
<1>2. OfType(Append(s, e), type) =
        IF e.type = type THEN OfType(s, type) \cup {Len(s) + 1} ELSE OfType(s, type)
  <2>1. /\ Len(Append(s, e)) = Len(s) + 1 /\ Append(s, e)[Len(s) + 1] = e
        /\ \A i \in 1 .. Len(s) : Append(s, e)[i] = s[i]
    BY Appended
  <2>2. \A i : i \in 1 .. Len(s) + 1 <=> i \in 1 .. Len(s) \/ i = Len(s) + 1
    BY <1>1
  <2> QED BY <1>1, <2>1, <2>2 DEF OfType
<1>3. IsFiniteSet(OfType(s, type)) /\ Cardinality(OfType(s, type)) \in Nat
  BY OfTypeFinite
<1>4. Cardinality(OfType(s, type) \cup {Len(s) + 1}) = Cardinality(OfType(s, type)) + 1
  BY <1>1, <1>3, FS_AddElement
<1> QED BY <1>2, <1>3, <1>4

LEMMA OfTypeTail ==
    ASSUME NEW S, NEW s \in Seq(S), s # << >>, NEW type
    PROVE  Cardinality(OfType(Tail(s), type)) =
               Cardinality(OfType(s, type)) - (IF Head(s).type = type THEN 1 ELSE 0)
<1> DEFINE Rest == OfType(s, type) \ {1}
           Left == OfType(Tail(s), type)
           Shift == [i \in Left |-> i + 1]
<1>1. /\ Tail(s) \in Seq(S) /\ Len(s) \in Nat \ {0} /\ Len(Tail(s)) = Len(s) - 1
      /\ \A i \in 1 .. Len(s) - 1 : Tail(s)[i] = s[i + 1]
      /\ Head(s) = s[1]
  BY Shortened
<1>2. IsFiniteSet(OfType(s, type)) /\ IsFiniteSet(Left)
  BY <1>1, OfTypeFinite
<1>3. Cardinality(Rest) = Cardinality(OfType(s, type)) - (IF Head(s).type = type THEN 1 ELSE 0)
  <2>1. 1 \in OfType(s, type) <=> Head(s).type = type
    BY <1>1 DEF OfType
  <2>2. Cardinality(OfType(s, type)) \in Nat
    BY OfTypeFinite
  <2>3. Cardinality(Rest) = IF 1 \in OfType(s, type) THEN Cardinality(OfType(s, type)) - 1
                                                    ELSE Cardinality(OfType(s, type))
    BY <1>2, FS_RemoveElement
  <2> HIDE DEF Rest
  <2> QED BY <2>1, <2>2, <2>3
<1>4. \A i \in Left : i \in Int /\ i + 1 \in Rest
  BY <1>1 DEF OfType
<1>5. \A j \in Rest : j - 1 \in Left /\ (j - 1) + 1 = j
  <2> TAKE j \in Rest
  <2>1. j \in 1 .. Len(s) /\ j # 1 /\ s[j].type = type
    BY DEF OfType
  <2>2. j - 1 \in 1 .. Len(s) - 1 /\ (j - 1) + 1 = j
    BY <1>1, <2>1
  <2> QED BY <1>1, <2>1, <2>2 DEF OfType
<1> HIDE DEF Left, Rest
<1>6. Shift \in Bijection(Left, Rest)
  <2>1. Shift \in [Left -> Rest]
    BY <1>4
  <2>2. \A a, b \in Left : Shift[a] = Shift[b] => a = b
    BY <1>4
  <2>3. \A j \in Rest : \E a \in Left : Shift[a] = j
    BY <1>5
  <2>4. DOMAIN Shift = Left
    OBVIOUS
  <2> HIDE DEF Shift
  <2>5. Shift \in Injection(Left, Rest)
    BY <2>1, <2>2, <2>4 DEF Injection, IsInjective
  <2>6. Shift \in Surjection(Left, Rest)
    BY <2>1, <2>3 DEF Surjection
  <2> QED BY <2>5, <2>6 DEF Bijection
<1>7. Cardinality(Left) = Cardinality(Rest)
  BY <1>2, <1>6, FS_Bijection DEF ExistsBijection
<1> QED BY <1>3, <1>7 DEF Left

\* A request on its way or answered, its answer not yet taken, is one a thread
\* awaits or one of the waits given up.
OnTheWay == Cardinality(OfType(toDevice, "SREQ")) + Cardinality(OfType(line, "SRSP"))
Posting == IF rxpc = "post" THEN 1 ELSE 0
TokensCovered ==
    OnTheWay + Posting + srspSem <= timeouts + Cardinality(AppsAt({"await"}))

LEMMA WayIsNat ==
    ASSUME TypeOK
    PROVE  /\ Cardinality(OfType(toDevice, "SREQ")) \in Nat
           /\ Cardinality(OfType(line, "SRSP")) \in Nat
BY OfTypeFinite DEF TypeOK

LEMMA AwaitMoves ==
    ASSUME pc \in [Apps -> Pc], NEW t \in Apps, NEW to \in Pc,
           pc' = [pc EXCEPT ![t] = to]
    PROVE  Cardinality(AppsAt({"await"})') =
             CASE to = "await" /\ pc[t] # "await" -> Cardinality(AppsAt({"await"})) + 1
               [] to # "await" /\ pc[t] = "await" -> Cardinality(AppsAt({"await"})) - 1
               [] OTHER -> Cardinality(AppsAt({"await"}))
<1> DEFINE P == {"await"}
<1>1. /\ Cardinality(AppsAt(P)) \in Nat
      /\ Cardinality(AppsAt(P)') =
           Cardinality(AppsAt(P)) + (IF to \in P THEN 1 ELSE 0)
                                  - (IF pc[t] \in P THEN 1 ELSE 0)
  BY AppsMove
<1>2. (to \in P <=> to = "await") /\ (pc[t] \in P <=> pc[t] = "await")
  OBVIOUS
<1> QED BY <1>1, <1>2

LEMMA TokensKept ==
    ASSUME RpcInv, TokensCovered, [Next]_vars
    PROVE  TokensCovered'
<1>1. /\ TypeOK /\ ReceivesOutside
      /\ pc \in [Apps -> Pc] /\ srspSem \in Nat /\ timeouts \in Nat
      /\ toDevice \in Seq(Request) /\ line \in Seq(Message)
      /\ Senders \subseteq Apps /\ Listeners \subseteq Apps
  BY ThreadsAssumption DEF RpcInv, TypeOK
<1>2. /\ Cardinality(OfType(toDevice, "SREQ")) \in Nat
      /\ Cardinality(OfType(line, "SRSP")) \in Nat
      /\ Cardinality(AppsAt({"await"})) \in Nat
  BY <1>1, WayIsNat, AppsAtFinite
<1>3. CASE /\ UNCHANGED <<toDevice, line, srspSem, timeouts>>
           /\ Cardinality(AppsAt({"await"})') = Cardinality(AppsAt({"await"}))
           /\ Posting' = Posting
  BY <1>3 DEF TokensCovered, OnTheWay
<1>4. ASSUME NEW t \in Apps,
             \/ Call(t) \/ Listen(t) \/ Receive(t) \/ NoMessageCame(t) \/ Status(t)
             \/ mtProcess(t) \/ Enter(t) \/ Clear(t) \/ Unlock(t)
      PROVE  TokensCovered'
  <2>1. UNCHANGED <<toDevice, line, srspSem, timeouts, rxpc>>
    BY <1>4 DEF Call, Listen, Receive, NoMessageCame, Status, mtProcess, Enter, Clear,
                Unlock
  <2>2. /\ pc[t] # "await"
        /\ \E to \in Pc : to # "await" /\ pc' = [pc EXCEPT ![t] = to]
    BY <1>1, <1>4 DEF Call, Listen, Receive, NoMessageCame, Status, mtProcess, Enter,
                      Clear, Unlock, Step, AfterReceive, ReceivesOutside, Pc
  <2>3. Cardinality(AppsAt({"await"})') = Cardinality(AppsAt({"await"}))
    BY <1>1, <2>2, AwaitMoves
  <2> QED BY <1>3, <2>1, <2>3 DEF Posting
<1>5. ASSUME NEW t \in Apps, Write(t)
      PROVE  TokensCovered'
  <2>1. /\ pc[t] = "write" /\ UNCHANGED <<line, srspSem, timeouts, rxpc>>
        /\ pc' = [pc EXCEPT ![t] = IF req[t].type = "SREQ" THEN "await" ELSE "unlock"]
        /\ toDevice' \in {toDevice, Append(toDevice, req[t])}
    BY <1>5 DEF Write, Step
  <2>2. req[t] \in Request
    BY <2>1 DEF RpcInv, RequestsMade
  <2>3. Cardinality(AppsAt({"await"})') = Cardinality(AppsAt({"await"}))
                                          + (IF req[t].type = "SREQ" THEN 1 ELSE 0)
    <3>1. "await" \in Pc /\ "unlock" \in Pc
      BY DEF Pc
    <3>2. CASE req[t].type = "SREQ"
      BY <1>1, <2>1, <3>1, <3>2, AwaitMoves
    <3>3. CASE req[t].type # "SREQ"
      <4>1. pc' = [pc EXCEPT ![t] = "unlock"]
        BY <2>1, <3>3
      <4>2. Cardinality(AppsAt({"await"})') = Cardinality(AppsAt({"await"}))
        BY <1>1, <2>1, <3>1, <4>1, AwaitMoves
      <4> QED BY <1>2, <3>3, <4>2
    <3> QED BY <3>2, <3>3
  <2>4. Cardinality(OfType(toDevice, "SREQ")') <=
            Cardinality(OfType(toDevice, "SREQ")) + (IF req[t].type = "SREQ" THEN 1 ELSE 0)
    <3>1. CASE toDevice' = toDevice
      BY <1>2, <3>1
    <3>2. CASE toDevice' = Append(toDevice, req[t])
      BY <1>1, <1>2, <2>2, <3>2, OfTypeAppend
    <3> QED BY <2>1, <3>1, <3>2
  <2>5. TypeOK'
    BY RpcInvStep DEF RpcInv
  <2>6. Cardinality(OfType(toDevice, "SREQ")') \in Nat
    <3>1. toDevice' \in Seq(Request)
      BY <2>5 DEF TypeOK
    <3> QED BY <3>1, OfTypeFinite
  <2>7. /\ Posting' = Posting /\ Posting \in {0, 1}
        /\ Cardinality(OfType(line, "SRSP")') = Cardinality(OfType(line, "SRSP"))
    BY <2>1 DEF Posting
  <2>8. CASE req[t].type = "SREQ"
    BY <1>1, <1>2, <2>1, <2>3, <2>4, <2>6, <2>7, <2>8 DEF TokensCovered, OnTheWay
  <2>9. CASE req[t].type # "SREQ"
    BY <1>1, <1>2, <2>1, <2>3, <2>4, <2>6, <2>7, <2>9 DEF TokensCovered, OnTheWay
  <2> QED BY <2>8, <2>9
<1>6. ASSUME NEW t \in Apps, Await(t)
      PROVE  TokensCovered'
  <2>1. /\ pc[t] = "await" /\ UNCHANGED <<toDevice, line, rxpc>>
        /\ pc' = [pc EXCEPT ![t] = "clear"]
        /\ IF srspSem > 0 THEN srspSem' = srspSem - 1 /\ timeouts' = timeouts
                          ELSE srspSem' = srspSem /\ timeouts' = timeouts + 1
    BY <1>6 DEF Await, Step
  <2>2. Cardinality(AppsAt({"await"})') = Cardinality(AppsAt({"await"})) - 1
    <3>1. "clear" \in Pc
      BY DEF Pc
    <3> QED BY <1>1, <2>1, <3>1, AwaitMoves
  <2> QED BY <1>1, <1>2, <2>1, <2>2 DEF TokensCovered, OnTheWay, Posting
<1>7. CASE Read
  <2>1. /\ line # << >> /\ line' = Tail(line) /\ rxpc = "read"
        /\ UNCHANGED <<toDevice, srspSem, timeouts, pc>>
        /\ rxpc' = "post" => Head(line).type = "SRSP"
    BY <1>7 DEF Read
  <2>2. Cardinality(OfType(line, "SRSP")') =
            Cardinality(OfType(line, "SRSP")) - (IF Head(line).type = "SRSP" THEN 1 ELSE 0)
    BY <1>1, <2>1, OfTypeTail
  <2>3. AppsAt({"await"})' = AppsAt({"await"})
    BY <2>1 DEF AppsAt
  <2> QED BY <1>1, <1>2, <2>1, <2>2, <2>3 DEF TokensCovered, OnTheWay, Posting
<1>8. CASE Post
  <2>1. /\ rxpc = "post" /\ rxpc' = "add" /\ srspSem' = srspSem + 1
        /\ UNCHANGED <<toDevice, line, timeouts, pc>>
    BY <1>8 DEF Post
  <2>2. AppsAt({"await"})' = AppsAt({"await"})
    BY <2>1 DEF AppsAt
  <2> QED BY <1>1, <1>2, <2>1, <2>2 DEF TokensCovered, OnTheWay, Posting
<1>9. CASE AddResponse \/ RxQueueStep
  <2>1. /\ rxpc' \in {"read", "queue", rxpc}
        /\ UNCHANGED <<toDevice, line, srspSem, timeouts, pc>>
    BY <1>9 DEF AddResponse, RxQueueStep
  <2>2. AppsAt({"await"})' = AppsAt({"await"})
    BY <2>1 DEF AppsAt
  <2> QED BY <1>1, <1>2, <2>1, <2>2 DEF TokensCovered, OnTheWay, Posting
<1>10. CASE Answer
  <2>1. /\ toDevice # << >> /\ toDevice' = Tail(toDevice)
        /\ line' = IF Head(toDevice).type = "SREQ" THEN Append(line, Srsp(Head(toDevice)))
                                                   ELSE line
        /\ UNCHANGED <<rxpc, srspSem, timeouts, pc>>
    BY <1>10 DEF Answer
  <2>2. Cardinality(OfType(toDevice, "SREQ")') = Cardinality(OfType(toDevice, "SREQ"))
            - (IF Head(toDevice).type = "SREQ" THEN 1 ELSE 0)
    BY <1>1, <2>1, OfTypeTail
  <2>3. Cardinality(OfType(line, "SRSP")') = Cardinality(OfType(line, "SRSP"))
            + (IF Head(toDevice).type = "SREQ" THEN 1 ELSE 0)
    <3>1. CASE Head(toDevice).type = "SREQ"
      <4>1. Srsp(Head(toDevice)) \in Message /\ Srsp(Head(toDevice)).type = "SRSP"
        BY <1>1, <2>1, <3>1, RequestFields
      <4> QED BY <1>1, <2>1, <3>1, <4>1, OfTypeAppend
    <3>2. CASE Head(toDevice).type # "SREQ"
      BY <1>2, <2>1, <3>2
    <3> QED BY <3>1, <3>2
  <2>4. AppsAt({"await"})' = AppsAt({"await"})
    BY <2>1 DEF AppsAt
  <2> QED BY <1>1, <1>2, <2>1, <2>2, <2>3, <2>4 DEF TokensCovered, OnTheWay, Posting
<1>11. CASE Indicate
  <2> DEFINE m == [type |-> "AREQ", id |-> sent + 1]
  <2>1. line' = Append(line, m) /\ UNCHANGED <<toDevice, rxpc, srspSem, timeouts, pc>>
    BY <1>11 DEF Indicate
  <2>2. m \in Message /\ m.type # "SRSP"
    <3>1. sent + 1 \in 1 .. MaxAreqs
      BY <1>1, <1>11, BoundsAssumption DEF Indicate, TypeOK
    <3> QED BY <3>1, IndicationIsMessage
  <2> HIDE DEF m
  <2>3. Cardinality(OfType(line, "SRSP")') = Cardinality(OfType(line, "SRSP"))
    BY <1>1, <1>2, <2>1, <2>2, OfTypeAppend
  <2>4. AppsAt({"await"})' = AppsAt({"await"})
    BY <2>1 DEF AppsAt
  <2> QED BY <1>1, <1>2, <2>1, <2>3, <2>4 DEF TokensCovered, OnTheWay, Posting
<1>12. CASE UNCHANGED vars \/ \E t \in Apps : AppQueueStep(t)
  <2>1. UNCHANGED <<toDevice, line, srspSem, timeouts, rxpc, pc>>
    BY <1>12 DEF vars, rpcVars, AppQueueStep
  <2>2. AppsAt({"await"})' = AppsAt({"await"})
    BY <2>1 DEF AppsAt
  <2> QED BY <1>3, <2>1, <2>2 DEF Posting
<1> QED BY <1>1, <1>4, <1>5, <1>6, <1>7, <1>8, <1>9, <1>10, <1>11, <1>12
        DEF Next, rpcSendFrame, rpcWaitMqClientMsg, rpcProcess

\* While no wait has been given up, what is on its way is what is awaited.
Awaited(i) == \E t \in Apps : pc[t] = "await" /\ req[t].id = i
OwnAnswers ==
    timeouts = 0 =>
        /\ \A i \in 1 .. Len(toDevice) : toDevice[i].type = "SREQ" => Awaited(toDevice[i].id)
        /\ \A i \in 1 .. Len(line) : line[i].type = "SRSP" => Awaited(line[i].id)
        /\ rxpc = "post" => Awaited(frame.id)
        /\ srspSem > 0 => \E i \in posted : Awaited(i)

AnswersInv == RpcInv /\ TokensCovered /\ OwnAnswers /\ SuccessMeansAnswered

\* A thread that awaits an answer is the only one that sends.
LEMMA AwaiterIsAlone ==
    ASSUME RpcInv, NEW t \in Apps, pc[t] = "await"
    PROVE  /\ \A u \in Apps : pc[u] = "await" => u = t
           /\ Cardinality(AppsAt({"await"})) = 1
<1>1. Sending = {t}
  BY SenderIsAlone DEF RpcInv, Sending
<1>2. \A u \in Apps : pc[u] = "await" => u = t
  BY <1>1 DEF Sending
<1>3. AppsAt({"await"}) = {t}
  BY <1>2 DEF AppsAt
<1> QED BY <1>2, <1>3, FS_Singleton

LEMMA OwnAnswersKept ==
    ASSUME AnswersInv, [Next]_vars
    PROVE  OwnAnswers'
<1> SUFFICES ASSUME timeouts' = 0 PROVE OwnAnswers'
  BY DEF OwnAnswers
<1>1. /\ TypeOK /\ ReceivesOutside /\ RequestsMade
      /\ pc \in [Apps -> Pc] /\ srspSem \in Nat /\ timeouts \in Nat
      /\ toDevice \in Seq(Request) /\ line \in Seq(Message)
      /\ Senders \subseteq Apps /\ Listeners \subseteq Apps
  BY ThreadsAssumption DEF AnswersInv, RpcInv, TypeOK
<1>2. timeouts = 0
  BY <1>1 DEF Next, Call, Listen, rpcSendFrame, Enter, Write, Await, Clear, Unlock,
              rpcWaitMqClientMsg, Receive, AppQueueStep, mtProcess, NoMessageCame,
              Status, rpcProcess, Read, Post, AddResponse, RxQueueStep, Answer,
              Indicate, vars, rpcVars
<1>3. /\ \A i \in 1 .. Len(toDevice) : toDevice[i].type = "SREQ" => Awaited(toDevice[i].id)
      /\ \A i \in 1 .. Len(line) : line[i].type = "SRSP" => Awaited(line[i].id)
      /\ rxpc = "post" => Awaited(frame.id)
      /\ srspSem > 0 => \E i \in posted : Awaited(i)
  BY <1>2 DEF AnswersInv, OwnAnswers
<1>4. ASSUME \A i : Awaited(i) => Awaited(i)',
             UNCHANGED <<toDevice, line, rxpc, frame, srspSem, posted>>
      PROVE  OwnAnswers'
  BY <1>3, <1>4 DEF OwnAnswers
<1>5. ASSUME NEW t \in Apps,
             \/ Call(t) \/ Listen(t) \/ Receive(t) \/ NoMessageCame(t) \/ Status(t)
             \/ mtProcess(t) \/ Enter(t) \/ Clear(t) \/ Unlock(t)
      PROVE  OwnAnswers'
  <2>1. /\ UNCHANGED <<toDevice, line, rxpc, frame, srspSem, posted>>
        /\ pc[t] # "await" /\ \A u \in Apps \ {t} : pc'[u] = pc[u] /\ req'[u] = req[u]
    BY <1>1, <1>5 DEF Call, Listen, Receive, NoMessageCame, Status, mtProcess, Enter,
                      Clear, Unlock, Step, ReceivesOutside, TypeOK
  <2>2. \A i : Awaited(i) => Awaited(i)'
    BY <2>1 DEF Awaited
  <2> QED BY <1>4, <2>1, <2>2
<1>6. ASSUME NEW t \in Apps, Write(t)
      PROVE  OwnAnswers'
  <2>1. /\ pc[t] = "write" /\ UNCHANGED <<req, line, srspSem, rxpc, frame, posted>>
        /\ pc' = [pc EXCEPT ![t] = IF req[t].type = "SREQ" THEN "await" ELSE "unlock"]
        /\ toDevice' \in {toDevice, Append(toDevice, req[t])}
    BY <1>6 DEF Write, Step
  <2>2. req[t] \in Request
    BY <1>1, <2>1 DEF RequestsMade
  <2> DEFINE AwaitedNext(i) == \E u \in Apps : pc'[u] = "await" /\ req'[u].id = i
  <2>3. \A i : Awaited(i) => AwaitedNext(i)
    BY <1>1, <2>1 DEF Awaited
  <2>4. req[t].type = "SREQ" => AwaitedNext(req[t].id)
    BY <1>1, <2>1
  <2>5. \A i : Awaited(i)' <=> AwaitedNext(i)
    BY DEF Awaited
  <2> HIDE DEF AwaitedNext
  <2>6. CASE toDevice' = toDevice
    BY <1>4, <2>1, <2>3, <2>5, <2>6
  <2>7. CASE toDevice' = Append(toDevice, req[t])
    <3>1. /\ Len(toDevice') = Len(toDevice) + 1 /\ toDevice'[Len(toDevice) + 1] = req[t]
          /\ \A i \in 1 .. Len(toDevice) : toDevice'[i] = toDevice[i]
          /\ Len(toDevice) \in Nat
      BY <1>1, <2>2, <2>7, Appended
    <3>2. ASSUME NEW i \in 1 .. Len(toDevice'), toDevice'[i].type = "SREQ"
          PROVE  AwaitedNext(toDevice'[i].id)
      <4>1. CASE i \in 1 .. Len(toDevice)
        BY <1>3, <2>3, <3>1, <3>2, <4>1
      <4>2. CASE i = Len(toDevice) + 1
        BY <2>4, <3>1, <3>2, <4>2
      <4> QED BY <3>1, <4>1, <4>2
    <3> QED BY <1>3, <2>1, <2>3, <2>5, <3>2 DEF OwnAnswers
  <2> QED BY <2>1, <2>6, <2>7
<1>7. ASSUME NEW t \in Apps, Await(t)
      PROVE  OwnAnswers'
  <2>1. /\ pc[t] = "await" /\ UNCHANGED <<toDevice, line, rxpc>>
        /\ srspSem > 0 /\ srspSem' = srspSem - 1
    BY <1>1, <1>2, <1>7 DEF Await, Step
  <2>2. Cardinality(AppsAt({"await"})) = 1
    BY <2>1, AwaiterIsAlone DEF AnswersInv
  <2>3. /\ Cardinality(OfType(toDevice, "SREQ")) \in Nat
        /\ Cardinality(OfType(line, "SRSP")) \in Nat
    BY <1>1, WayIsNat
  <2>4. /\ Cardinality(OfType(toDevice, "SREQ")) = 0 /\ Cardinality(OfType(line, "SRSP")) = 0
        /\ rxpc # "post" /\ srspSem = 1
    BY <1>1, <1>2, <2>1, <2>2, <2>3 DEF AnswersInv, TokensCovered, OnTheWay, Posting
  <2>5. /\ \A i \in 1 .. Len(toDevice) : toDevice[i].type # "SREQ"
        /\ \A i \in 1 .. Len(line) : line[i].type # "SRSP"
    BY <1>1, <2>4, OfTypeFinite
  <2> QED BY <2>1, <2>4, <2>5 DEF OwnAnswers
<1>8. CASE rpcProcess \/ Answer \/ Indicate
  <2>1. UNCHANGED <<pc, req>>
    BY <1>8 DEF rpcProcess, Read, Post, AddResponse, RxQueueStep, Answer, Indicate
  <2>2. \A i : Awaited(i)' <=> Awaited(i)
    BY <2>1 DEF Awaited
  <2>3. CASE Read
    <3>1. /\ line # << >> /\ line' = Tail(line) /\ rxpc = "read"
          /\ UNCHANGED <<toDevice, srspSem, posted>>
          /\ rxpc' = "post" => Head(line).type = "SRSP" /\ frame' = Head(line)
      BY <2>3 DEF Read
    <3>2. /\ Len(line) \in Nat \ {0} /\ Len(line') = Len(line) - 1 /\ Head(line) = line[1]
          /\ \A i \in 1 .. Len(line) - 1 : line'[i] = line[i + 1]
      BY <1>1, <3>1, Shortened
    <3>3. \A i \in 1 .. Len(line') : line'[i].type = "SRSP" => Awaited(line'[i].id)
      <4> TAKE i \in 1 .. Len(line')
      <4>1. i + 1 \in 1 .. Len(line) /\ line'[i] = line[i + 1]
        BY <3>2
      <4> QED BY <1>3, <4>1
    <3>4. rxpc' = "post" => Awaited(frame'.id)
      BY <1>3, <3>1, <3>2
    <3> QED BY <1>3, <2>2, <3>1, <3>3, <3>4 DEF OwnAnswers
  <2>4. CASE Post
    <3>1. /\ rxpc = "post" /\ rxpc' = "add" /\ posted' = posted \cup {frame.id}
          /\ UNCHANGED <<toDevice, line>>
      BY <2>4 DEF Post
    <3> QED BY <1>3, <2>2, <3>1 DEF OwnAnswers
  <2>5. CASE AddResponse \/ RxQueueStep
    <3>1. /\ UNCHANGED <<toDevice, line, srspSem, posted>>
          /\ rxpc' = "post" => rxpc = "post" /\ frame' = frame
      BY <2>5 DEF AddResponse, RxQueueStep
    <3> QED BY <1>3, <2>2, <3>1 DEF OwnAnswers
  <2>6. CASE Answer
    <3>1. /\ toDevice # << >> /\ toDevice' = Tail(toDevice)
          /\ line' = IF Head(toDevice).type = "SREQ" THEN Append(line, Srsp(Head(toDevice)))
                                                     ELSE line
          /\ UNCHANGED <<rxpc, frame, srspSem, posted>>
      BY <2>6 DEF Answer
    <3>2. /\ Len(toDevice) \in Nat \ {0} /\ Len(toDevice') = Len(toDevice) - 1
          /\ \A i \in 1 .. Len(toDevice) - 1 : toDevice'[i] = toDevice[i + 1]
          /\ Head(toDevice) = toDevice[1] /\ Head(toDevice) \in Request
      BY <1>1, <3>1, Shortened
    <3>3. \A i \in 1 .. Len(toDevice') : toDevice'[i].type = "SREQ" => Awaited(toDevice'[i].id)
      <4> TAKE i \in 1 .. Len(toDevice')
      <4>1. i + 1 \in 1 .. Len(toDevice) /\ toDevice'[i] = toDevice[i + 1]
        BY <3>2
      <4> QED BY <1>3, <4>1
    <3>4. \A i \in 1 .. Len(line') : line'[i].type = "SRSP" => Awaited(line'[i].id)
      <4>1. CASE Head(toDevice).type = "SREQ"
        <5> DEFINE m == Srsp(Head(toDevice))
        <5>1. m \in Message /\ m.id = Head(toDevice).id /\ Awaited(Head(toDevice).id)
          BY <1>3, <3>2, <4>1, RequestFields
        <5>2. line' = Append(line, m)
          BY <3>1, <4>1
        <5> HIDE DEF m
        <5>3. /\ Len(line') = Len(line) + 1 /\ line'[Len(line) + 1] = m
              /\ \A i \in 1 .. Len(line) : line'[i] = line[i]
              /\ Len(line) \in Nat
          BY <1>1, <5>1, <5>2, Appended
        <5> TAKE i \in 1 .. Len(line')
        <5>4. CASE i \in 1 .. Len(line)
          BY <1>3, <5>3, <5>4
        <5>5. CASE i = Len(line) + 1
          BY <5>1, <5>3, <5>5
        <5> QED BY <5>3, <5>4, <5>5
      <4>2. CASE Head(toDevice).type # "SREQ"
        BY <1>3, <3>1, <4>2
      <4> QED BY <4>1, <4>2
    <3> QED BY <1>3, <2>2, <3>1, <3>3, <3>4 DEF OwnAnswers
  <2>7. CASE Indicate
    <3> DEFINE m == [type |-> "AREQ", id |-> sent + 1]
    <3>1. line' = Append(line, m) /\ UNCHANGED <<toDevice, rxpc, frame, srspSem, posted>>
      BY <2>7 DEF Indicate
    <3>2. m \in Message /\ m.type # "SRSP"
      <4>1. sent + 1 \in 1 .. MaxAreqs
        BY <1>1, <2>7, BoundsAssumption DEF Indicate, TypeOK
      <4> QED BY <4>1, IndicationIsMessage
    <3> HIDE DEF m
    <3>3. /\ Len(line') = Len(line) + 1 /\ line'[Len(line) + 1] = m
          /\ \A i \in 1 .. Len(line) : line'[i] = line[i]
          /\ Len(line) \in Nat
      BY <1>1, <3>1, <3>2, Appended
    <3>4. \A i \in 1 .. Len(line') : line'[i].type = "SRSP" => Awaited(line'[i].id)
      <4> TAKE i \in 1 .. Len(line')
      <4>1. i \in 1 .. Len(line) \/ i = Len(line) + 1
        BY <3>3
      <4> QED BY <1>3, <3>2, <3>3, <4>1
    <3> QED BY <1>3, <2>2, <3>1, <3>4 DEF OwnAnswers
  <2> QED BY <1>8, <2>3, <2>4, <2>5, <2>6, <2>7 DEF rpcProcess
<1>9. CASE UNCHANGED vars \/ \E t \in Apps : AppQueueStep(t)
  <2>1. UNCHANGED <<toDevice, line, srspSem, rxpc, frame, posted, pc, req>>
    BY <1>9 DEF vars, rpcVars, AppQueueStep
  <2> QED BY <1>4, <2>1 DEF Awaited
<1> QED BY <1>1, <1>5, <1>6, <1>7, <1>8, <1>9
        DEF Next, rpcSendFrame, rpcWaitMqClientMsg

LEMMA AnsweredKept ==
    ASSUME AnswersInv, [Next]_vars
    PROVE  SuccessMeansAnswered'
<1> DEFINE After == {"clear", "unlock", "receive", "receiving", "status"}
<1> SUFFICES ASSUME timeouts' = 0, NEW u \in Apps,
                    pc'[u] \in After, req'[u].type = "SREQ"
             PROVE  req'[u].id \in posted'
  BY DEF SuccessMeansAnswered
<1>1. /\ TypeOK /\ ReceivesOutside /\ RequestsMade /\ RpcInv
      /\ pc \in [Apps -> Pc] /\ timeouts \in Nat /\ srspSem \in Nat
      /\ Senders \subseteq Apps /\ Listeners \subseteq Apps
  BY ThreadsAssumption DEF AnswersInv, RpcInv, TypeOK
<1>2. timeouts = 0 /\ posted \subseteq posted'
  BY <1>1 DEF Next, Call, Listen, rpcSendFrame, Enter, Write, Await, Clear, Unlock,
              rpcWaitMqClientMsg, Receive, AppQueueStep, mtProcess, NoMessageCame,
              Status, rpcProcess, Read, Post, AddResponse, RxQueueStep, Answer,
              Indicate, vars, rpcVars
<1>3. ASSUME pc[u] \in After, req'[u] = req[u]
      PROVE  req'[u].id \in posted'
  BY <1>2, <1>3 DEF AnswersInv, SuccessMeansAnswered
<1>4. ASSUME NEW t \in Apps,
             \/ Call(t) \/ Listen(t) \/ Receive(t) \/ NoMessageCame(t) \/ Status(t)
             \/ mtProcess(t) \/ Enter(t) \/ Clear(t) \/ Unlock(t) \/ Write(t)
      PROVE  req'[u].id \in posted'
  <2>1. pc[u] \in After /\ req'[u] = req[u]
    <3>1. CASE Call(t)
      BY <1>1, <3>1 DEF Call, Step, TypeOK
    <3>2. CASE Write(t)
      BY <1>1, <3>2 DEF Write, Step
    <3>3. CASE \/ Listen(t) \/ Receive(t) \/ NoMessageCame(t) \/ Status(t)
               \/ mtProcess(t) \/ Enter(t) \/ Clear(t) \/ Unlock(t)
      BY <1>1, <3>3 DEF Listen, Receive, NoMessageCame, Status, mtProcess, Enter, Clear,
                        Unlock, Step, AfterReceive, ReceivesOutside
    <3> QED BY <1>4, <3>1, <3>2, <3>3
  <2> QED BY <1>3, <2>1
<1>5. ASSUME NEW t \in Apps, Await(t)
      PROVE  req'[u].id \in posted'
  <2>1. /\ pc[t] = "await" /\ srspSem > 0 /\ pc' = [pc EXCEPT ![t] = "clear"]
        /\ UNCHANGED <<req, posted>>
    BY <1>1, <1>2, <1>5 DEF Await, Step
  <2>2. CASE u = t
    <3>1. PICK i \in posted : Awaited(i)
      BY <1>2, <2>1 DEF AnswersInv, OwnAnswers
    <3>2. i = req[t].id
      BY <1>1, <2>1, <3>1, AwaiterIsAlone DEF Awaited
    <3> QED BY <2>1, <2>2, <3>2
  <2>3. CASE u # t
    BY <1>1, <1>3, <2>1, <2>3
  <2> QED BY <2>2, <2>3
<1>6. CASE rpcProcess \/ Answer \/ Indicate
  <2>1. UNCHANGED <<pc, req>>
    BY <1>6 DEF rpcProcess, Read, Post, AddResponse, RxQueueStep, Answer, Indicate
  <2> QED BY <1>3, <2>1
<1>7. CASE UNCHANGED vars \/ \E t \in Apps : AppQueueStep(t)
  <2>1. UNCHANGED <<pc, req>>
    BY <1>7 DEF vars, rpcVars, AppQueueStep
  <2> QED BY <1>3, <2>1
<1> QED BY <1>1, <1>4, <1>5, <1>6, <1>7 DEF Next, rpcSendFrame, rpcWaitMqClientMsg

LEMMA AnswersInvInit == Init => AnswersInv
<1> SUFFICES ASSUME Init PROVE AnswersInv
  OBVIOUS
<1>1. RpcInv /\ TypeOK
  BY RpcInvInit DEF RpcInv
<1>2. OfType(toDevice, "SREQ") = {} /\ OfType(line, "SRSP") = {} /\ AppsAt({"await"}) = {}
  BY DEF Init, OfType, AppsAt
<1>3. TokensCovered
  <2>1. Cardinality({}) = 0
    BY FS_EmptySet
  <2>2. OnTheWay = 0
    BY <1>2, <2>1 DEF OnTheWay
  <2>3. Posting = 0 /\ srspSem = 0 /\ timeouts = 0
    BY DEF Init, Posting
  <2> QED BY <1>2, <2>1, <2>2, <2>3 DEF TokensCovered
<1>4. OwnAnswers /\ SuccessMeansAnswered
  BY DEF Init, OwnAnswers, SuccessMeansAnswered
<1> QED BY <1>1, <1>3, <1>4 DEF AnswersInv

LEMMA AnswersInvStep == AnswersInv /\ [Next]_vars => AnswersInv'
<1> SUFFICES ASSUME AnswersInv, [Next]_vars PROVE AnswersInv'
  OBVIOUS
<1>1. RpcInv' /\ TokensCovered'
  BY RpcInvStep, TokensKept DEF AnswersInv
<1> QED BY <1>1, OwnAnswersKept, AnsweredKept DEF AnswersInv

LEMMA AnswersInvariance == Spec => []AnswersInv
BY AnswersInvInit, AnswersInvStep, PTL DEF Spec

\* The response semaphore is at most one more than the waits given up: a response
\* that comes as its wait times out leaves it posted, once (rpc.c:377,491).
THEOREM SpareTokensAreCounted == Spec => []SpareTokens
<1>1. AnswersInv => SpareTokens
  <2> SUFFICES ASSUME AnswersInv PROVE SpareTokens
    OBVIOUS
  <2>1. TypeOK /\ RequestsMade /\ TokensCovered /\ srspSem \in Nat /\ timeouts \in Nat
    BY DEF AnswersInv, RpcInv, TypeOK
  <2>2. IsFiniteSet(Awaiting)
    <3>1. Awaiting \subseteq AppsAt({"write", "await"})
      BY DEF Awaiting, AppsAt
    <3> QED BY <3>1, AppsAtFinite, FS_Subset
  <2>3. AppsAt({"await"}) \subseteq Awaiting
    BY <2>1 DEF AppsAt, Awaiting, RequestsMade
  <2>4. /\ Cardinality(AppsAt({"await"})) <= Cardinality(Awaiting)
        /\ Cardinality(AppsAt({"await"})) \in Nat /\ Cardinality(Awaiting) \in Nat
    BY <2>2, <2>3, FS_Subset, FS_CardinalityType, AppsAtFinite
  <2>5. /\ Cardinality(OfType(toDevice, "SREQ")) \in Nat
        /\ Cardinality(OfType(line, "SRSP")) \in Nat
    BY <2>1, WayIsNat
  <2>6. Posting \in {0, 1} /\ Posting = (IF rxpc = "post" THEN 1 ELSE 0)
    BY DEF Posting
  <2>7. srspSem + Posting <= timeouts + Cardinality(Awaiting)
    BY <2>1, <2>4, <2>5, <2>6 DEF TokensCovered, OnTheWay
  <2> QED BY <2>6, <2>7 DEF SpareTokens
<1> QED BY <1>1, AnswersInvariance, PTL

\* As long as no wait has been given up, success means that the own response came:
\* the semaphore a request takes was posted for that request (rpc.c:484-503).
THEOREM SuccessIsOwnAnswer == Spec => []SuccessMeansAnswered
<1>1. AnswersInv => SuccessMeansAnswered
  BY DEF AnswersInv
<1> QED BY <1>1, AnswersInvariance, PTL

--------------------------------------------------------------------------------
(* A message the receiving thread has accepted is in one place until it has  *)
(* been processed, once.  The places are sequences and sets; what is needed  *)
(* besides is that the serial line brings no message twice, because no       *)
(* request is made twice and none is answered twice.                         *)

\* Sequences without repetition.

Distinct(s) == \A i, j \in 1 .. Len(s) : s[i] = s[j] => i = j
InSeq(e, s) == \E i \in 1 .. Len(s) : s[i] = e

LEMMA DistinctPrepended ==
    ASSUME NEW S, NEW s \in Seq(S), NEW e \in S
    PROVE  /\ \A x : InSeq(x, <<e>> \o s) <=> x = e \/ InSeq(x, s)
           /\ Distinct(s) /\ ~InSeq(e, s) => Distinct(<<e>> \o s)
<1> DEFINE r == <<e>> \o s
<1>1. /\ Len(r) = Len(s) + 1 /\ r[1] = e /\ Len(s) \in Nat
      /\ \A i \in 1 .. Len(s) : r[i + 1] = s[i]
  BY Prepended
<1> HIDE DEF r
<1>2. \A i \in 1 .. Len(r) : i # 1 => i - 1 \in 1 .. Len(s) /\ r[i] = s[i - 1]
  <2> TAKE i \in 1 .. Len(r)
  <2> HAVE i # 1
  <2>1. i - 1 \in 1 .. Len(s) /\ (i - 1) + 1 = i
    BY <1>1
  <2> QED BY <1>1, <2>1
<1>3. 1 \in 1 .. Len(r) /\ \A i \in 1 .. Len(s) : i + 1 \in 1 .. Len(r)
  BY <1>1
<1>4. \A x : InSeq(x, r) <=> x = e \/ InSeq(x, s)
  BY <1>1, <1>2, <1>3 DEF InSeq
<1>5. ASSUME Distinct(s), ~InSeq(e, s) PROVE Distinct(r)
  <2> SUFFICES ASSUME NEW i \in 1 .. Len(r), NEW j \in 1 .. Len(r), r[i] = r[j]
               PROVE  i = j
    BY DEF Distinct
  <2>1. CASE i = 1 \/ j = 1
    BY <1>1, <1>2, <1>5, <2>1 DEF InSeq
  <2>2. CASE i # 1 /\ j # 1
    <3>1. i - 1 = j - 1
      BY <1>2, <1>5, <2>2 DEF Distinct
    <3> QED BY <1>1, <3>1
  <2> QED BY <2>1, <2>2
<1> QED BY <1>4, <1>5 DEF r

LEMMA DistinctAppended ==
    ASSUME NEW S, NEW s \in Seq(S), NEW e \in S
    PROVE  /\ \A x : InSeq(x, Append(s, e)) <=> x = e \/ InSeq(x, s)
           /\ Distinct(s) /\ ~InSeq(e, s) => Distinct(Append(s, e))
<1> DEFINE r == Append(s, e)
<1>1. /\ Len(r) = Len(s) + 1 /\ r[Len(s) + 1] = e /\ Len(s) \in Nat
      /\ \A i \in 1 .. Len(s) : r[i] = s[i]
  BY Appended
<1> HIDE DEF r
<1>2. \A i : i \in 1 .. Len(r) <=> i \in 1 .. Len(s) \/ i = Len(s) + 1
  BY <1>1
<1>3. \A x : InSeq(x, r) <=> x = e \/ InSeq(x, s)
  BY <1>1, <1>2 DEF InSeq
<1>4. Distinct(s) /\ ~InSeq(e, s) => Distinct(r)
  BY <1>1, <1>2 DEF Distinct, InSeq
<1> QED BY <1>3, <1>4 DEF r

LEMMA DistinctShortened ==
    ASSUME NEW S, NEW s \in Seq(S), s # << >>
    PROVE  /\ \A x : InSeq(x, s) <=> x = Head(s) \/ InSeq(x, Tail(s))
           /\ Distinct(s) => Distinct(Tail(s)) /\ ~InSeq(Head(s), Tail(s))
<1> DEFINE r == Tail(s)
<1>1. /\ Len(s) \in Nat \ {0} /\ Len(r) = Len(s) - 1 /\ Head(s) = s[1]
      /\ \A i \in 1 .. Len(s) - 1 : r[i] = s[i + 1]
  BY Shortened
<1> HIDE DEF r
<1>2. \A i \in 1 .. Len(r) : i + 1 \in 1 .. Len(s) /\ i + 1 # 1 /\ r[i] = s[i + 1]
  BY <1>1
<1>3. \A i \in 1 .. Len(s) : i # 1 => i - 1 \in 1 .. Len(r) /\ s[i] = r[i - 1]
  <2> TAKE i \in 1 .. Len(s)
  <2> HAVE i # 1
  <2>1. i - 1 \in 1 .. Len(s) - 1 /\ (i - 1) + 1 = i
    BY <1>1
  <2> QED BY <1>1, <2>1
<1>4. 1 \in 1 .. Len(s)
  BY <1>1
<1>5. \A x : InSeq(x, s) <=> x = Head(s) \/ InSeq(x, r)
  BY <1>1, <1>2, <1>3, <1>4 DEF InSeq
<1>6. ASSUME Distinct(s) PROVE Distinct(r) /\ ~InSeq(Head(s), r)
  <2>1. ASSUME NEW i \in 1 .. Len(r), NEW j \in 1 .. Len(r), r[i] = r[j] PROVE i = j
    <3>1. i + 1 = j + 1
      BY <1>2, <1>6, <2>1 DEF Distinct
    <3> QED BY <1>1, <3>1
  <2>2. ~InSeq(Head(s), r)
    BY <1>1, <1>2, <1>4, <1>6 DEF Distinct, InSeq
  <2> QED BY <2>1, <2>2 DEF Distinct
<1> QED BY <1>5, <1>6 DEF r

--------------------------------------------------------------------------------
(* The places.                                                               *)

\* The receiving thread is in the queue's code only to add,
RxPlace == at[Rx] \in IF rxpc = "queue" THEN {"adding", "linking", "counting"} ELSE {"out"}
\* the application's threads only to receive.
AppsReceive == \A t \in Apps : at[t] \notin {"adding", "linking", "counting"}

\* The receiving thread has accepted a message and not yet linked it.
RxHolds == rxpc \in {"post", "add"} \/ at[Rx] \in {"adding", "linking"}
RxItem == IF rxpc \in {"post", "add"} THEN frame ELSE item[Rx]

OnePlace ==
    /\ Distinct(Contents)
    /\ \A m \in Message : InSeq(m, Contents) => m \in accepted \ handled
    /\ \A t, u \in InHand : item[t] = item[u] => t = u
    /\ \A t \in InHand : item[t] \in accepted \ handled /\ ~InSeq(item[t], Contents)
    /\ handled \subseteq accepted
    /\ RxHolds => /\ RxItem \in accepted \ handled
                  /\ ~InSeq(RxItem, Contents)
                  /\ \A t \in InHand : item[t] # RxItem

PlacesInv == RpcInv /\ RxPlace /\ AppsReceive

\* What a step does to the places: nothing;
Quiet == /\ UNCHANGED <<Contents, accepted, handled, InHand, RxHolds>>
         /\ Len(nodes') = Len(nodes)
         /\ \A t \in InHand : item'[t] = item[t]
         /\ RxHolds => RxItem' = RxItem
\* a message is accepted from the line,
Accepts(m) == /\ ~RxHolds /\ RxHolds' /\ RxItem' = m
              /\ accepted' = accepted \cup {m}
              /\ UNCHANGED <<Contents, handled, InHand>>
              /\ Len(nodes') = Len(nodes)
              /\ \A t \in InHand : item'[t] = item[t]
\* linked,
Links == /\ RxHolds /\ ~RxHolds'
         /\ Contents' \in {<<RxItem>> \o Contents, Append(Contents, RxItem)}
         /\ Len(nodes') = Len(nodes) + 1
         /\ UNCHANGED <<accepted, handled, InHand>>
         /\ \A t \in InHand : item'[t] = item[t]
\* taken by a thread,
Takes(t) == /\ Contents # << >> /\ Contents' = Tail(Contents)
            /\ Len(nodes') = Len(nodes) - 1
            /\ t \notin InHand /\ InHand' = InHand \cup {t}
            /\ item'[t] = Head(Contents)
            /\ \A u \in InHand : item'[u] = item[u]
            /\ UNCHANGED <<accepted, handled, RxHolds>>
            /\ RxHolds => RxItem' = RxItem
\* or processed.
Processes(t) == /\ t \in InHand /\ InHand' = InHand \ {t}
                /\ handled' = handled \cup {item[t]}
                /\ \A u \in InHand : item'[u] = item[u]
                /\ UNCHANGED <<Contents, accepted, RxHolds>>
                /\ Len(nodes') = Len(nodes)
                /\ RxHolds => RxItem' = RxItem

LEMMA AppStepEffect ==
    ASSUME PlacesInv, NEW t \in Apps,
           \/ Call(t) \/ Listen(t) \/ rpcSendFrame(t)
           \/ rpcWaitMqClientMsg(t) \/ Status(t)
    PROVE  /\ Quiet \/ Takes(t) \/ Processes(t)
           /\ RxPlace' /\ AppsReceive'
<1>1. /\ LlqInv /\ LlqTypeOK /\ NoneEmpty /\ t \in Threads /\ t # Rx /\ Rx \in Threads
      /\ Apps \subseteq Threads /\ at \in [Threads -> At] /\ RxPlace /\ AppsReceive
      /\ item \in [Threads -> Message \cup {NoMessage}]
  BY ThreadsAssumption DEF PlacesInv, RpcInv, LlqInv, LlqTypeOK
<1>2. UNCHANGED <<rxpc, frame, accepted>>
  BY DEF Call, Listen, rpcSendFrame, Enter, Write, Await, Clear, Unlock,
         rpcWaitMqClientMsg, Receive, AppQueueStep, rpcVars, mtProcess, NoMessageCame,
         Status
<1>3. ASSUME UNCHANGED <<data, nodes, handled>>, at[t] # "got",
             NEW to \in At \ {"got", "adding", "linking", "counting"}, Goto(t, to),
             \A u \in Threads \ {t} : item'[u] = item[u]
      PROVE  Quiet /\ RxPlace' /\ AppsReceive'
  <2>1. \A u \in Threads : at'[u] = IF u = t THEN to ELSE at[u]
    BY <1>1, <1>3 DEF Goto
  <2>2. InHand' = InHand /\ t \notin InHand
    BY <1>1, <1>3, <2>1 DEF InHand
  <2>3. Contents' = Contents
    BY <1>3, ContentsKept
  <2>4. RxHolds' = RxHolds /\ RxItem' = RxItem
    BY <1>1, <1>2, <1>3, <2>1 DEF RxHolds, RxItem
  <2>5. \A u \in InHand : item'[u] = item[u]
    BY <1>1, <1>3, <2>2 DEF InHand
  <2>6. RxPlace' /\ AppsReceive'
    BY <1>1, <1>2, <1>3, <2>1 DEF RxPlace, AppsReceive
  <2> QED BY <1>2, <1>3, <2>2, <2>3, <2>4, <2>5, <2>6 DEF Quiet
<1>4. CASE Call(t) \/ rpcSendFrame(t) \/ NoMessageCame(t) \/ Status(t)
  <2>1. UNCHANGED llqVars /\ handled' = handled
    BY <1>4 DEF Call, rpcSendFrame, Enter, Write, Await, Clear, Unlock, NoMessageCame,
                Status
  <2>2. UNCHANGED <<at, item, nodes, data>>
    BY <2>1 DEF llqVars
  <2>3. InHand' = InHand /\ Contents' = Contents /\ RxHolds' = RxHolds /\ RxItem' = RxItem
    BY <1>2, <2>2, ContentsKept DEF InHand, RxHolds, RxItem
  <2>4. RxPlace' /\ AppsReceive'
    BY <1>1, <1>2, <2>2 DEF RxPlace, AppsReceive
  <2> QED BY <1>2, <2>1, <2>2, <2>3, <2>4 DEF Quiet
<1>5. CASE Listen(t) \/ Receive(t)
  <2>1. llq_timedreceive(t) \/ llq_receive(t)
    BY <1>5 DEF Listen, Receive
  <2>2. handled' = handled
    BY <1>5 DEF Listen, Receive
  <2>3. /\ UNCHANGED <<data, nodes>> /\ at[t] # "got"
        /\ Goto(t, "waiting") \/ Goto(t, "blocked")
        /\ \A u \in Threads \ {t} : item'[u] = item[u]
    BY <1>1, <2>1 DEF llq_timedreceive, llq_receive
  <2>4. {"waiting", "blocked"} \subseteq At \ {"got", "adding", "linking", "counting"}
    BY DEF At
  <2> QED BY <1>3, <2>2, <2>3, <2>4
<1>6. CASE AppQueueStep(t)
  <2>1. LlqStep(t) /\ at[t] # "got" /\ handled' = handled
    BY <1>6 DEF AppQueueStep, rpcVars
  <2>2. Grant(t) \/ GiveUp(t) \/ TestHead(t) \/ TakeLock(t) \/ Remove(t)
    BY <1>1, <2>1 DEF LlqStep, AddLock, Link, Count, Return, AppsReceive, NoneEmpty
  <2>3. CASE Grant(t) \/ GiveUp(t) \/ TestHead(t) \/ TakeLock(t)
    <3>1. /\ UNCHANGED <<data, nodes, item>>
          /\ \E to \in {"granted", "out", "tested", "empty", "removing"} : Goto(t, to)
      BY <2>3 DEF Grant, GiveUp, TestHead, TakeLock
    <3>2. {"granted", "out", "tested", "empty", "removing"}
              \subseteq At \ {"got", "adding", "linking", "counting"}
      BY DEF At
    <3> QED BY <1>3, <2>1, <3>1, <3>2
  <2>4. CASE Remove(t)
    <3>1. Queue!HandOut(t)
      BY <1>1, <2>4, RemoveHandsOut
    <3>2. /\ Contents # << >> /\ Contents' = Tail(Contents)
          /\ Handed' = [Handed EXCEPT ![t] = Head(Contents)]
      BY <3>1 DEF Queue!HandOut, Contents, Handed
    <3>3. /\ at[t] = "removing" /\ \A u \in Threads : at'[u] = IF u = t THEN "got" ELSE at[u]
          /\ \A u \in Threads \ {t} : item'[u] = item[u]
          /\ nodes' = Tail(nodes)
      BY <1>1, <2>4 DEF Remove, Goto
    <3>4. item'[t] = Head(Contents)
      <4>1. Handed'[t] = Head(Contents)
        BY <1>1, <3>2 DEF Handed
      <4>2. Handed'[t] = item'[t]
        BY <1>1, <3>3 DEF Handed
      <4> QED BY <4>1, <4>2
    <3>5. t \notin InHand /\ InHand' = InHand \cup {t}
      BY <1>1, <3>3 DEF InHand
    <3>6. Len(nodes') = Len(nodes) - 1
      <4>1. nodes \in Seq(Cell) /\ nodes # << >>
        BY <1>1, <2>4 DEF LlqTypeOK, Remove, LlqInv, PointersAreList
      <4> QED BY <3>3, <4>1, Shortened
    <3>7. /\ RxHolds' = RxHolds /\ RxItem' = RxItem
          /\ \A u \in InHand : item'[u] = item[u]
      BY <1>1, <1>2, <3>3, <3>5 DEF RxHolds, RxItem, InHand
    <3>8. RxPlace' /\ AppsReceive'
      BY <1>1, <1>2, <3>3 DEF RxPlace, AppsReceive
    <3> QED BY <1>2, <2>1, <3>2, <3>4, <3>5, <3>6, <3>7, <3>8 DEF Takes
  <2> QED BY <2>2, <2>3, <2>4
<1>7. CASE mtProcess(t)
  <2>1. /\ at[t] = "got" /\ Goto(t, "out") /\ UNCHANGED <<data, nodes, item>>
        /\ handled' = handled \cup {item[t]}
    BY <1>7 DEF mtProcess, Return
  <2>2. \A u \in Threads : at'[u] = IF u = t THEN "out" ELSE at[u]
    BY <1>1, <2>1 DEF Goto
  <2>3. t \in InHand /\ InHand' = InHand \ {t}
    BY <1>1, <2>1, <2>2 DEF InHand
  <2>4. Contents' = Contents /\ RxHolds' = RxHolds /\ RxItem' = RxItem
    BY <1>1, <1>2, <2>1, <2>2, ContentsKept DEF RxHolds, RxItem
  <2>5. RxPlace' /\ AppsReceive'
    BY <1>1, <1>2, <2>2 DEF RxPlace, AppsReceive
  <2> QED BY <1>2, <2>1, <2>3, <2>4, <2>5 DEF Processes
<1> QED BY <1>4, <1>5, <1>6, <1>7 DEF rpcWaitMqClientMsg

LEMMA RxStepEffect ==
    ASSUME PlacesInv, rpcProcess \/ Answer \/ Indicate
    PROVE  /\ Quiet \/ Links \/ \E m \in Message : InSeq(m, line) /\ Accepts(m)
           /\ RxPlace' /\ AppsReceive'
<1>1. /\ LlqInv /\ LlqTypeOK /\ Rx \notin Apps /\ Rx \in Threads
      /\ Apps \subseteq Threads /\ at \in [Threads -> At] /\ RxPlace /\ AppsReceive
      /\ item \in [Threads -> Message \cup {NoMessage}] /\ line \in Seq(Message)
  BY ThreadsAssumption DEF PlacesInv, RpcInv, LlqInv, LlqTypeOK, TypeOK
<1>2. handled' = handled
  BY DEF rpcProcess, Read, Post, AddResponse, RxQueueStep, Answer, Indicate
\* The receiving thread moves alone.
<1>3. ASSUME \A u \in Threads \ {Rx} : at'[u] = at[u] /\ item'[u] = item[u]
      PROVE  /\ InHand' = InHand /\ \A t \in InHand : item'[t] = item[t]
             /\ AppsReceive'
  <2>1. \A t \in Apps : at'[t] = at[t] /\ item'[t] = item[t]
    BY <1>1, <1>3
  <2> QED BY <1>1, <2>1 DEF InHand, AppsReceive
<1>4. CASE Answer \/ Indicate \/ Post
  <2>1. UNCHANGED <<at, item, nodes, data, accepted, frame>>
    BY <1>4 DEF Answer, Indicate, Post, llqVars
  <2>2. rxpc' = rxpc \/ (rxpc = "post" /\ rxpc' = "add")
    BY <1>4 DEF Answer, Indicate, Post
  <2>3. /\ Contents' = Contents /\ RxHolds' = RxHolds /\ (RxHolds => RxItem' = RxItem)
        /\ RxPlace'
    BY <1>1, <2>1, <2>2, ContentsKept DEF RxHolds, RxItem, RxPlace
  <2> QED BY <1>2, <1>3, <2>1, <2>3 DEF Quiet
<1>5. CASE Read
  <2>1. /\ rxpc = "read" /\ line # << >> /\ at[Rx] = "out" /\ ~RxHolds
        /\ Head(line) \in Message /\ InSeq(Head(line), line)
    <3>1. rxpc = "read" /\ line # << >>
      BY <1>5 DEF Read
    <3>2. Head(line) \in Message /\ InSeq(Head(line), line)
      BY <1>1, <3>1, DistinctShortened
    <3> QED BY <1>1, <3>1, <3>2 DEF RxPlace, RxHolds
  <2>2. CASE UNCHANGED <<llqVars, rxpc, frame, accepted>>
    <3>1. UNCHANGED <<at, item, nodes, data>>
      BY <2>2 DEF llqVars
    <3>2. Contents' = Contents /\ RxHolds' = RxHolds /\ RxPlace'
      BY <1>1, <2>2, <3>1, ContentsKept DEF RxHolds, RxPlace
    <3> QED BY <1>2, <1>3, <2>1, <2>2, <3>1, <3>2 DEF Quiet
  <2>3. CASE /\ UNCHANGED llqVars /\ rxpc' = "post" /\ frame' = Head(line)
             /\ accepted' = accepted \cup {Head(line)}
    <3>1. UNCHANGED <<at, item, nodes, data>>
      BY <2>3 DEF llqVars
    <3>2. Contents' = Contents /\ RxHolds' /\ RxItem' = Head(line) /\ RxPlace'
      BY <2>1, <2>3, <3>1, ContentsKept DEF RxHolds, RxItem, RxPlace
    <3> QED BY <1>2, <1>3, <2>1, <2>3, <3>1, <3>2 DEF Accepts
  <2>4. CASE /\ llq_add(Rx, Head(line)) /\ rxpc' = "queue"
             /\ accepted' = accepted \cup {Head(line)}
    <3>1. /\ UNCHANGED <<nodes, data>> /\ at'[Rx] = "adding" /\ item'[Rx] = Head(line)
          /\ \A u \in Threads \ {Rx} : at'[u] = at[u] /\ item'[u] = item[u]
      BY <1>1, <2>4 DEF llq_add, Goto
    <3>2. Contents' = Contents /\ RxHolds' /\ RxItem' = Head(line) /\ RxPlace'
      BY <2>4, <3>1, ContentsKept DEF RxHolds, RxItem, RxPlace
    <3> QED BY <1>2, <1>3, <2>1, <2>4, <3>1, <3>2 DEF Accepts
  <2> QED BY <1>5, <2>2, <2>3, <2>4 DEF Read
<1>6. CASE AddResponse
  <2>1. /\ rxpc = "add" /\ rxpc' = "queue" /\ accepted' = accepted
        /\ UNCHANGED <<nodes, data>> /\ at'[Rx] = "adding" /\ item'[Rx] = frame
        /\ \A u \in Threads \ {Rx} : at'[u] = at[u] /\ item'[u] = item[u]
    BY <1>1, <1>6 DEF AddResponse, llq_add, Goto
  <2>2. /\ Contents' = Contents /\ RxHolds /\ RxHolds' /\ RxItem' = RxItem /\ RxPlace'
    BY <2>1, ContentsKept DEF RxHolds, RxItem, RxPlace
  <2> QED BY <1>2, <1>3, <2>1, <2>2 DEF Quiet
<1>7. CASE RxQueueStep
  <2>1. /\ LlqStep(Rx) /\ UNCHANGED <<accepted, frame>>
        /\ rxpc' = IF at[Rx] = "counting" THEN "read" ELSE rxpc
    BY <1>7 DEF RxQueueStep
  <2>2. AddLock(Rx) \/ Link(Rx) \/ Count(Rx)
    BY <1>1, <2>1 DEF LlqStep, Grant, GiveUp, TestHead, TakeLock, Remove, Return, RxPlace
  <2>3. rxpc = "queue"
    BY <1>1, <2>2 DEF AddLock, Link, Count, RxPlace
  <2>4. CASE AddLock(Rx)
    <3>1. /\ at[Rx] = "adding" /\ at'[Rx] = "linking" /\ UNCHANGED <<nodes, data, item>>
          /\ \A u \in Threads \ {Rx} : at'[u] = at[u]
      BY <1>1, <2>4 DEF AddLock, Goto
    <3>2. Contents' = Contents /\ RxHolds /\ RxHolds' /\ RxItem' = RxItem /\ RxPlace'
      BY <2>1, <2>3, <3>1, ContentsKept DEF RxHolds, RxItem, RxPlace
    <3> QED BY <1>2, <1>3, <2>1, <3>1, <3>2 DEF Quiet
  <2>5. CASE Count(Rx)
    <3>1. /\ at[Rx] = "counting" /\ at'[Rx] = "out" /\ UNCHANGED <<nodes, data>>
          /\ \A u \in Threads \ {Rx} : at'[u] = at[u] /\ item'[u] = item[u]
      BY <1>1, <2>5 DEF Count, Goto
    <3>2. Contents' = Contents /\ ~RxHolds /\ ~RxHolds' /\ RxPlace'
      BY <2>1, <2>3, <3>1, ContentsKept DEF RxHolds, RxPlace
    <3>3. RxHolds' = RxHolds
      BY <2>1, <2>3, <3>1 DEF RxHolds
    <3> QED BY <1>2, <1>3, <2>1, <3>1, <3>2, <3>3 DEF Quiet
  <2>6. CASE Link(Rx)
    <3>1. /\ at[Rx] = "linking" /\ at'[Rx] = "counting" /\ item' = item
          /\ \A u \in Threads \ {Rx} : at'[u] = at[u]
      BY <1>1, <2>6 DEF Link, Goto
    <3>2. RxHolds /\ ~RxHolds' /\ RxItem = item[Rx] /\ RxPlace'
      BY <2>1, <2>3, <3>1 DEF RxHolds, RxItem, RxPlace
    <3>3. Contents' \in {<<item[Rx]>> \o Contents, Append(Contents, item[Rx])}
      <4>1. \A t \in Threads : t = Rx => Contents' \in {<<item[t]>> \o Contents,
                                                     Append(Contents, item[t])}
        <5> TAKE t \in Threads
        <5> HAVE t = Rx
        <5>1. Link(t)
          BY <2>6
        <5>2. Queue!Add(item[t])
          BY <1>1, <5>1, LinkAdds
        <5> QED BY <5>2 DEF Queue!Add, Contents
      <4> QED BY <1>1, <4>1
    <3>4. Len(nodes') = Len(nodes) + 1
      <4>1. PICK c \in Fresh : IF item[Rx] \in Urgent THEN addToHead(c, item[Rx])
                                                      ELSE addToTail(c, item[Rx])
        BY <2>6 DEF Link
      <4>2. nodes' \in {<<c>> \o nodes, Append(nodes, c)}
        BY <4>1 DEF addToHead, addToTail
      <4>3. c \in Cell /\ nodes \in Seq(Cell)
        BY <1>1 DEF Fresh, LlqTypeOK
      <4> QED BY <4>2, <4>3, Prepended, Appended
    <3> QED BY <1>2, <1>3, <2>1, <3>1, <3>2, <3>3, <3>4 DEF Links
  <2> QED BY <2>2, <2>4, <2>5, <2>6
<1> QED BY <1>4, <1>5, <1>6, <1>7 DEF rpcProcess

LEMMA StepEffect ==
    ASSUME PlacesInv, [Next]_vars
    PROVE  /\ \/ Quiet \/ Links
              \/ \E m \in Message : InSeq(m, line) /\ Accepts(m)
              \/ \E t \in Apps : Takes(t) \/ Processes(t)
           /\ RxPlace' /\ AppsReceive'
<1>1. CASE UNCHANGED vars
  <2>1. UNCHANGED <<at, item, nodes, data, rxpc, frame, accepted, handled>>
    BY <1>1 DEF vars, rpcVars, llqVars
  <2>2. /\ Contents' = Contents /\ RxHolds' = RxHolds /\ RxItem' = RxItem
        /\ InHand' = InHand
    BY <2>1, ContentsKept DEF RxHolds, RxItem, InHand
  <2>3. RxPlace' /\ AppsReceive'
    BY <2>1 DEF PlacesInv, RxPlace, AppsReceive
  <2> QED BY <2>1, <2>2, <2>3 DEF Quiet
<1> QED BY <1>1, AppStepEffect, RxStepEffect, ThreadsAssumption DEF Next

--------------------------------------------------------------------------------
(* One place each.                                                           *)

LEMMA ContentsAreValues ==
    ASSUME RpcInv
    PROVE  /\ Contents \in Seq(Value) /\ RealMessages
           /\ \A x : InSeq(x, Contents) => x \in Message
<1>1. LlqTypeOK /\ RealMessages
  BY DEF RpcInv, LlqInv
<1>2. /\ Contents \in Seq(Value) /\ Len(Contents) = Len(nodes)
      /\ \A i \in 1 .. Len(nodes) : Contents[i] = data[nodes[i]]
  BY <1>1, ContentsType
<1> QED BY <1>1, <1>2 DEF RealMessages, InSeq

LEMMA OnePlaceKept ==
    ASSUME PlacesInv, OnePlace, [Next]_vars,
           \A m \in Message : InSeq(m, line) => m \notin accepted
    PROVE  OnePlace'
<1>1. /\ Contents \in Seq(Value) /\ \A x : InSeq(x, Contents) => x \in Message
      /\ handled \subseteq accepted /\ Distinct(Contents)
  BY ContentsAreValues DEF PlacesInv, OnePlace
<1>2. CASE Quiet
  BY <1>2 DEF Quiet, OnePlace
<1>3. ASSUME NEW m \in Message, InSeq(m, line), Accepts(m)
      PROVE  OnePlace'
  <2>1. m \notin accepted
    BY <1>3
  <2>2. ~InSeq(m, Contents) /\ \A t \in InHand : item[t] # m
    BY <1>3, <2>1 DEF OnePlace
  <2> QED BY <1>1, <1>3, <2>1, <2>2 DEF Accepts, OnePlace
<1>4. CASE Links
  <2> DEFINE m == RxItem
  <2>1. m \in accepted \ handled /\ ~InSeq(m, Contents) /\ \A t \in InHand : item[t] # m
    BY <1>4 DEF Links, OnePlace
  <2>2. m \in Value
    <3>1. accepted \subseteq Message
      BY DEF PlacesInv, RpcInv, TypeOK
    <3> QED BY <2>1, <3>1 DEF Value
  <2>3. Contents' \in {<<m>> \o Contents, Append(Contents, m)}
    BY <1>4 DEF Links
  <2> HIDE DEF m
  <2>4. Distinct(Contents)' /\ \A x : InSeq(x, Contents)' <=> x = m \/ InSeq(x, Contents)
    <3>1. CASE Contents' = <<m>> \o Contents
      BY <1>1, <2>1, <2>2, <3>1, DistinctPrepended
    <3>2. CASE Contents' = Append(Contents, m)
      BY <1>1, <2>1, <2>2, <3>2, DistinctAppended
    <3> QED BY <2>3, <3>1, <3>2
  <2> QED BY <1>4, <2>1, <2>4 DEF Links, OnePlace
<1>5. ASSUME NEW t \in Apps, Takes(t)
      PROVE  OnePlace'
  <2> DEFINE m == Head(Contents)
  <2>1. /\ Contents' = Tail(Contents) /\ Contents # << >> /\ item'[t] = m
        /\ t \notin InHand /\ InHand' = InHand \cup {t}
        /\ \A u \in InHand : item'[u] = item[u]
        /\ UNCHANGED <<accepted, handled, RxHolds>> /\ (RxHolds => RxItem' = RxItem)
    BY <1>5 DEF Takes
  <2>2. /\ Distinct(Contents') /\ ~InSeq(m, Contents')
        /\ \A x : InSeq(x, Contents) <=> x = m \/ InSeq(x, Contents')
    <3>1. /\ Distinct(Tail(Contents)) /\ ~InSeq(m, Tail(Contents))
          /\ \A x : InSeq(x, Contents) <=> x = m \/ InSeq(x, Tail(Contents))
      BY <1>1, <2>1, DistinctShortened
    <3> HIDE DEF m
    <3> QED BY <2>1, <3>1
  <2> HIDE DEF m
  <2>3. m \in accepted \ handled
    BY <1>1, <2>2 DEF OnePlace
  <2>4. \A u \in InHand : item[u] # m
    BY <2>2 DEF OnePlace
  <2>5. RxHolds => RxItem # m
    BY <2>2 DEF OnePlace
  <2>6. \A u, v \in InHand' : item'[u] = item'[v] => u = v
    BY <2>1, <2>4 DEF OnePlace
  <2>7. \A u \in InHand' : item'[u] \in accepted \ handled /\ ~InSeq(item'[u], Contents')
    <3> TAKE u \in InHand'
    <3>1. CASE u = t
      BY <2>1, <2>2, <2>3, <3>1
    <3>2. CASE u # t
      <4>1. u \in InHand /\ item'[u] = item[u]
        BY <2>1, <3>2
      <4>2. item[u] \in accepted \ handled /\ ~InSeq(item[u], Contents)
        BY <4>1 DEF OnePlace
      <4>3. ~InSeq(item[u], Contents')
        BY <2>2, <4>2
      <4> QED BY <4>1, <4>2, <4>3
    <3> QED BY <3>1, <3>2
  <2>8. RxHolds => \A u \in InHand' : item'[u] # RxItem
    BY <2>1, <2>5 DEF OnePlace
  <2> QED BY <1>1, <2>1, <2>2, <2>6, <2>7, <2>8 DEF OnePlace
<1>6. ASSUME NEW t \in Apps, Processes(t)
      PROVE  OnePlace'
  BY <1>1, <1>6 DEF Processes, OnePlace
<1> QED BY <1>2, <1>3, <1>4, <1>5, <1>6, StepEffect

--------------------------------------------------------------------------------
(* The line brings no message twice.                                         *)

Unwritten == {t \in Apps : pc[t] \in {"enter", "write"}}
Unanswered(r) == r.type = "SREQ" => Srsp(r) \notin accepted /\ ~InSeq(Srsp(r), line)

NewOnLine ==
    /\ Distinct(line) /\ \A m \in Message : InSeq(m, line) => m \notin accepted
    /\ Distinct(toDevice)
    /\ \A r, q \in Request : InSeq(r, toDevice) /\ InSeq(q, toDevice) /\ r.id = q.id => r = q
    /\ \A r \in Request : InSeq(r, toDevice) => Unanswered(r)
    /\ \A t \in Unwritten :
           /\ \A r \in Request : InSeq(r, toDevice) => r.id # req[t].id
           /\ Unanswered(req[t])
           /\ \A u \in Unwritten : req[t].id = req[u].id => t = u

\* The numbers given so far: to requests, and to what the network processor sends.
IdsMade ==
    /\ \A m \in Message : m \in accepted \/ InSeq(m, line)
                          => m.id <= (IF m.type = "SRSP" THEN made ELSE sent)
    /\ \A r \in Request : InSeq(r, toDevice) => r.id <= made
    /\ \A t \in Unwritten : req[t].id <= made

LineInv == RpcInv /\ NewOnLine /\ IdsMade

LEMMA SameLine ==
    ASSUME NewOnLine, IdsMade, UNCHANGED <<line, accepted, toDevice, made, sent>>,
           Unwritten' = Unwritten, \A t \in Unwritten : req'[t] = req[t]
    PROVE  NewOnLine' /\ IdsMade'
<1>1. \A r : Unanswered(r)' <=> Unanswered(r)
  BY DEF Unanswered, Srsp
<1>2. IdsMade'
  BY DEF IdsMade
<1>3. NewOnLine'
  <2>1. \A t \in Unwritten' :
            /\ \A r \in Request : InSeq(r, toDevice') => r.id # req'[t].id
            /\ \A u \in Unwritten' : req'[t].id = req'[u].id => t = u
    BY DEF NewOnLine
  <2>2. \A t \in Unwritten' : Unanswered(req[t])' /\ req'[t] = req[t]
    BY DEF NewOnLine, Unanswered, Srsp
  <2> QED BY <1>1, <2>1, <2>2 DEF NewOnLine
<1> QED BY <1>2, <1>3

LEMMA CallOnLine ==
    ASSUME LineInv, NEW t \in Apps, Call(t)
    PROVE  NewOnLine' /\ IdsMade'
<1>1. /\ TypeOK /\ RequestsMade /\ NewOnLine /\ IdsMade /\ made \in Nat
      /\ accepted \subseteq Message /\ line \in Seq(Message)
      /\ pc \in [Apps -> Pc] /\ req \in [Apps -> Request \cup {NoMessage}]
  BY BoundsAssumption DEF LineInv, RpcInv, TypeOK
<1>2. PICK r \in Request : r.id = made + 1 /\ req' = [req EXCEPT ![t] = r]
  BY DEF Call
<1>3. /\ UNCHANGED <<line, accepted, toDevice, sent>> /\ made' = made + 1
      /\ t \notin Unwritten /\ Unwritten' = Unwritten \cup {t}
  BY <1>1 DEF Call, Step, Unwritten
<1>4. req'[t] = r /\ \A u \in Unwritten : req'[u] = req[u] /\ req[u].id \in Nat /\ u # t
  <2>1. \A u \in Unwritten : req[u].id \in Nat
    <3> TAKE u \in Unwritten
    <3>1. req[u] \in Request
      BY <1>1 DEF Unwritten, RequestsMade
    <3> QED BY <3>1, RequestFields, BoundsAssumption DEF Ids
  <2> QED BY <1>1, <1>2, <1>3, <2>1 DEF Unwritten
<1>5. \A q \in Request : q.id \in Nat
  BY RequestFields, BoundsAssumption DEF Ids
<1>6. \A m \in Message : m.id \in Nat
  BY MessageAssumption
<1>7. IdsMade'
  <2>1. \A m \in Message : m \in accepted \/ InSeq(m, line)
                           => m.id <= (IF m.type = "SRSP" THEN made + 1 ELSE sent)
    BY <1>1, <1>6 DEF IdsMade
  <2>2. \A q \in Request : InSeq(q, toDevice) => q.id <= made + 1
    BY <1>1, <1>5 DEF IdsMade
  <2>3. \A u \in Unwritten' : req'[u].id <= made + 1
    BY <1>1, <1>2, <1>3, <1>4 DEF IdsMade
  <2> QED BY <1>3, <2>1, <2>2, <2>3 DEF IdsMade
\* The new request's number is beyond all others, so its answer is, too.
<1>8. /\ \A q \in Request : InSeq(q, toDevice) => q.id # r.id
      /\ \A u \in Unwritten : req[u].id # r.id
  BY <1>1, <1>2, <1>4, <1>5 DEF IdsMade
<1>9. r.type = "SREQ" => Srsp(r) \notin accepted /\ ~InSeq(Srsp(r), line)
  <2>1. r.type = "SREQ" => /\ Srsp(r) \in Message /\ Srsp(r).type = "SRSP"
                           /\ Srsp(r).id = made + 1
    BY <1>2, RequestFields
  <2> QED BY <1>1, <2>1 DEF IdsMade
<1>10. NewOnLine'
  <2>1. \A q \in Request : InSeq(q, toDevice) =>
            (q.type = "SREQ" => Srsp(q) \notin accepted /\ ~InSeq(Srsp(q), line))
    BY <1>1 DEF NewOnLine, Unanswered
  <2>2. \A u \in Unwritten' :
            /\ \A q \in Request : InSeq(q, toDevice) => q.id # req'[u].id
            /\ req'[u].type = "SREQ" => /\ Srsp(req'[u]) \notin accepted
                                        /\ ~InSeq(Srsp(req'[u]), line)
            /\ \A v \in Unwritten' : req'[u].id = req'[v].id => u = v
    BY <1>1, <1>3, <1>4, <1>8, <1>9 DEF NewOnLine, Unanswered
  <2> QED BY <1>1, <1>3, <2>1, <2>2 DEF NewOnLine, Unanswered, Srsp
<1> QED BY <1>7, <1>10

LEMMA WriteOnLine ==
    ASSUME LineInv, NEW t \in Apps, Write(t)
    PROVE  NewOnLine' /\ IdsMade'
<1>1. /\ TypeOK /\ RequestsMade /\ NewOnLine /\ IdsMade /\ toDevice \in Seq(Request)
      /\ pc \in [Apps -> Pc]
  BY DEF LineInv, RpcInv, TypeOK
<1>2. /\ UNCHANGED <<line, accepted, made, sent, req>>
      /\ t \in Unwritten /\ Unwritten' = Unwritten \ {t}
      /\ toDevice' \in {toDevice, Append(toDevice, req[t])}
  BY <1>1 DEF Write, Step, Unwritten
<1>3. req[t] \in Request
  BY <1>1, <1>2 DEF Unwritten, RequestsMade
<1>4. ~InSeq(req[t], toDevice)
  BY <1>1, <1>2, <1>3 DEF NewOnLine
<1>5. CASE toDevice' = toDevice
  BY <1>1, <1>2, <1>5 DEF NewOnLine, IdsMade, Unanswered, Srsp
<1>6. CASE toDevice' = Append(toDevice, req[t])
  <2>1. /\ Distinct(toDevice')
        /\ \A x : InSeq(x, toDevice') <=> x = req[t] \/ InSeq(x, toDevice)
    BY <1>1, <1>3, <1>4, <1>6, DistinctAppended DEF NewOnLine
  <2>2. IdsMade'
    BY <1>1, <1>2, <2>1 DEF IdsMade
  <2>3. \A r, q \in Request : InSeq(r, toDevice') /\ InSeq(q, toDevice') /\ r.id = q.id
                              => r = q
    BY <1>1, <1>2, <1>3, <2>1 DEF NewOnLine
  <2>4. \A r \in Request : InSeq(r, toDevice') => Unanswered(r)
    BY <1>1, <1>2, <2>1 DEF NewOnLine
  <2>5. \A u \in Unwritten' : /\ \A r \in Request : InSeq(r, toDevice') => r.id # req[u].id
                              /\ Unanswered(req[u])
                              /\ \A v \in Unwritten' : req[u].id = req[v].id => u = v
    BY <1>1, <1>2, <2>1 DEF NewOnLine
  <2> QED BY <1>1, <1>2, <2>1, <2>2, <2>3, <2>4, <2>5 DEF NewOnLine, Unanswered, Srsp
<1> QED BY <1>2, <1>5, <1>6

LEMMA ReadOnLine ==
    ASSUME LineInv, Read
    PROVE  NewOnLine' /\ IdsMade'
<1>1. NewOnLine /\ IdsMade /\ line \in Seq(Message)
  BY DEF LineInv, RpcInv, TypeOK
<1>2. /\ line # << >> /\ line' = Tail(line)
      /\ UNCHANGED <<toDevice, made, sent, pc, req>>
      /\ accepted' \in {accepted, accepted \cup {Head(line)}}
  BY DEF Read
<1>3. /\ Distinct(line') /\ ~InSeq(Head(line), line')
      /\ \A x : InSeq(x, line) <=> x = Head(line) \/ InSeq(x, line')
      /\ Head(line) \in Message
  BY <1>1, <1>2, DistinctShortened DEF NewOnLine
<1>4. Unwritten' = Unwritten
  BY <1>2 DEF Unwritten
<1>5. \A x : x \in accepted' \/ InSeq(x, line') => x \in accepted \/ InSeq(x, line)
  BY <1>2, <1>3
<1>6. IdsMade'
  BY <1>1, <1>2, <1>4, <1>5 DEF IdsMade
<1>7. \A m \in Message : InSeq(m, line') => m \notin accepted'
  BY <1>1, <1>2, <1>3 DEF NewOnLine
<1>8. \A r : Unanswered(r) => Unanswered(r)'
  BY <1>5 DEF Unanswered, Srsp
<1>9. \A r \in Request : InSeq(r, toDevice) => Unanswered(r)'
  BY <1>1, <1>8 DEF NewOnLine
<1>10. \A t \in Unwritten : Unanswered(req[t])'
  <2> TAKE t \in Unwritten
  <2>1. Unanswered(req[t])
    BY <1>1 DEF NewOnLine
  <2> QED BY <1>2, <1>5, <2>1 DEF Unanswered, Srsp
<1>11. NewOnLine'
  BY <1>1, <1>2, <1>3, <1>4, <1>7, <1>9, <1>10 DEF NewOnLine
<1> QED BY <1>6, <1>11

LEMMA AnswerOnLine ==
    ASSUME LineInv, Answer
    PROVE  NewOnLine' /\ IdsMade'
<1>1. /\ NewOnLine /\ IdsMade /\ RequestsMade /\ line \in Seq(Message)
      /\ toDevice \in Seq(Request)
  BY DEF LineInv, RpcInv, TypeOK
<1>2. /\ toDevice # << >> /\ toDevice' = Tail(toDevice)
      /\ line' = IF Head(toDevice).type = "SREQ" THEN Append(line, Srsp(Head(toDevice)))
                                                 ELSE line
      /\ UNCHANGED <<accepted, made, sent, pc, req>>
  BY DEF Answer
<1> DEFINE h == Head(toDevice)
<1>3. /\ Distinct(toDevice') /\ ~InSeq(h, toDevice') /\ h \in Request
      /\ \A x : InSeq(x, toDevice) <=> x = h \/ InSeq(x, toDevice')
  BY <1>1, <1>2, DistinctShortened DEF NewOnLine
<1>4. line' = IF h.type = "SREQ" THEN Append(line, Srsp(h)) ELSE line
  BY <1>2
<1> HIDE DEF h
<1>5. Unwritten' = Unwritten
  BY <1>2 DEF Unwritten
<1>6. /\ h.id <= made /\ Unanswered(h)
      /\ \A r \in Request : InSeq(r, toDevice') => r.id # h.id
      /\ \A t \in Unwritten : h.id # req[t].id
  BY <1>1, <1>3 DEF NewOnLine, IdsMade
<1>7. \A t \in Unwritten : req[t] \in Request
  BY <1>1 DEF Unwritten, RequestsMade
<1>8. CASE h.type # "SREQ"
  <2>1. line' = line
    BY <1>4, <1>8
  <2>2. IdsMade'
    BY <1>1, <1>2, <1>3, <1>5, <2>1 DEF IdsMade
  <2>3. \A r \in Request : InSeq(r, toDevice') => Unanswered(r)
    BY <1>1, <1>3 DEF NewOnLine
  <2> QED BY <1>1, <1>2, <1>3, <1>5, <2>1, <2>2, <2>3 DEF NewOnLine, Unanswered, Srsp
<1>9. CASE h.type = "SREQ"
  <2> DEFINE a == Srsp(h)
  <2>1. /\ a \in Message /\ a.type = "SRSP" /\ a.id = h.id
        /\ \A r \in Request : r.id # h.id => Srsp(r) # a
    BY <1>3, <1>9, RequestFields
  <2>2. line' = Append(line, a) /\ a \notin accepted /\ ~InSeq(a, line)
    BY <1>4, <1>6, <1>9 DEF Unanswered
  <2> HIDE DEF a
  <2>3. Distinct(line') /\ \A x : InSeq(x, line') <=> x = a \/ InSeq(x, line)
    BY <1>1, <2>1, <2>2, DistinctAppended DEF NewOnLine
  <2>4. IdsMade'
    BY <1>1, <1>2, <1>3, <1>5, <1>6, <2>1, <2>3 DEF IdsMade
  <2>5. \A m \in Message : InSeq(m, line') => m \notin accepted'
    BY <1>1, <1>2, <2>2, <2>3 DEF NewOnLine
  <2>6. \A r \in Request : r.id # h.id /\ Unanswered(r) => Unanswered(r)'
    BY <1>2, <2>1, <2>3 DEF Unanswered, Srsp
  <2>7. \A r \in Request : InSeq(r, toDevice') => Unanswered(r)'
    BY <1>1, <1>3, <1>6, <2>6 DEF NewOnLine
  <2>8. \A t \in Unwritten : Unanswered(req[t])'
    <3> TAKE t \in Unwritten
    <3>1. Unanswered(req[t]) /\ req[t] \in Request /\ req[t].id # h.id
      BY <1>1, <1>6, <1>7 DEF NewOnLine
    <3>2. Srsp(req[t]) # a
      BY <2>1, <3>1
    <3> QED BY <1>2, <2>3, <3>1, <3>2 DEF Unanswered, Srsp
  <2> QED BY <1>1, <1>2, <1>3, <1>5, <2>3, <2>4, <2>5, <2>7, <2>8 DEF NewOnLine
<1> QED BY <1>8, <1>9

LEMMA IndicateOnLine ==
    ASSUME LineInv, Indicate
    PROVE  NewOnLine' /\ IdsMade'
<1>1. /\ NewOnLine /\ IdsMade /\ RequestsMade /\ line \in Seq(Message) /\ sent \in Nat
  BY BoundsAssumption DEF LineInv, RpcInv, TypeOK
<1> DEFINE m == [type |-> "AREQ", id |-> sent + 1]
<1>2. /\ line' = Append(line, m) /\ sent' = sent + 1 /\ sent < MaxAreqs
      /\ UNCHANGED <<toDevice, accepted, made, pc, req>>
  BY DEF Indicate
<1>3. m \in Message /\ m.type = "AREQ" /\ m.id = sent + 1 /\ \A r : Srsp(r) # m
  <2>1. sent + 1 \in 1 .. MaxAreqs
    BY <1>1, <1>2, BoundsAssumption
  <2>2. m \in Message
    BY <2>1, IndicationIsMessage
  <2>3. \A r : Srsp(r).type = "SRSP"
    BY DEF Srsp
  <2>4. m.type = "AREQ" /\ m.id = sent + 1
    OBVIOUS
  <2> HIDE DEF m
  <2> QED BY <2>2, <2>3, <2>4
<1> HIDE DEF m
<1>4. m \notin accepted /\ ~InSeq(m, line)
  BY <1>1, <1>3 DEF IdsMade
<1>5. Distinct(line') /\ \A x : InSeq(x, line') <=> x = m \/ InSeq(x, line)
  BY <1>1, <1>2, <1>3, <1>4, DistinctAppended DEF NewOnLine
<1>6. Unwritten' = Unwritten
  BY <1>2 DEF Unwritten
<1>7. \A n \in Message : n.id \in Nat
  BY MessageAssumption
<1>8. IdsMade'
  <2>1. \A n \in Message : n \in accepted' \/ InSeq(n, line')
                           => n.id <= (IF n.type = "SRSP" THEN made ELSE sent + 1)
    BY <1>1, <1>2, <1>3, <1>5, <1>7 DEF IdsMade
  <2> QED BY <1>1, <1>2, <1>6, <2>1 DEF IdsMade
<1>9. \A n \in Message : InSeq(n, line') => n \notin accepted'
  BY <1>1, <1>2, <1>4, <1>5 DEF NewOnLine
<1>10. \A r : Unanswered(r) => Unanswered(r)'
  BY <1>2, <1>3, <1>5 DEF Unanswered, Srsp
<1>11. \A t \in Unwritten : Unanswered(req[t])'
  <2> TAKE t \in Unwritten
  <2>1. Unanswered(req[t])
    BY <1>1 DEF NewOnLine
  <2>2. Srsp(req[t]) # m
    BY <1>3
  <2> QED BY <1>2, <1>5, <2>1, <2>2 DEF Unanswered, Srsp
<1>12. NewOnLine'
  BY <1>1, <1>2, <1>5, <1>6, <1>9, <1>10, <1>11 DEF NewOnLine
<1> QED BY <1>8, <1>12

LEMMA LineInvStep == LineInv /\ [Next]_vars => LineInv'
<1> SUFFICES ASSUME LineInv, [Next]_vars PROVE LineInv'
  OBVIOUS
<1>1. RpcInv'
  BY RpcInvStep DEF LineInv
<1>2. /\ NewOnLine /\ IdsMade /\ ReceivesOutside /\ pc \in [Apps -> Pc]
      /\ Senders \subseteq Apps /\ Listeners \subseteq Apps
  BY ThreadsAssumption DEF LineInv, RpcInv, TypeOK
<1>3. ASSUME NEW t \in Apps,
             \/ Listen(t) \/ Receive(t) \/ NoMessageCame(t) \/ Status(t) \/ mtProcess(t)
             \/ Enter(t) \/ Await(t) \/ Clear(t) \/ Unlock(t)
      PROVE  NewOnLine' /\ IdsMade'
  <2>1. UNCHANGED <<line, accepted, toDevice, made, sent, req>>
    BY <1>3 DEF Listen, Receive, NoMessageCame, Status, mtProcess, Enter, Await, Clear,
                Unlock
  <2>2. Unwritten' = Unwritten
    BY <1>2, <1>3 DEF Listen, Receive, NoMessageCame, Status, mtProcess, Enter, Await,
                      Clear, Unlock, Step, AfterReceive, ReceivesOutside, Unwritten
  <2> QED BY <1>2, <2>1, <2>2, SameLine
<1>4. ASSUME \/ Post \/ AddResponse \/ RxQueueStep \/ UNCHANGED vars
             \/ \E t \in Apps : AppQueueStep(t)
      PROVE  NewOnLine' /\ IdsMade'
  <2>1. UNCHANGED <<line, accepted, toDevice, made, sent, req, pc>>
    BY <1>4 DEF Post, AddResponse, RxQueueStep, vars, rpcVars, AppQueueStep
  <2>2. Unwritten' = Unwritten
    BY <2>1 DEF Unwritten
  <2>3. UNCHANGED <<line, accepted, toDevice, made, sent>>
    BY <2>1
  <2>4. \A t \in Unwritten : req'[t] = req[t]
    BY <2>1
  <2> QED BY <1>2, <2>2, <2>3, <2>4, SameLine
<1>5. ASSUME NEW t \in Apps, \/ Call(t) \/ Listen(t) \/ rpcSendFrame(t)
                             \/ rpcWaitMqClientMsg(t) \/ Status(t)
      PROVE  NewOnLine' /\ IdsMade'
  <2>1. CASE Call(t) \/ Write(t)
    BY <2>1, CallOnLine, WriteOnLine
  <2>2. CASE AppQueueStep(t)
    BY <1>4, <2>2
  <2> QED BY <1>3, <1>5, <2>1, <2>2 DEF rpcSendFrame, rpcWaitMqClientMsg
<1>6. ASSUME rpcProcess \/ Answer \/ Indicate
      PROVE  NewOnLine' /\ IdsMade'
  <2>1. CASE Read \/ Answer \/ Indicate
    BY <2>1, ReadOnLine, AnswerOnLine, IndicateOnLine
  <2> QED BY <1>4, <1>6, <2>1 DEF rpcProcess
<1>7. NewOnLine' /\ IdsMade'
  BY <1>2, <1>4, <1>5, <1>6 DEF Next
<1> QED BY <1>1, <1>7 DEF LineInv

LEMMA LineInvInit == Init => LineInv
<1> SUFFICES ASSUME Init PROVE LineInv
  OBVIOUS
<1>1. RpcInv
  BY RpcInvInit
<1>2. Unwritten = {} /\ Len(line) = 0 /\ Len(toDevice) = 0 /\ accepted = {}
  BY DEF Init, Unwritten
<1>3. (\A x : ~InSeq(x, line) /\ ~InSeq(x, toDevice)) /\ Distinct(line) /\ Distinct(toDevice)
  BY <1>2 DEF InSeq, Distinct
<1> QED BY <1>1, <1>2, <1>3 DEF LineInv, NewOnLine, IdsMade

--------------------------------------------------------------------------------
(* Nothing is lost and nothing is processed twice.                           *)

SetsFinite == IsFiniteSet(accepted) /\ IsFiniteSet(handled)

DeliveryInv == /\ LineInv /\ RxPlace /\ AppsReceive /\ OnePlace
               /\ SetsFinite /\ NothingLostOrTwice

\* The receiving thread's hand, counted.
Hand == IF RxHolds THEN 1 ELSE 0

LEMMA Sum ==
    NothingLostOrTwice <=> Cardinality(accepted) = Len(nodes) + Cardinality(InHand)
                                                   + Cardinality(handled) + Hand
BY DEF NothingLostOrTwice, Hand, RxHolds

LEMMA SumNext ==
    NothingLostOrTwice' <=> Cardinality(accepted') = Len(nodes') + Cardinality(InHand')
                                                     + Cardinality(handled') + Hand'
BY DEF NothingLostOrTwice, Hand, RxHolds

LEMMA InHandFinite == IsFiniteSet(InHand) /\ Cardinality(InHand) \in Nat
BY ThreadsFinite, ThreadsAssumption, FS_Subset, FS_CardinalityType DEF InHand

LEMMA SumKept ==
    ASSUME DeliveryInv, [Next]_vars
    PROVE  SetsFinite' /\ NothingLostOrTwice'
<1>1. /\ PlacesInv /\ OnePlace /\ SetsFinite /\ NewOnLine /\ Len(nodes) \in Nat
      /\ Cardinality(accepted) = Len(nodes) + Cardinality(InHand)
                                 + Cardinality(handled) + Hand
  BY Sum DEF DeliveryInv, LineInv, PlacesInv, RpcInv, LlqInv, LlqTypeOK
<1>2. /\ Cardinality(accepted) \in Nat /\ Cardinality(handled) \in Nat
      /\ IsFiniteSet(InHand) /\ Cardinality(InHand) \in Nat
      /\ IsFiniteSet(accepted) /\ IsFiniteSet(handled)
  BY <1>1, InHandFinite, FS_CardinalityType DEF SetsFinite
<1>3. CASE Quiet
  <2>1. Hand' = Hand
    BY <1>3 DEF Quiet, Hand
  <2> QED BY <1>1, <1>3, <2>1, SumNext DEF Quiet, SetsFinite
<1>4. ASSUME NEW m \in Message, InSeq(m, line), Accepts(m)
      PROVE  SetsFinite' /\ NothingLostOrTwice'
  <2>1. /\ accepted' = accepted \cup {m} /\ UNCHANGED <<handled, InHand>>
        /\ Len(nodes') = Len(nodes) /\ Hand = 0 /\ Hand' = 1 /\ m \notin accepted
    BY <1>1, <1>4 DEF Accepts, Hand, NewOnLine
  <2>2. /\ IsFiniteSet(accepted')
        /\ Cardinality(accepted') = Cardinality(accepted) + 1
    BY <1>2, <2>1, FS_AddElement
  <2> QED BY <1>1, <1>2, <2>1, <2>2, SumNext DEF SetsFinite
<1>5. CASE Links
  <2>1. /\ UNCHANGED <<accepted, handled, InHand>>
        /\ Len(nodes') = Len(nodes) + 1 /\ Hand = 1 /\ Hand' = 0
    BY <1>5 DEF Links, Hand
  <2> QED BY <1>1, <1>2, <2>1, SumNext DEF SetsFinite
<1>6. ASSUME NEW t \in Apps, Takes(t)
      PROVE  SetsFinite' /\ NothingLostOrTwice'
  <2>1. /\ InHand' = InHand \cup {t} /\ t \notin InHand /\ UNCHANGED <<accepted, handled>>
        /\ Len(nodes') = Len(nodes) - 1 /\ Hand' = Hand /\ Hand \in {0, 1}
    BY <1>6 DEF Takes, Hand
  <2>2. Cardinality(InHand') = Cardinality(InHand) + 1
    BY <1>2, <2>1, FS_AddElement
  <2> QED BY <1>1, <1>2, <2>1, <2>2, SumNext DEF SetsFinite
<1>7. ASSUME NEW t \in Apps, Processes(t)
      PROVE  SetsFinite' /\ NothingLostOrTwice'
  <2>1. /\ InHand' = InHand \ {t} /\ t \in InHand /\ handled' = handled \cup {item[t]}
        /\ accepted' = accepted /\ Len(nodes') = Len(nodes) /\ Hand' = Hand
        /\ Hand \in {0, 1} /\ item[t] \notin handled
    BY <1>1, <1>7 DEF Processes, Hand, OnePlace
  <2>2. Cardinality(InHand') = Cardinality(InHand) - 1
    BY <1>2, <2>1, FS_RemoveElement
  <2>3. IsFiniteSet(handled') /\ Cardinality(handled') = Cardinality(handled) + 1
    BY <1>2, <2>1, FS_AddElement
  <2> QED BY <1>1, <1>2, <2>1, <2>2, <2>3, SumNext DEF SetsFinite
<1> QED BY <1>1, <1>3, <1>4, <1>5, <1>6, <1>7, StepEffect

LEMMA DeliveryInvInit == Init => DeliveryInv
<1> SUFFICES ASSUME Init PROVE DeliveryInv
  OBVIOUS
<1>1. LineInv
  BY LineInvInit
<1>2. RxPlace /\ AppsReceive /\ InHand = {} /\ ~RxHolds
  BY ThreadsAssumption DEF Init, LlqInit, RxPlace, AppsReceive, InHand, RxHolds
<1>3. accepted = {} /\ handled = {} /\ Len(nodes) = 0
  BY DEF Init, LlqInit
<1>4. SetsFinite /\ Cardinality(accepted) = 0 /\ Cardinality(handled) = 0
      /\ Cardinality(InHand) = 0
  BY <1>2, <1>3, FS_EmptySet DEF SetsFinite
<1>5. NothingLostOrTwice
  BY <1>2, <1>3, <1>4, Sum DEF Hand
<1>6. OnePlace
  <2>1. Len(Contents) = 0
    BY <1>1, <1>3, ContentsType DEF LineInv, RpcInv, LlqInv
  <2> QED BY <1>2, <1>3, <2>1 DEF OnePlace, Distinct, InSeq
<1> QED BY <1>1, <1>2, <1>4, <1>5, <1>6 DEF DeliveryInv

LEMMA DeliveryInvStep == DeliveryInv /\ [Next]_vars => DeliveryInv'
<1> SUFFICES ASSUME DeliveryInv, [Next]_vars PROVE DeliveryInv'
  OBVIOUS
<1>1. PlacesInv /\ OnePlace /\ NewOnLine
  BY DEF DeliveryInv, LineInv, PlacesInv
<1>2. LineInv'
  BY LineInvStep DEF DeliveryInv
<1>3. RxPlace' /\ AppsReceive'
  BY <1>1, StepEffect
<1>4. OnePlace'
  BY <1>1, OnePlaceKept DEF NewOnLine
<1>5. SetsFinite' /\ NothingLostOrTwice'
  BY SumKept
<1> QED BY <1>2, <1>3, <1>4, <1>5 DEF DeliveryInv

\* A message the receiving thread has accepted is with that thread, in the queue, with
\* the one thread that took it, or processed, and in one of these places only: none
\* is lost and none is processed twice, whichever application thread takes it.
THEOREM EveryMessageOnce == Spec => []NothingLostOrTwice
<1>1. DeliveryInv => NothingLostOrTwice
  BY DEF DeliveryInv
<1> QED BY <1>1, DeliveryInvInit, DeliveryInvStep, PTL DEF Spec

================================================================================
