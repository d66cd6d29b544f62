------------------------------ MODULE KFifoProofs ------------------------------
(***************************************************************************)
(* The counters of KFifo never let the buffer overflow or run dry, one     *)
(* reader and one writer never touch each other's cells, and together they *)
(* implement ByteQueue: for every size of the buffer and every width of    *)
(* the counters that the size divides.                                     *)
(***************************************************************************)
EXTENDS KFifo, TLAPS

\* Arithmetic modulo w on the values that one addition or subtraction of
\* counters can give: it wraps at most once, either way.
LEMMA ModWrap ==
    ASSUME NEW w \in Nat, w > 0, NEW a \in Int
    PROVE  /\ a % w \in 0 .. w - 1
           /\ 0 <= a /\ a < w => a % w = a
           /\ w <= a /\ a < 2 * w => a % w = a - w
           /\ -w <= a /\ a < 0 => a % w = a + w
OBVIOUS

\* The distance between two counters, and how a move of either changes it.
LEMMA Distance ==
    ASSUME NEW w \in Nat, w > 0, NEW i \in 0 .. w - 1, NEW o \in 0 .. w - 1,
           NEW n \in Nat
    PROVE  /\ (i - o) % w \in 0 .. w - 1
           /\ ((i - o) % w) + n < w => (((i + n) % w) - o) % w = ((i - o) % w) + n
           /\ n <= (i - o) % w => (i - ((o + n) % w)) % w = ((i - o) % w) - n
<1>1. (i - o) % w = IF o <= i THEN i - o ELSE i - o + w
  BY ModWrap
<1>2. n < w => (i + n) % w = IF i + n < w THEN i + n ELSE i + n - w
  BY ModWrap
<1>3. n < w => (o + n) % w = IF o + n < w THEN o + n ELSE o + n - w
  BY ModWrap
<1>4. (i - o) % w \in 0 .. w - 1
  BY <1>1
<1>5. ASSUME ((i - o) % w) + n < w
      PROVE  (((i + n) % w) - o) % w = ((i - o) % w) + n
  <2> DEFINE j == (i + n) % w
  <2>1. j \in 0 .. w - 1 /\ j = IF i + n < w THEN i + n ELSE i + n - w
    BY <1>1, <1>2, <1>5
  <2>2. (j - o) % w = IF o <= j THEN j - o ELSE j - o + w
    BY <2>1, ModWrap
  <2> QED BY <1>1, <1>5, <2>1, <2>2
<1>6. ASSUME n <= (i - o) % w
      PROVE  (i - ((o + n) % w)) % w = ((i - o) % w) - n
  <2> DEFINE p == (o + n) % w
  <2>1. p \in 0 .. w - 1 /\ p = IF o + n < w THEN o + n ELSE o + n - w
    BY <1>1, <1>3, <1>6
  <2>2. (i - p) % w = IF p <= i THEN i - p ELSE i - p + w
    BY <2>1, ModWrap
  <2> QED BY <1>1, <1>6, <2>1, <2>2
<1> QED BY <1>4, <1>5, <1>6

\* The room a put computes is what the bytes in use leave.
LEMMA RoomIsRest ==
    ASSUME SizeAssumption, in \in 0 .. Wrap - 1, out \in 0 .. Wrap - 1, Used <= Size
    PROVE  Room = Size - Used /\ Room \in 0 .. Size
<1>1. Used = IF out <= in THEN in - out ELSE in - out + Wrap
  BY ModWrap DEF SizeAssumption, Used
<1> QED BY <1>1, ModWrap DEF SizeAssumption, Room

--------------------------------------------------------------------------------
\* Outside a put or a get its local buffer is empty.
Idle == /\ wpc = "idle" => wdata = << >>
        /\ rpc = "idle" => rdata = << >>

\* The inductive invariant.
IInv == TypeOK /\ Occupancy /\ Idle

\* An empty buffer satisfies it.
LEMMA InitIInv == Init => IInv
<1> SUFFICES ASSUME Init PROVE IInv
  OBVIOUS
<1>1. TypeOK
  BY SizeAssumption DEF Init, TypeOK, Pc, SizeAssumption
<1>2. Used = 0
  BY SizeAssumption, ModWrap DEF Init, Used, SizeAssumption
<1>3. Occupancy /\ Idle
  BY <1>2, SizeAssumption DEF Init, Occupancy, Idle, SizeAssumption
<1> QED BY <1>1, <1>3 DEF IInv

\* The bytes a get or a getahead copies out.
LEMMA OldestType ==
    ASSUME TypeOK, SizeAssumption, NEW n \in Nat
    PROVE  Oldest(n) \in Seq(Byte) /\ Len(Oldest(n)) = n
<1>1. ASSUME NEW i \in 1 .. n
      PROVE  buffer[(out + i - 1) % Size] \in Byte
  <2>1. (out + i - 1) % Size \in 0 .. Size - 1
    BY ModWrap DEF TypeOK, SizeAssumption
  <2> QED BY <2>1 DEF TypeOK
<1> QED BY <1>1 DEF Oldest

\* Every copy, every publication and the other operations keep it.
LEMMA NextIInv == IInv /\ [Next]_vars => IInv'
<1> SUFFICES ASSUME IInv, [Next]_vars PROVE IInv'
  OBVIOUS
<1> USE SizeAssumption, MaxLenAssumption DEF IInv
<1>0. /\ Used \in 0 .. Wrap - 1
      /\ Wrap \in Nat /\ Wrap > 0 /\ Size \in Nat /\ Size > 0 /\ Size < Wrap
      /\ in \in 0 .. Wrap - 1 /\ out \in 0 .. Wrap - 1
  BY Distance DEF TypeOK, Used, SizeAssumption
<1>1. \A n \in Nat : Min2(n, Used) \in 0 .. Used /\ Min2(n, Used) <= n
  BY <1>0 DEF Min2
<1>2. ASSUME NEW data \in Offers, PutCopy(data)
      PROVE  IInv'
  <2> DEFINE l == Min2(Len(data), Room)
             pos(i) == (i - in) % Size
  <2>1. data \in Seq(Byte)
    BY DEF Offers
  <2>2. Room = Size - Used /\ Room \in 0 .. Size
    <3>1. wdata = << >>
      BY <1>2 DEF PutCopy, Idle
    <3>2. Used <= Size
      BY <1>0, <3>1 DEF Occupancy
    <3> QED BY <1>0, <3>2, RoomIsRest
  <2>3. l \in 0 .. Room /\ l <= Len(data)
    BY <2>1, <2>2 DEF Min2
  <2>4. wdata' = SubSeq(data, 1, l) /\ wdata' \in Seq(Byte) /\ Len(wdata') = l
    BY <1>2, <2>1, <2>3 DEF PutCopy
  <2>5. buffer' \in [0 .. Size - 1 -> Byte]
    <3>1. ASSUME NEW i \in 0 .. Size - 1
          PROVE  (IF pos(i) < l THEN data[pos(i) + 1] ELSE buffer[i]) \in Byte
      <4>1. pos(i) \in 0 .. Size - 1
        BY <1>0, ModWrap
      <4>2. pos(i) < l => data[pos(i) + 1] \in Byte
        BY <2>1, <2>3, <4>1
      <4>3. buffer[i] \in Byte
        BY DEF TypeOK
      <4> QED BY <4>2, <4>3
    <3>2. buffer' = [i \in 0 .. Size - 1 |->
                        IF pos(i) < l THEN data[pos(i) + 1] ELSE buffer[i]]
      BY <1>2 DEF PutCopy
    <3> QED BY <3>1, <3>2
  <2>6. UNCHANGED <<in, out, rpc, rdata, ret>> /\ wpc' = "copied" /\ Used' = Used
    BY <1>2 DEF PutCopy, Used
  <2>7. TypeOK'
    BY <2>4, <2>5, <2>6 DEF TypeOK, Pc
  <2>8. Occupancy'
    BY <1>0, <2>2, <2>3, <2>4, <2>6 DEF Occupancy
  <2>9. Idle'
    BY <2>6 DEF Idle
  <2> QED BY <2>7, <2>8, <2>9
<1>3. CASE PutPublish
  <2>1. Len(wdata) \in Nat /\ Used + Len(wdata) <= Size
    BY DEF TypeOK, Occupancy
  <2>2. Used' = Used + Len(wdata) /\ in' \in 0 .. Wrap - 1
    BY <1>0, <1>3, <2>1, Distance, ModWrap DEF PutPublish, Used
  <2>3. TypeOK'
    BY <1>3, <2>2 DEF PutPublish, TypeOK, Pc
  <2>4. Len(rdata) \in Nat /\ Len(wdata') = 0 /\ rdata' = rdata
    BY <1>3 DEF PutPublish, TypeOK
  <2>5. Occupancy'
    BY <1>0, <2>1, <2>2, <2>4 DEF Occupancy
  <2>6. Idle'
    BY <1>3 DEF PutPublish, Idle
  <2> QED BY <2>3, <2>5, <2>6
<1>4. ASSUME NEW n \in 0 .. MaxLen, GetCopy(n)
      PROVE  IInv'
  <2>1. rdata' \in Seq(Byte) /\ Len(rdata') \in 0 .. Used
    BY <1>0, <1>1, <1>4, OldestType DEF GetCopy
  <2>2. UNCHANGED <<buffer, in, out, wpc, wdata, ret>> /\ rpc' = "copied" /\ Used' = Used
    BY <1>4 DEF GetCopy, Used
  <2>3. TypeOK'
    BY <2>1, <2>2 DEF TypeOK, Pc
  <2>4. Occupancy' /\ Idle'
    BY <2>1, <2>2 DEF Occupancy, Idle
  <2> QED BY <2>3, <2>4
<1>5. ASSUME NEW n \in 0 .. MaxLen, Getahead(n)
      PROVE  IInv'
  <2>1. ret' \in Seq(Byte)
    BY <1>0, <1>1, <1>5, OldestType DEF Getahead
  <2>2. UNCHANGED <<buffer, in, out, wpc, wdata, rpc, rdata>> /\ Used' = Used
    BY <1>5 DEF Getahead, Used
  <2>3. TypeOK'
    BY <2>1, <2>2 DEF TypeOK
  <2>4. Occupancy' /\ Idle'
    BY <2>2 DEF Occupancy, Idle
  <2> QED BY <2>3, <2>4
<1>6. CASE GetPublish
  <2>1. Len(rdata) \in Nat /\ Len(rdata) <= Used
    BY DEF TypeOK, Occupancy
  <2>2. Used' = Used - Len(rdata) /\ out' \in 0 .. Wrap - 1
    BY <1>0, <1>6, <2>1, Distance, ModWrap DEF GetPublish, Used
  <2>3. TypeOK'
    BY <1>6, <2>2 DEF GetPublish, TypeOK, Pc
  <2>4. Len(rdata') = 0 /\ wdata' = wdata /\ Len(wdata) \in Nat
    BY <1>6 DEF GetPublish, TypeOK
  <2>5. Occupancy'
    BY <1>0, <2>1, <2>2, <2>4 DEF Occupancy
  <2>6. Idle'
    BY <1>6 DEF GetPublish, Idle
  <2> QED BY <2>3, <2>5, <2>6
<1>7. CASE Pop
  <2>1. Used >= 1
    BY <1>0, <1>7, ModWrap DEF Pop, Used
  <2>2. Used' = Used - 1 /\ out' \in 0 .. Wrap - 1
    BY <1>0, <1>7, <2>1, Distance, ModWrap DEF Pop, Used
  <2>3. TypeOK'
    BY <1>7, <2>2 DEF Pop, TypeOK
  <2>4. rdata' = << >> /\ wdata' = wdata /\ Len(wdata) \in Nat
    BY <1>7 DEF Pop, Idle, TypeOK
  <2>5. Occupancy'
    BY <1>0, <2>1, <2>2, <2>4 DEF Occupancy
  <2>6. Idle'
    BY <1>7 DEF Pop, Idle
  <2> QED BY <2>3, <2>5, <2>6
<1>8. CASE Reset
  <2>1. Used' = 0
    BY <1>0, <1>8, ModWrap DEF Reset, Used
  <2>2. wdata' = << >> /\ rdata' = << >>
    BY <1>8 DEF Reset, Idle
  <2>3. TypeOK'
    BY <1>0, <1>8 DEF Reset, TypeOK
  <2>4. Occupancy'
    BY <1>0, <2>1, <2>2 DEF Occupancy
  <2>5. Idle'
    BY <2>2 DEF Idle
  <2> QED BY <2>3, <2>4, <2>5
<1>9. CASE UNCHANGED vars
  <2>1. UNCHANGED Used
    BY <1>9 DEF vars, Used
  <2> QED BY <1>9, <2>1 DEF vars, TypeOK, Occupancy, Idle
<1> QED BY <1>2, <1>3, <1>4, <1>5, <1>6, <1>7, <1>8, <1>9 DEF Next

\* kfifo.c:74-127: whatever the size and the width of the counters, the fields of
\* struct kfifo keep their types.
THEOREM TypeCorrect == Spec => []TypeOK
BY InitIInv, NextIInv, PTL DEF Spec, IInv

\* kfifo.c:79,110: the unsigned arithmetic of kfifo_put and kfifo_get never lets
\* the bytes in use and the bytes being put exceed the buffer, nor a get take
\* more than there is, across any wrap of either counter.
THEOREM NoOverrun == Spec => []Occupancy
BY InitIInv, NextIInv, PTL DEF Spec, IInv

--------------------------------------------------------------------------------
\* Division is unique.
LEMMA Quotient ==
    ASSUME NEW m \in Nat, m > 0, NEW a \in Int, NEW q \in Int, NEW r \in 0 .. m - 1,
           a = m * q + r
    PROVE  a % m = r
<1>1. a = m * (a \div m) + (a % m) /\ a % m \in 0 .. m - 1 /\ a \div m \in Int
  OBVIOUS
<1> DEFINE d == q - (a \div m)
<1>2. m * d = (a % m) - r /\ d \in Int
  BY <1>1
<1>3. d = 0
  <2>1. d >= 1 => m * d >= m
    BY <1>2
  <2>2. d <= -1 => m * d <= -m
    BY <1>2
  <2> QED BY <1>1, <1>2, <2>1, <2>2
<1> QED BY <1>2, <1>3, <1>1

\* A multiple of m does not change a remainder by m ...
LEMMA Shift ==
    ASSUME NEW m \in Nat, m > 0, NEW a \in Int, NEW q \in Int
    PROVE  (a + m * q) % m = a % m
<1>1. PICK k \in Int, r \in 0 .. m - 1 : a = m * k + r /\ r = a % m
  <2>1. a = m * (a \div m) + (a % m) /\ a % m \in 0 .. m - 1 /\ a \div m \in Int
    OBVIOUS
  <2> QED BY <2>1
<1> DEFINE b == a + m * q
           j == k + q
<1>2. b = m * j + r /\ b \in Int /\ j \in Int
  BY <1>1
<1>3. b % m = r
  <2> HIDE DEF b, j
  <2> QED BY <1>2, <1>1, Quotient
<1> QED BY <1>1, <1>3

\* ... nor does taking the remainder first.
LEMMA Minus ==
    ASSUME NEW m \in Nat, m > 0, NEW a \in Int, NEW b \in Int
    PROVE  ((a % m) - b) % m = (a - b) % m
<1>1. PICK k \in Int, r \in 0 .. m - 1 : a = m * k + r /\ r = a % m
  <2>1. a = m * (a \div m) + (a % m) /\ a % m \in 0 .. m - 1 /\ a \div m \in Int
    OBVIOUS
  <2> QED BY <2>1
<1> DEFINE c == r - b
<1>2. a - b = c + m * k /\ c \in Int
  BY <1>1
<1>3. (c + m * k) % m = c % m
  <2> HIDE DEF c
  <2> QED BY <1>1, <1>2, Shift
<1> QED BY <1>1, <1>2, <1>3

\* A counter that has wrapped is at the same cell as one that has not, because
\* the size divides the modulus (kfifo.c:28).
LEMMA WrapKeepsCell ==
    ASSUME SizeAssumption, NEW a \in Int
    PROVE  \E p \in Int : a = (a % Wrap) + Size * p
<1>1. PICK q \in Int : Wrap = Size * q
  <2>1. Wrap = Size * (Wrap \div Size) + (Wrap % Size) /\ Wrap \div Size \in Int
    BY DEF SizeAssumption
  <2>2. Wrap = Size * (Wrap \div Size)
    BY <2>1 DEF SizeAssumption
  <2> QED BY <2>1, <2>2
<1>2. PICK k \in Int : a = Wrap * k + (a % Wrap) /\ a % Wrap \in Int
  <2>1. /\ a = Wrap * (a \div Wrap) + (a % Wrap)
        /\ a \div Wrap \in Int /\ a % Wrap \in Int
    BY DEF SizeAssumption
  <2> QED BY <2>1
<1> DEFINE p == q * k
<1>3. Wrap * k = Size * p /\ p \in Int
  BY <1>1, <1>2 DEF SizeAssumption
<1>4. Size * p \in Int
  BY <1>3 DEF SizeAssumption
<1> HIDE DEF p
<1>5. a = (a % Wrap) + Size * p
  BY <1>2, <1>3, <1>4
<1> QED BY <1>3, <1>5

\* The cells of the bytes in use lie behind the writer: none of them is among
\* the l cells a put fills.
LEMMA UsedCellsKept ==
    ASSUME SizeAssumption, in \in 0 .. Wrap - 1, out \in 0 .. Wrap - 1,
           Used <= Size, NEW i \in 1 .. Used
    PROVE  (((out + i - 1) % Size) - in) % Size = Size - Used + i - 1
<1>1. PICK p \in Int : in - out = Used + Size * p
  <2> DEFINE a == in - out
  <2>1. a \in Int /\ Used = a % Wrap
    BY DEF SizeAssumption, Used
  <2>2. \E p \in Int : a = (a % Wrap) + Size * p
    <3> HIDE DEF a
    <3> QED BY <2>1, WrapKeepsCell
  <2> QED BY <2>1, <2>2
<1>2. Used \in 0 .. Wrap - 1 /\ Size \in Nat /\ Size > 0 /\ Wrap \in Nat
  BY ModWrap DEF Used, SizeAssumption
<1> DEFINE c == out + i - 1
           d == i - 1 - Used
           q == -p
<1>3. c \in Int /\ d \in Int /\ q \in Int /\ c - in = d + Size * q
  BY <1>1, <1>2
<1>4. ((c % Size) - in) % Size = (c - in) % Size
  <2>1. Size \in Nat /\ Size > 0 /\ c \in Int /\ in \in Int
    BY <1>2, <1>3
  <2> HIDE DEF c
  <2> QED BY <2>1, Minus
<1>5. (d + Size * q) % Size = d % Size
  <2> HIDE DEF d, q
  <2> QED BY <1>2, <1>3, Shift
<1>6. d % Size = d + Size
  BY <1>2, ModWrap
<1>7. ((c % Size) - in) % Size = d + Size
  <2> HIDE DEF c, d, q
  <2> QED BY <1>3, <1>4, <1>5, <1>6, Zenon
<1>8. d + Size = Size - Used + i - 1
  BY <1>2
<1> QED BY <1>7, <1>8, Zenon

\* The i-th byte of a put goes to the cell at the writer's counter plus i - 1.
LEMMA FilledCell ==
    ASSUME SizeAssumption, in \in 0 .. Wrap - 1, NEW i \in 1 .. Size
    PROVE  (((in + i - 1) % Size) - in) % Size = i - 1
<1> DEFINE c == in + i - 1
<1>1. /\ Size \in Nat /\ Size > 0
      /\ c \in Int /\ in \in Int /\ c - in = i - 1
  BY DEF SizeAssumption
<1>2. ((c % Size) - in) % Size = (c - in) % Size
  <2> HIDE DEF c
  <2> QED BY <1>1, Minus
<1> QED BY <1>1, <1>2, ModWrap

\* Moving a counter by n moves every cell counted from it by n.
LEMMA MovedCell ==
    ASSUME SizeAssumption, out \in 0 .. Wrap - 1, NEW n \in Nat, NEW i \in Nat
    PROVE  (((out + n) % Wrap) + i - 1) % Size = (out + n + i - 1) % Size
<1> DEFINE a == out + n
<1>1. a \in Int
  BY DEF SizeAssumption
<1>2. PICK p \in Int : a = (a % Wrap) + Size * p
  <2> HIDE DEF a
  <2> QED BY <1>1, WrapKeepsCell
<1> DEFINE b == (a % Wrap) + i - 1
<1>3. b \in Int /\ out + n + i - 1 = b + Size * p
  <2>1. a % Wrap \in Int /\ Size * p \in Int
    BY <1>1, <1>2, ModWrap DEF SizeAssumption
  <2>2. out + n + i - 1 = a + i - 1
    OBVIOUS
  <2> HIDE DEF a
  <2> QED BY <1>1, <1>2, <2>1, <2>2
<1>4. (b + Size * p) % Size = b % Size
  <2>1. Size \in Nat /\ Size > 0
    BY DEF SizeAssumption
  <2> HIDE DEF b
  <2> QED BY <1>2, <1>3, <2>1, Shift
<1> QED BY <1>3, <1>4

--------------------------------------------------------------------------------
\* The oldest bytes, taken from the oldest bytes.
LEMMA OldestPrefix ==
    ASSUME NEW n \in Nat, NEW k \in 0 .. n
    PROVE  SubSeq(Oldest(n), 1, k) = Oldest(k)
BY DEF Oldest

\* A put leaves the bytes in use alone.
LEMMA PutKeepsUsed ==
    ASSUME IInv, NEW data \in Offers, PutCopy(data), NEW i \in 1 .. Used
    PROVE  buffer'[(out + i - 1) % Size] = buffer[(out + i - 1) % Size]
<1> USE SizeAssumption, MaxLenAssumption DEF IInv
<1> DEFINE l == Min2(Len(data), Room)
           pos(j) == (j - in) % Size
           cell == (out + i - 1) % Size
<1>1. /\ Used \in 0 .. Wrap - 1 /\ Used <= Size
      /\ Wrap \in Nat /\ Size \in Nat /\ Size > 0
      /\ in \in 0 .. Wrap - 1 /\ out \in 0 .. Wrap - 1
  <2>1. Len(wdata) \in Nat /\ Used + Len(wdata) <= Size
    BY DEF TypeOK, Occupancy
  <2> QED BY <2>1, Distance DEF TypeOK, Used, SizeAssumption
<1>2. l <= Size - Used /\ l \in Int
  BY <1>1, RoomIsRest DEF Min2, Offers
<1>3. buffer' = [j \in 0 .. Size - 1 |->
                    IF pos(j) < l THEN data[pos(j) + 1] ELSE buffer[j]]
  BY DEF PutCopy
<1>4. cell \in 0 .. Size - 1
  BY <1>1, ModWrap
<1>5. pos(cell) = Size - Used + i - 1
  BY <1>1, UsedCellsKept
<1>6. ~(Size - Used + i - 1 < l)
  BY <1>1, <1>2
<1> HIDE DEF cell, l
<1>7. buffer'[cell] = buffer[cell]
  BY <1>3, <1>4, <1>5, <1>6
<1> QED BY <1>7 DEF cell

\* Neither side touches the cells of the other.
LEMMA NextCopies == IInv /\ CopiesIntact /\ [Next]_vars => CopiesIntact'
<1> SUFFICES ASSUME IInv, CopiesIntact, [Next]_vars PROVE CopiesIntact'
  OBVIOUS
<1> USE SizeAssumption, MaxLenAssumption DEF IInv
<1>0. /\ Used \in 0 .. Wrap - 1 /\ Used + Len(wdata) <= Size
      /\ Wrap \in Nat /\ Wrap > 0 /\ Size \in Nat /\ Size > 0 /\ Size < Wrap
      /\ in \in 0 .. Wrap - 1 /\ out \in 0 .. Wrap - 1
      /\ Len(wdata) \in Nat /\ Len(rdata) \in 0 .. Used
  BY Distance DEF TypeOK, Occupancy, Used, SizeAssumption
<1>1. ASSUME NEW data \in Offers, PutCopy(data)
      PROVE  CopiesIntact'
  <2> DEFINE l == Min2(Len(data), Room)
             pos(i) == (i - in) % Size
  <2>1. data \in Seq(Byte)
    BY DEF Offers
  <2>2. Room = Size - Used /\ Used <= Size
    BY <1>0, RoomIsRest
  <2>3. l \in 0 .. Size - Used /\ l <= Len(data)
    BY <1>0, <2>1, <2>2 DEF Min2
  <2>4. wdata' = SubSeq(data, 1, l) /\ Len(wdata') = l
    BY <1>1, <2>1, <2>3 DEF PutCopy
  <2>5. buffer' = [i \in 0 .. Size - 1 |->
                      IF pos(i) < l THEN data[pos(i) + 1] ELSE buffer[i]]
    BY <1>1 DEF PutCopy
  <2>6. UNCHANGED <<in, out, rpc, rdata>>
    BY <1>1 DEF PutCopy
  <2>7. ASSUME NEW i \in 1 .. l
        PROVE  buffer'[(in + i - 1) % Size] = wdata'[i]
    <3> DEFINE cell == (in + i - 1) % Size
    <3>1. cell \in 0 .. Size - 1
      BY <1>0, ModWrap
    <3>2. pos(cell) = i - 1
      <4>1. i \in 1 .. Size
        BY <1>0, <2>3
      <4> QED BY <1>0, <4>1, FilledCell
    <3>3. wdata'[i] = data[i]
      BY <2>1, <2>3, <2>4
    <3>4. i - 1 < l /\ (i - 1) + 1 = i
      BY <2>3
    <3> HIDE DEF cell, l
    <3>5. buffer'[cell] = data[i]
      BY <2>5, <3>1, <3>2, <3>4
    <3> QED BY <3>3, <3>5 DEF cell
  <2>8. ASSUME NEW i \in 1 .. Used
        PROVE  buffer'[(out + i - 1) % Size] = buffer[(out + i - 1) % Size]
    BY <1>1, PutKeepsUsed
  <2>9. Oldest(Len(rdata))' = Oldest(Len(rdata))
    <3>1. \A i \in 1 .. Len(rdata) :
             buffer'[(out' + i - 1) % Size] = buffer[(out + i - 1) % Size]
      <4>1. out' = out
        BY <2>6
      <4>2. \A i \in 1 .. Len(rdata) : i \in 1 .. Used
        BY <1>0
      <4> QED BY <2>8, <4>1, <4>2, Zenon
    <3>2. Len(rdata') = Len(rdata)
      BY <2>6
    <3> QED BY <3>1, <3>2 DEF Oldest
  <2>10. rpc' = "copied" => rdata' = Oldest(Len(rdata))'
    BY <2>6, <2>9 DEF CopiesIntact
  <2>11. \A i \in 1 .. Len(wdata') : buffer'[(in' + i - 1) % Size] = wdata'[i]
    BY <2>4, <2>6, <2>7
  <2> QED BY <2>10, <2>11 DEF CopiesIntact
<1>2. CASE PutPublish
  BY <1>2 DEF PutPublish, CopiesIntact, Oldest
<1>3. ASSUME NEW n \in 0 .. MaxLen, GetCopy(n)
      PROVE  CopiesIntact'
  <2>1. Min2(n, Used) \in Nat
    BY <1>0 DEF Min2
  <2>2. rdata' = Oldest(Min2(n, Used)) /\ Len(rdata') = Min2(n, Used)
    BY <1>3, <2>1, OldestType DEF GetCopy
  <2>3. UNCHANGED <<buffer, in, out, wdata>>
    BY <1>3 DEF GetCopy
  <2>4. Oldest(Len(rdata))' = Oldest(Len(rdata'))
    BY <2>3 DEF Oldest
  <2> QED BY <2>2, <2>3, <2>4 DEF CopiesIntact
<1>4. ASSUME NEW n \in 0 .. MaxLen, Getahead(n)
      PROVE  CopiesIntact'
  BY <1>4 DEF Getahead, CopiesIntact, Oldest
<1>5. CASE GetPublish
  BY <1>5 DEF GetPublish, CopiesIntact
<1>6. CASE Pop
  BY <1>6 DEF Pop, CopiesIntact
<1>7. CASE Reset
  <2>1. wdata' = << >> /\ rpc' # "copied"
    BY <1>7 DEF Reset, Idle
  <2> QED BY <2>1 DEF CopiesIntact
<1>8. CASE UNCHANGED vars
  BY <1>8 DEF vars, CopiesIntact, Oldest
<1> QED BY <1>1, <1>2, <1>3, <1>4, <1>5, <1>6, <1>7, <1>8 DEF Next

\* No copy is in progress at first.
LEMMA InitCopies == Init => CopiesIntact
BY DEF Init, CopiesIntact

\* kfifo.c:67-72,95-103: whatever the size, one reader and one writer need no
\* lock: what a get has copied is still the oldest of the buffer when it gives
\* the cells back, and what a put has copied is still there when it publishes.
THEOREM CopiesHold == Spec => []CopiesIntact
BY InitIInv, NextIInv, InitCopies, NextCopies, PTL DEF Spec

--------------------------------------------------------------------------------
\* The refinement mapping: the abstract queue is Oldest(Used).
LEMMA RefineInit == Init => Queue!Init
<1> SUFFICES ASSUME Init PROVE Queue!Init
  OBVIOUS
<1>1. Used = 0
  BY SizeAssumption, ModWrap DEF Init, Used, SizeAssumption
<1>2. Oldest(0) = << >>
  BY DEF Oldest
<1> QED BY <1>1, <1>2 DEF Init, Queue!Init

\* Giving back n cells leaves the other bytes, in their order.
LEMMA DropOldest ==
    ASSUME SizeAssumption, TypeOK, NEW n \in 0 .. Used, Used \in Nat,
           UNCHANGED buffer, out' = (out + n) % Wrap, Used' = Used - n
    PROVE  Oldest(Used)' = SubSeq(Oldest(Used), n + 1, Used)
<1>1. ASSUME NEW i \in 1 .. Used - n
      PROVE  buffer'[(out' + i - 1) % Size] = buffer[(out + (n + i) - 1) % Size]
  <2>1. out \in 0 .. Wrap - 1 /\ out \in Int /\ n \in Nat /\ i \in Nat
    BY DEF TypeOK, SizeAssumption
  <2>2. (((out + n) % Wrap) + i - 1) % Size = (out + n + i - 1) % Size
    BY <2>1, MovedCell
  <2>3. out + n + i - 1 = out + (n + i) - 1
    BY <2>1
  <2> QED BY <2>2, <2>3, Zenon
<1>2. Oldest(Used)' = [i \in 1 .. Used - n |-> buffer[(out + (n + i) - 1) % Size]]
  BY <1>1 DEF Oldest
<1>3. SubSeq(Oldest(Used), n + 1, Used)
        = [i \in 1 .. Used - n |-> buffer[(out + (n + i) - 1) % Size]]
  BY DEF Oldest
<1> QED BY <1>2, <1>3

\* Every step of the buffer is a step of the abstract queue, or a stutter.
LEMMA RefineNext ==
    IInv /\ CopiesIntact /\ [Next]_vars => [Queue!Next]_(Queue!vars)
<1> SUFFICES ASSUME IInv, CopiesIntact, [Next]_vars
             PROVE  [Queue!Next]_(Queue!vars)
  OBVIOUS
<1> USE SizeAssumption, MaxLenAssumption DEF IInv
<1>0. /\ Used \in 0 .. Wrap - 1 /\ Used \in Nat /\ Used <= Size
      /\ Wrap \in Nat /\ Wrap > 0 /\ Size \in Nat /\ Size > 0 /\ Size < Wrap
      /\ in \in 0 .. Wrap - 1 /\ out \in 0 .. Wrap - 1
      /\ Len(wdata) \in Nat /\ Len(rdata) \in 0 .. Used
      /\ Used + Len(wdata) <= Size
  BY Distance DEF TypeOK, Occupancy, Used, SizeAssumption
<1>00. /\ Len(Oldest(Used)) = Used
       /\ \A n \in 0 .. Used : SubSeq(Oldest(Used), 1, n) = Oldest(n)
  BY <1>0, OldestType, OldestPrefix
<1>1. ASSUME NEW data \in Offers, PutCopy(data)
      PROVE  UNCHANGED Queue!vars
  <2>1. \A i \in 1 .. Used :
           buffer'[(out + i - 1) % Size] = buffer[(out + i - 1) % Size]
    BY <1>1, PutKeepsUsed
  <2>2. out' = out /\ Used' = Used /\ ret' = ret
    BY <1>1 DEF PutCopy, Used
  <2>3. Oldest(Used)' = Oldest(Used)
    BY <2>1, <2>2 DEF Oldest
  <2> QED BY <2>2, <2>3 DEF Queue!vars
<1>2. CASE PutPublish
  <2>1. Used' = Used + Len(wdata)
    BY <1>0, <1>2, Distance DEF PutPublish, Used
  <2>2. UNCHANGED <<buffer, out, ret>>
    BY <1>2 DEF PutPublish
  <2>3. Oldest(Used)' = Oldest(Used')
    BY <2>2 DEF Oldest
  <2>4. Len(Oldest(Used')) = Used' /\ SubSeq(Oldest(Used'), 1, Used) = Oldest(Used)
    BY <1>0, <2>1, OldestType, OldestPrefix
  <2>5. Queue!Put
    BY <1>0, <1>00, <2>1, <2>2, <2>3, <2>4 DEF Queue!Put, Queue!Take
  <2> QED BY <2>5 DEF Queue!Next
<1>3. ASSUME NEW n \in 0 .. MaxLen, GetCopy(n)
      PROVE  UNCHANGED Queue!vars
  BY <1>3 DEF GetCopy, Queue!vars, Oldest, Used
<1>4. ASSUME NEW n \in 0 .. MaxLen, Getahead(n)
      PROVE  Queue!Getahead
  <2>1. Min2(n, Used) \in 0 .. Used
    BY <1>0 DEF Min2
  <2>2. ret' = Oldest(Min2(n, Used)) /\ UNCHANGED <<buffer, in, out>>
    BY <1>4 DEF Getahead
  <2>3. UNCHANGED Oldest(Used)
    BY <2>2 DEF Oldest, Used
  <2> QED BY <1>00, <2>1, <2>2, <2>3 DEF Queue!Getahead, Queue!Take
<1>5. CASE GetPublish
  <2> DEFINE n == Len(rdata)
  <2>1. UNCHANGED buffer /\ out' = (out + n) % Wrap /\ in' = in /\ ret' = rdata
    BY <1>5 DEF GetPublish
  <2>2. Used' = Used - n
    BY <1>0, <2>1, Distance DEF Used
  <2>3. Oldest(Used)' = SubSeq(Oldest(Used), n + 1, Used)
    BY <1>0, <2>1, <2>2, DropOldest
  <2>4. ret' = SubSeq(Oldest(Used), 1, n)
    BY <1>0, <1>00, <1>5, <2>1 DEF GetPublish, CopiesIntact
  <2>5. Queue!Get
    BY <1>0, <1>00, <2>3, <2>4 DEF Queue!Get, Queue!Take, Queue!Drop
  <2> QED BY <2>5 DEF Queue!Next
<1>6. CASE Pop
  <2>1. UNCHANGED buffer /\ out' = (out + 1) % Wrap /\ in' = in /\ ret' = ret
    BY <1>6 DEF Pop
  <2>2. 1 <= Used
    BY <1>0, <1>6, ModWrap DEF Pop, Used
  <2>3. Used' = Used - 1
    BY <1>0, <2>1, <2>2, Distance DEF Used
  <2>4. Oldest(Used)' = SubSeq(Oldest(Used), 2, Used)
    BY <1>0, <2>1, <2>2, <2>3, DropOldest
  <2>5. Oldest(Used) \in Seq(Byte) /\ Oldest(Used) # << >>
    BY <1>0, <1>00, <2>2, OldestType
  <2>6. Tail(Oldest(Used)) = SubSeq(Oldest(Used), 2, Used)
    BY <1>00, <2>5
  <2>7. Queue!Pop
    BY <2>1, <2>4, <2>5, <2>6 DEF Queue!Pop
  <2> QED BY <2>7 DEF Queue!Next
<1>7. CASE Reset
  <2>1. Used' = 0 /\ ret' = ret
    BY <1>0, <1>7, ModWrap DEF Reset, Used
  <2>2. Oldest(Used)' = << >>
    BY <2>1 DEF Oldest
  <2>3. Queue!Reset
    BY <2>1, <2>2 DEF Queue!Reset
  <2> QED BY <2>3 DEF Queue!Next
<1>8. CASE UNCHANGED vars
  BY <1>8 DEF vars, Queue!vars, Oldest, Used
<1> QED
  BY <1>1, <1>2, <1>3, <1>4, <1>5, <1>6, <1>7, <1>8 DEF Next, Queue!Next

\* kfifo.c:74-156: seen through its counters the buffer is a bounded first-in
\* first-out queue of bytes, with one reader and one writer at work in any
\* interleaving and across any wrap of the counters.
THEOREM ImplementsByteQueue == Spec => IsByteQueue
<1>1. IInv /\ CopiesIntact /\ [Next]_vars => IInv' /\ CopiesIntact'
  BY NextIInv, NextCopies
<1> QED BY <1>1, InitIInv, InitCopies, RefineInit, RefineNext, PTL
           DEF Spec, IsByteQueue, Queue!Spec
================================================================================
