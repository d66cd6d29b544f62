------------------------------ MODULE ZclProofs ------------------------------
(***************************************************************************)
(* Proofs about the exchange of commands: whatever is asked, of whichever  *)
(* endpoint, with whatever attributes, commands, tasks and cluster options *)
(* registered, a command that wants an answer gets exactly one, the task   *)
(* that waits for it hears it once, and a discovery lists exactly what     *)
(* there is.  They need that frames of bytes are read as they were built   *)
(* and what each handler may send.                                         *)
(***************************************************************************)
EXTENDS ZclScenesProofs

--------------------------------------------------------------------------------
(* The exchange of a request and its answer.                                 *)
Registered ==
    /\ topic \in DOMAIN Requests
    /\ \E r \in Registers[topic] :
          /\ attrList = r.attrList /\ gpCmdList = r.gpCmdList
          /\ clusterOptionList = r.clusterOptionList
          /\ externalEndPointHandlerList = r.externalEndPointHandlerList
Values == [DOMAIN InitVals -> Seq(Nat)]
IsAsked ==
    \E k \in DOMAIN Requests[topic] :
        LET q == Requests[topic][k]
        IN /\ asked.src = q.to.src /\ asked.to = q.to
           /\ asked.hdr = q.hdr /\ asked.c = q.c

IsRequest(p) ==
    LET profile == asked.hdr.type = PROFILE /\ Known(asked.hdr.cmd)
    IN /\ p.src = asked.src /\ p.dst = asked.to.dst
       /\ p.clusterId = asked.to.clusterId /\ p.unicast = asked.to.unicast
       /\ p.hdr = asked.hdr /\ p.meant = asked.c
       /\ p.data = zclBuildHdr(asked.hdr)
                   \o (IF profile THEN Payload(asked.hdr.cmd, asked.c)
                       ELSE << >>)

\* What the endpoint that was asked may send.
Responses ==
    {ZCL_CMD.READ_RSP, ZCL_CMD.WRITE_RSP, ZCL_CMD.DEFAULT_RSP,
     ZCL_CMD.DISCOVER_ATTRS_RSP, ZCL_CMD.DISCOVER_ATTRS_EXT_RSP,
     ZCL_CMD.DISCOVER_CMDS_RECEIVED_RSP, ZCL_CMD.DISCOVER_CMDS_GEN_RSP}
IsAnswer(a) ==
    /\ a.dst = asked.src /\ a.hdr \in FrameHeader
    /\ a.hdr.seq = asked.hdr.seq /\ a.hdr.disableDefaultRsp
    /\ \E d \in Seq(Nat) : a.data = zclBuildHdr(a.hdr) \o d
    /\ a.hdr.type = SPECIFIC => a.hdr.direction = 1
    /\ a.hdr.type = PROFILE => a.hdr.cmd \in Responses
    /\ asked.hdr.disableDefaultRsp /\ a.hdr.type = PROFILE
       /\ a.hdr.cmd = ZCL_CMD.DEFAULT_RSP =>
          a.meant.statusCode = ZCL_STATUS.FAILURE
    /\ Foundation /\ (OfAttributes \/ OfCommands)
       /\ a.hdr.cmd = asked.hdr.cmd + 1 => Exact(a.meant)

\* A request that nobody has to answer.
NoneDue ==
    asked.to.unicast /\ ~asked.hdr.disableDefaultRsp =>
        \/ asked.to.dst \notin Described
        \/ ~Enabled
        \/ LeftToTheApplication
        \/ InNoneOfTheGroups /\ leaving = {}

HeardElsewhere ==
    heard = << >> \/ \E g : heard = <<g>> /\ g.endPoint # asked.src
IsHeard(a) ==
    LET own == {h \in Range(externalEndPointHandlerList) :
                h.zcl_ExternalEndPoint = asked.src}
        here == {k \in DOMAIN heard : heard[k].endPoint = asked.src}
    IN a.hdr.type = PROFILE /\ a.hdr.manuCode = 0 =>
        /\ Cardinality(here) <= 1
        /\ \A h \in own :
              {heard[k] : k \in here} = {[task |-> h.zcl_ExternalTaskID,
                                         endPoint |-> asked.src,
                                         cmd |-> a.hdr.cmd]}

Idle == wire = << >> /\ replies = << >> /\ answers = << >> /\ heard = << >>
Waiting ==
    /\ \E p : wire = <<p>> /\ IsRequest(p)
    /\ replies = << >> /\ answers = << >> /\ heard = << >>
Unreplied == wire = << >> /\ replies = << >> /\ answers = << >> /\ NoneDue
Replied ==
    \E a : /\ answers = <<a>> /\ IsAnswer(a)
           /\ \/ wire = << >> /\ replies = <<a>> /\ HeardElsewhere
              \/ wire = <<a>> /\ replies = << >> /\ HeardElsewhere
              \/ wire = << >> /\ replies = << >> /\ IsHeard(a)
ExchangeInv ==
    /\ Registered
    /\ vals \in Values
    /\ IF asked = Nobody THEN Idle
       ELSE IsAsked /\ (Waiting \/ Unreplied \/ Replied)

--------------------------------------------------------------------------------
(* The header of a frame.                                                    *)
LEMMA Powers ==
    2 ^ 2 = 4 /\ 2 ^ 3 = 8 /\ 2 ^ 4 = 16 /\ 2 ^ 8 = 256 /\ 2 ^ 16 = 65536
OBVIOUS

LEMMA ByteIs == \A x : x \in Byte <=> x \in Nat /\ x < 256
BY Powers DEF Byte

LEMMA WordIs == \A x : x \in Word <=> x \in Nat /\ x < 65536
BY Powers DEF Word

\* The bits of the first byte.
LEMMA FirstByte ==
    ASSUME NEW t \in {0, 1}, NEW f \in {0, 1}, NEW d \in {0, 1}, NEW g \in {0, 1}
    PROVE  LET b == t + 4 * f + 8 * d + 16 * g
           IN /\ b \in Nat /\ b % 4 = t /\ (Bit(b, 2) <=> f = 1)
              /\ (Bit(b, 3) <=> d = 1) /\ (Bit(b, 4) <=> g = 1)
<1> DEFINE b == t + 4 * f + 8 * d + 16 * g
<1>1. b \in Nat /\ b % 4 = t
  OBVIOUS
<1>2. (b \div 4) % 2 = f /\ (b \div 8) % 2 = d /\ (b \div 16) % 2 = g
  OBVIOUS
<1> HIDE DEF b
<1>3. (Bit(b, 2) <=> f = 1) /\ (Bit(b, 3) <=> d = 1) /\ (Bit(b, 4) <=> g = 1)
  BY <1>2, Powers DEF Bit
<1> QED BY <1>1, <1>3 DEF b

\* What follows a header.
LEMMA Behind ==
    ASSUME NEW S, NEW h \in Seq(S), NEW d \in Seq(S)
    PROVE  /\ h \o d \in Seq(S)
           /\ SubSeq(h \o d, Len(h) + 1, Len(h \o d)) = d
           /\ \A i \in 1 .. Len(h) : At(h \o d, i) = h[i]
<1> DEFINE m == Len(h)
           n == Len(d)
<1>1. m \in Nat /\ n \in Nat
  OBVIOUS
<1>2. PICK s : s = h \o d
  OBVIOUS
<1>3. /\ s \in Seq(S) /\ Len(s) = m + n
      /\ \A i \in 1 .. m + n : s[i] = IF i <= m THEN h[i] ELSE d[i - m]
  BY <1>2, ConcatProperties
<1>4. d = [i \in 1 .. n |-> d[i]]
  OBVIOUS
<1> HIDE DEF m, n
<1>5. \A i \in 1 .. m : i \in DOMAIN s /\ s[i] = h[i]
  <2> TAKE i \in 1 .. m
  <2>1. i \in 1 .. m + n /\ i <= m
    BY <1>1
  <2> QED BY <1>1, <1>3, <2>1
<1>6. SubSeq(s, m + 1, m + n) = d
  <2>1. SubSeq(s, m + 1, m + n)
        = [i \in 1 .. n |-> s[m + 1 + i - 1]]
    <3>1. 1 + (m + n) - (m + 1) = n
      BY <1>1
    <3>2. SubSeq(s, m + 1, m + n) =
              [i \in 1 .. 1 + (m + n) - (m + 1) |-> s[m + 1 + i - 1]]
      BY <1>1, <1>3
    <3> QED BY <3>1, <3>2
  <2>2. \A i \in 1 .. n : s[m + 1 + i - 1] = d[i]
    <3> TAKE i \in 1 .. n
    <3>1. PICK j : j = m + 1 + i - 1
      OBVIOUS
    <3>2. j \in 1 .. m + n /\ ~(j <= m) /\ j - m = i
      BY <1>1, <3>1
    <3>3. s[j] = d[i]
      BY <1>3, <3>2
    <3> QED BY <3>1, <3>3
  <2> QED BY <1>4, <2>1, <2>2
<1> QED BY <1>2, <1>3, <1>5, <1>6 DEF m, n, At

\* A header's bytes.
LEMMA Enclosed ==
    ASSUME NEW S, NEW b \in S, NEW m \in Seq(S), NEW x \in S, NEW y \in S
    PROVE  LET h == <<b>> \o m \o <<x, y>>
           IN /\ h \in Seq(S) /\ Len(h) = Len(m) + 3
              /\ h[1] = b /\ \A i \in 1 .. Len(m) : h[i + 1] = m[i]
              /\ h[Len(m) + 2] = x /\ h[Len(m) + 3] = y
<1> DEFINE n == Len(m)
<1>1. n \in Nat
  OBVIOUS
<1>2. PICK p : p = <<b>> \o m
  OBVIOUS
<1>4. <<b>> \in Seq(S) /\ Len(<<b>>) = 1 /\ <<b>>[1] = b
  OBVIOUS
<1> DEFINE t == <<x, y>>
<1>5. t \in Seq(S) /\ Len(t) = 2 /\ t[1] = x /\ t[2] = y
  OBVIOUS
<1>6. /\ p \in Seq(S) /\ Len(p) = 1 + n
      /\ \A i \in 1 .. 1 + n : p[i] = IF i <= 1 THEN <<b>>[i] ELSE m[i - 1]
  BY <1>2, <1>4, ConcatProperties
<1> HIDE DEF n, t
<1>3. PICK h : h = p \o t
  OBVIOUS
<1>7. /\ h \in Seq(S) /\ Len(h) = 1 + n + 2
      /\ \A i \in 1 .. 1 + n + 2 : h[i] = IF i <= 1 + n THEN p[i] ELSE t[i - (1 + n)]
  <2>1. /\ p \o t \in Seq(S) /\ Len(p \o t) = Len(p) + Len(t)
        /\ \A i \in 1 .. Len(p) + Len(t) : (p \o t)[i] =
               IF i <= Len(p) THEN p[i] ELSE t[i - Len(p)]
    BY <1>5, <1>6, ConcatProperties
  <2>2. h \in Seq(S) /\ Len(h) = Len(p) + Len(t)
        /\ \A i \in 1 .. Len(p) + Len(t) : h[i] =
               IF i <= Len(p) THEN p[i] ELSE t[i - Len(p)]
    BY <1>3, <2>1
  <2>3. Len(p) = 1 + n /\ Len(t) = 2
    BY <1>5, <1>6
  <2> QED BY <2>2, <2>3
<1>8. h[1] = b
  <2>1. 1 \in 1 .. 1 + n + 2 /\ 1 \in 1 .. 1 + n /\ 1 <= 1 + n
    BY <1>1
  <2>2. h[1] = p[1] /\ p[1] = <<b>>[1]
    BY <1>6, <1>7, <2>1
  <2> QED BY <1>4, <2>2
<1>9. ASSUME NEW i \in 1 .. n PROVE h[i + 1] = m[i]
  <2>1. i + 1 \in 1 .. 1 + n + 2 /\ i + 1 \in 1 .. 1 + n /\ i + 1 <= 1 + n
        /\ ~(i + 1 <= 1) /\ (i + 1) - 1 = i
    BY <1>1
  <2>2. h[i + 1] = p[i + 1]
    BY <1>7, <2>1
  <2>3. p[i + 1] = m[(i + 1) - 1]
    BY <1>6, <2>1
  <2> QED BY <2>1, <2>2, <2>3
<1>10. h[n + 2] = x /\ h[n + 3] = y
  <2>1. n + 2 \in 1 .. 1 + n + 2 /\ ~(n + 2 <= 1 + n) /\ (n + 2) - (1 + n) = 1
    BY <1>1
  <2>2. n + 3 \in 1 .. 1 + n + 2 /\ ~(n + 3 <= 1 + n) /\ (n + 3) - (1 + n) = 2
    BY <1>1
  <2>3. h[n + 2] = t[1]
    BY <1>7, <2>1
  <2>4. h[n + 3] = t[2]
    BY <1>7, <2>2
  <2> QED BY <1>5, <2>3, <2>4
<1>11. Len(h) = n + 3
  BY <1>1, <1>7
<1>12. <<b>> \o m \o <<x, y>> = h
  BY <1>2, <1>3 DEF t
<1> QED BY <1>7, <1>8, <1>9, <1>10, <1>11, <1>12 DEF n

LEMMA HeaderBytes ==
    ASSUME NEW hdr \in FrameHeader
    PROVE  LET h == zclBuildHdr(hdr)
               f == Flag(hdr.manuCode # 0)
           IN /\ h \in Seq(Nat) /\ Len(h) = zclCalcHdrSize(hdr)
              /\ h[1] = hdr.type + 4 * f + 8 * hdr.direction
                        + 16 * Flag(hdr.disableDefaultRsp)
              /\ f = 0 => hdr.manuCode = 0 /\ h[2] = hdr.seq /\ h[3] = hdr.cmd
              /\ f = 1 => /\ h[2] + 256 * h[3] = hdr.manuCode
                          /\ h[4] = hdr.seq /\ h[5] = hdr.cmd
<1> DEFINE h == zclBuildHdr(hdr)
           f == Flag(hdr.manuCode # 0)
           b == hdr.type + 4 * f + 8 * hdr.direction
                + 16 * Flag(hdr.disableDefaultRsp)
           m == IF hdr.manuCode # 0 THEN Uint16(hdr.manuCode) ELSE << >>
<1>1. /\ hdr.type \in {0, 1} /\ hdr.manuCode \in Nat /\ hdr.direction \in {0, 1}
      /\ hdr.seq \in Nat /\ hdr.cmd \in Nat
  <2>1. /\ hdr.type \in {0, 1} /\ hdr.manuCode \in Word /\ hdr.direction \in {0, 1}
        /\ hdr.seq \in Byte /\ hdr.cmd \in Byte
    BY DEF FrameHeader, PROFILE, SPECIFIC
  <2> QED BY <2>1, WordIs, ByteIs
<1>2. b \in Nat
  <2>1. f \in {0, 1} /\ Flag(hdr.disableDefaultRsp) \in {0, 1}
    BY DEF Flag
  <2> HIDE DEF f
  <2> QED BY <1>1, <2>1
<1>3. h = <<b>> \o m \o <<hdr.seq, hdr.cmd>>
  BY DEF zclBuildHdr
<1>4. CASE hdr.manuCode = 0
  <2>1. f = 0 /\ m = << >> /\ m \in Seq(Nat) /\ Len(m) = 0 /\ zclCalcHdrSize(hdr) = 3
    BY <1>4 DEF Flag, zclCalcHdrSize
  <2> HIDE DEF h, b, f, m
  <2>2. /\ h \in Seq(Nat) /\ Len(h) = 0 + 3 /\ h[1] = b
        /\ h[0 + 2] = hdr.seq /\ h[0 + 3] = hdr.cmd
    BY <1>1, <1>2, <1>3, <2>1, Enclosed
  <2>3. Len(h) = 3 /\ h[2] = hdr.seq /\ h[3] = hdr.cmd
    BY <2>2
  <2> QED BY <1>4, <2>1, <2>2, <2>3 DEF h, b, f
<1>5. CASE hdr.manuCode # 0
  <2> DEFINE x == hdr.manuCode % 256
             y == hdr.manuCode \div 256
  <2>1. f = 1 /\ m = <<x, y>> /\ zclCalcHdrSize(hdr) = 5
    BY <1>5 DEF Flag, Uint16, LO_UINT16, HI_UINT16, zclCalcHdrSize
  <2>2. x \in Nat /\ y \in Nat /\ x + 256 * y = hdr.manuCode
    BY <1>1
  <2> HIDE DEF h, b, f, m, x, y
  <2>3. m \in Seq(Nat) /\ Len(m) = 2 /\ m[1] = x /\ m[2] = y
    BY <2>1, <2>2
  <2>4. /\ h \in Seq(Nat) /\ Len(h) = 2 + 3 /\ h[1] = b
        /\ \A i \in 1 .. 2 : h[i + 1] = m[i]
        /\ h[2 + 2] = hdr.seq /\ h[2 + 3] = hdr.cmd
    <3>1. /\ h \in Seq(Nat) /\ Len(h) = Len(m) + 3 /\ h[1] = b
          /\ \A i \in 1 .. Len(m) : h[i + 1] = m[i]
          /\ h[Len(m) + 2] = hdr.seq /\ h[Len(m) + 3] = hdr.cmd
      <4>1. b \in Nat /\ m \in Seq(Nat) /\ hdr.seq \in Nat /\ hdr.cmd \in Nat
        BY <1>1, <1>2, <2>3
      <4> QED BY <1>3, <4>1, Enclosed
    <3>2. Len(m) = 2
      BY <2>3
    <3> QED BY <3>1, <3>2
  <2>5. h[1 + 1] = m[1] /\ h[2 + 1] = m[2]
    <3>1. 1 \in 1 .. 2 /\ 2 \in 1 .. 2
      OBVIOUS
    <3> QED BY <2>4, <3>1
  <2>6. Len(h) = 5 /\ h[2] = x /\ h[3] = y /\ h[4] = hdr.seq /\ h[5] = hdr.cmd
    BY <2>3, <2>4, <2>5
  <2> QED BY <2>1, <2>2, <2>4, <2>6 DEF h, b, f
<1> QED BY <1>4, <1>5

\* What is built as a header is parsed as that header, whatever follows.
LEMMA HeaderParsed ==
    ASSUME NEW hdr \in FrameHeader, NEW d \in Seq(Nat)
    PROVE  LET data == zclBuildHdr(hdr) \o d
           IN /\ zclParseHdr(data) = hdr
              /\ SubSeq(data, zclCalcHdrSize(hdr) + 1, Len(data)) = d
<1> DEFINE h == zclBuildHdr(hdr)
           f == Flag(hdr.manuCode # 0)
           g == Flag(hdr.disableDefaultRsp)
           b == hdr.type + 4 * f + 8 * hdr.direction + 16 * g
           data == h \o d
<1>1. /\ h \in Seq(Nat) /\ Len(h) = zclCalcHdrSize(hdr) /\ h[1] = b
      /\ f = 0 => hdr.manuCode = 0 /\ h[2] = hdr.seq /\ h[3] = hdr.cmd
      /\ f = 1 => /\ h[2] + 256 * h[3] = hdr.manuCode
                  /\ h[4] = hdr.seq /\ h[5] = hdr.cmd
  BY HeaderBytes
<1>2. /\ SubSeq(data, Len(h) + 1, Len(data)) = d
      /\ \A i \in 1 .. Len(h) : At(data, i) = h[i]
  <2> HIDE DEF h
  <2> QED BY <1>1, Behind
<1>3. f \in {0, 1} /\ g \in {0, 1} /\ (g = 1 <=> hdr.disableDefaultRsp)
      /\ hdr.type \in {0, 1} /\ hdr.direction \in {0, 1}
      /\ hdr.disableDefaultRsp \in BOOLEAN
  BY DEF Flag, FrameHeader, PROFILE, SPECIFIC
<1>4. /\ b % 4 = hdr.type /\ (Bit(b, 2) <=> f = 1)
      /\ (Bit(b, 3) <=> hdr.direction = 1) /\ (Bit(b, 4) <=> g = 1)
  <2> HIDE DEF f, g
  <2> QED BY <1>3, FirstByte
<1>5. data[1] = b
  <2>1. Len(h) = IF f = 1 THEN 5 ELSE 3
    BY <1>1 DEF zclCalcHdrSize, Flag
  <2> HIDE DEF h, f, b
  <2>2. 1 \in 1 .. Len(h)
    BY <2>1
  <2>3. data[1] = h[1]
    BY <1>1, <2>2
  <2> QED BY <1>1, <2>3
<1>6. Flag(Bit(b, 3)) = hdr.direction
  BY <1>3, <1>4 DEF Flag
<1>7. Bit(b, 4) = hdr.disableDefaultRsp
  <2>1. Bit(b, 4) \in BOOLEAN
    BY DEF Bit
  <2> QED BY <1>3, <1>4, <2>1
<1>8. hdr = [type |-> hdr.type, manuCode |-> hdr.manuCode,
             direction |-> hdr.direction,
             disableDefaultRsp |-> hdr.disableDefaultRsp,
             seq |-> hdr.seq, cmd |-> hdr.cmd]
  BY DEF FrameHeader
<1>9. CASE f = 0
  <2>1. Len(h) = 3 /\ hdr.manuCode = 0
    BY <1>1, <1>9 DEF zclCalcHdrSize
  <2>2. At(data, 2) = hdr.seq /\ At(data, 3) = hdr.cmd
    <3> HIDE DEF h, data, b, f
    <3>1. 2 \in 1 .. Len(h) /\ 3 \in 1 .. Len(h)
      BY <2>1
    <3> QED BY <1>1, <1>2, <1>9, <3>1
  <2>3. ~Bit(data[1], 2)
    BY <1>4, <1>5, <1>9
  <2>4. zclParseHdr(data) = [type |-> b % 4, manuCode |-> 0,
             direction |-> Flag(Bit(b, 3)), disableDefaultRsp |-> Bit(b, 4),
             seq |-> At(data, 2), cmd |-> At(data, 3)]
    <3> HIDE DEF data, b
    <3> QED BY <1>5, <2>3 DEF zclParseHdr
  <2>5. zclParseHdr(data) = hdr
    <3> HIDE DEF data, b
    <3> QED BY <1>4, <1>6, <1>7, <1>8, <2>1, <2>2, <2>4
  <2> QED BY <1>1, <1>2, <2>5
<1>10. CASE f = 1
  <2>1. Len(h) = 5
    BY <1>1, <1>10 DEF zclCalcHdrSize, Flag
  <2>2. At(data, 2) + 256 * At(data, 3) = hdr.manuCode
        /\ At(data, 4) = hdr.seq /\ At(data, 5) = hdr.cmd
    <3> HIDE DEF h, data, b, f
    <3>1. 2 \in 1 .. Len(h) /\ 3 \in 1 .. Len(h) /\ 4 \in 1 .. Len(h) /\ 5 \in 1 .. Len(h)
      BY <2>1
    <3> QED BY <1>1, <1>2, <1>10, <3>1
  <2>3. Bit(data[1], 2)
    BY <1>4, <1>5, <1>10
  <2>4. zclParseHdr(data) = [type |-> b % 4, manuCode |-> At(data, 2) + 256 * At(data, 3),
             direction |-> Flag(Bit(b, 3)), disableDefaultRsp |-> Bit(b, 4),
             seq |-> At(data, 4), cmd |-> At(data, 5)]
    <3> HIDE DEF data, b
    <3> QED BY <1>5, <2>3 DEF zclParseHdr, BUILD_UINT16
  <2>5. zclParseHdr(data) = hdr
    <3> HIDE DEF data, b
    <3> QED BY <1>4, <1>6, <1>7, <1>8, <2>2, <2>4
  <2> QED BY <1>1, <1>2, <2>5
<1> QED BY <1>3, <1>9, <1>10

--------------------------------------------------------------------------------
(* What is registered.                                                       *)
\* SelectInSeq takes the first place of a set of places.
Foremost(I) == IF I # {} THEN Min(I) ELSE 0
LEMMA FirstIs ==
    ASSUME NEW n \in Nat, NEW I \in SUBSET (1 .. n)
    PROVE  /\ Foremost(I) \in 0 .. n /\ (Foremost(I) = 0 <=> I = {})
           /\ Foremost(I) # 0 => Foremost(I) \in I /\ \A j \in I : Foremost(I) <= j
<1>1. CASE I = {}
  BY <1>1 DEF Foremost
<1>2. CASE I # {}
  <2>1. I \in SUBSET Nat
    OBVIOUS
  <2>2. PICK m \in I : \A j \in I : m <= j
    BY <1>2, <2>1, LeastOf
  <2>3. Min(I) \in I /\ \A j \in I : Min(I) <= j
    BY <2>2 DEF Min
  <2>4. Foremost(I) = Min(I)
    BY <1>2 DEF Foremost
  <2>5. Foremost(I) \in I /\ \A j \in I : Foremost(I) <= j
    BY <2>3, <2>4
  <2>6. Foremost(I) \in 1 .. n
    BY <2>5
  <2> HIDE DEF Foremost
  <2> QED BY <1>2, <2>5, <2>6
<1> QED BY <1>1, <1>2

\* What is registered when it runs.
LEMMA Lists ==
    ASSUME Registered
    PROVE  /\ attrList \in Seq([endpoint : Nat, attrs : Seq(zclAttrRec_t),
                                callbacks : BOOLEAN])
           /\ gpCmdList \in Seq([endpoint : Nat, pCmdRecs : Seq(zclCommandRec_t)])
           /\ \A e \in DOMAIN attrList :
                 LET attrs == attrList[e].attrs
                 IN /\ \A i, j \in DOMAIN attrs :
                          i < j /\ attrs[i].clusterID = attrs[j].clusterID
                          => attrs[i].attrId <= attrs[j].attrId
                    /\ \A i \in DOMAIN attrs :
                          /\ Key(attrs[i]) \in DOMAIN InitVals
                          /\ Key(attrs[i]) = <<BASIC, DEVICE_ENABLED>> =>
                                attrs[i].dataType = BOOLEAN8
           /\ \A e \in DOMAIN gpCmdList :
                 LET cmds == gpCmdList[e].pCmdRecs
                 IN \A i, j \in DOMAIN cmds :
                       i < j /\ cmds[i].clusterID = cmds[j].clusterID
                       => cmds[i].cmdID <= cmds[j].cmdID
<1>1. PICK r \in Registers[topic] :
          attrList = r.attrList /\ gpCmdList = r.gpCmdList
  BY DEF Registered
<1>2. topic \in DOMAIN Requests
  BY DEF Registered
<1> QED BY <1>1, <1>2, RegistersAssumption

LEMMA AttributesOf ==
    ASSUME Registered, NEW ep, Attributes(ep) # << >>
    PROVE  \E e \in DOMAIN attrList :
              attrList[e].endpoint = ep /\ Attributes(ep) = attrList[e].attrs
<1> DEFINE I == {i \in 1 .. Len(attrList) : attrList[i].endpoint = ep}
           R == [endpoint : Nat, attrs : Seq(zclAttrRec_t), callbacks : BOOLEAN]
<1>1. zclFindAttrRecsList(ep) = Foremost(I)
  BY DEF zclFindAttrRecsList, SelectInSeq, Foremost
<1>2. attrList \in Seq(R)
  BY Lists
<1> HIDE DEF R
<1>3. Len(attrList) \in Nat /\ DOMAIN attrList = 1 .. Len(attrList)
  BY <1>2
<1>4. Foremost(I) # 0
  BY <1>1 DEF Attributes
<1>5. Attributes(ep) = attrList[Foremost(I)].attrs
  BY <1>1, <1>4 DEF Attributes
<1>6. Foremost(I) \in I
  <2> HIDE DEF I
  <2>1. Foremost(I) # 0 => Foremost(I) \in I
    BY <1>3, FirstIs DEF I
  <2> QED BY <1>4, <2>1
<1> HIDE DEF Foremost
<1> QED BY <1>3, <1>5, <1>6

\* Of an endpoint: its attributes, in the order of their numbers and with
\* their values, and its commands.
LEMMA AttributesIs ==
    ASSUME Registered, NEW ep
    PROVE  LET attrs == Attributes(ep)
           IN /\ attrs \in Seq(zclAttrRec_t)
              /\ \A i, j \in DOMAIN attrs :
                    i < j /\ attrs[i].clusterID = attrs[j].clusterID
                    => attrs[i].attrId <= attrs[j].attrId
              /\ \A i \in DOMAIN attrs :
                    /\ Key(attrs[i]) \in DOMAIN InitVals
                    /\ Key(attrs[i]) = <<BASIC, DEVICE_ENABLED>> =>
                          attrs[i].dataType = BOOLEAN8
<1> DEFINE I == {i \in 1 .. Len(attrList) : attrList[i].endpoint = ep}
           R == [endpoint : Nat, attrs : Seq(zclAttrRec_t), callbacks : BOOLEAN]
<1>1. zclFindAttrRecsList(ep) = Foremost(I)
  BY DEF zclFindAttrRecsList, SelectInSeq, Foremost
<1>2. attrList \in Seq(R)
  BY Lists
<1> HIDE DEF R
<1>3. Len(attrList) \in Nat /\ DOMAIN attrList = 1 .. Len(attrList)
      /\ \A i \in 1 .. Len(attrList) : attrList[i] \in R
  BY <1>2
<1>4. CASE Foremost(I) = 0
  <2>1. Attributes(ep) = << >>
    BY <1>1, <1>4 DEF Attributes
  <2> QED BY <2>1
<1>5. CASE Foremost(I) # 0
  <2> DEFINE e == Foremost(I)
  <2>1. e \in 1 .. Len(attrList)
    <3>1. Foremost(I) \in 0 .. Len(attrList)
      BY <1>3, FirstIs
    <3> HIDE DEF I
    <3> QED BY <1>3, <1>5, <3>1
  <2>2. Attributes(ep) = attrList[e].attrs
    BY <1>1, <1>5 DEF Attributes
  <2> HIDE DEF e
  <2>3. attrList[e].attrs \in Seq(zclAttrRec_t)
    BY <1>3, <2>1 DEF R
  <2>4. e \in DOMAIN attrList
    BY <1>3, <2>1
  <2> QED BY <2>2, <2>3, <2>4, Lists
<1> QED BY <1>4, <1>5

LEMMA CommandsIs ==
    ASSUME Registered, NEW ep
    PROVE  LET cmds == Commands(ep)
           IN /\ cmds \in Seq(zclCommandRec_t)
              /\ \A i, j \in DOMAIN cmds :
                    i < j /\ cmds[i].clusterID = cmds[j].clusterID
                    => cmds[i].cmdID <= cmds[j].cmdID
<1> DEFINE I == {i \in 1 .. Len(gpCmdList) : gpCmdList[i].endpoint = ep}
           R == [endpoint : Nat, pCmdRecs : Seq(zclCommandRec_t)]
<1>1. zclFindCmdRecsList(ep) = Foremost(I)
  BY DEF zclFindCmdRecsList, SelectInSeq, Foremost
<1>2. gpCmdList \in Seq(R)
  BY Lists
<1> HIDE DEF R
<1>3. Len(gpCmdList) \in Nat /\ DOMAIN gpCmdList = 1 .. Len(gpCmdList)
      /\ \A i \in 1 .. Len(gpCmdList) : gpCmdList[i] \in R
  BY <1>2
<1>4. CASE Foremost(I) = 0
  <2>1. Commands(ep) = << >>
    BY <1>1, <1>4 DEF Commands
  <2> QED BY <2>1
<1>5. CASE Foremost(I) # 0
  <2> DEFINE e == Foremost(I)
  <2>1. e \in 1 .. Len(gpCmdList)
    <3>1. Foremost(I) \in 0 .. Len(gpCmdList)
      BY <1>3, FirstIs
    <3> HIDE DEF I
    <3> QED BY <1>3, <1>5, <3>1
  <2>2. Commands(ep) = gpCmdList[e].pCmdRecs
    BY <1>1, <1>5 DEF Commands
  <2> HIDE DEF e
  <2>3. gpCmdList[e].pCmdRecs \in Seq(zclCommandRec_t)
    BY <1>3, <2>1 DEF R
  <2>4. e \in DOMAIN gpCmdList
    BY <1>3, <2>1
  <2> QED BY <2>2, <2>3, <2>4, Lists
<1> QED BY <1>4, <1>5

\* The attribute that is found.
LEMMA AttributeFound ==
    ASSUME Registered, NEW ep, NEW cluster, NEW id
    PROVE  LET k == zclFindAttrRec(ep, cluster, id)
               a == Attributes(ep)[k]
           IN k # NotFound => /\ k \in DOMAIN Attributes(ep)
                              /\ a \in zclAttrRec_t
                              /\ a.clusterID = cluster /\ a.attrId = id
                              /\ Key(a) \in DOMAIN InitVals
                              /\ Key(a) = <<BASIC, DEVICE_ENABLED>> =>
                                    a.dataType = BOOLEAN8
<1> DEFINE attrs == Attributes(ep)
           k == zclFindAttrRec(ep, cluster, id)
           I == {i \in 1 .. Len(attrs) :
                 attrs[i].clusterID = cluster /\ attrs[i].attrId = id}
<1>1. k = Foremost(I)
  BY DEF zclFindAttrRec, SelectInSeq, Foremost
<1>2. /\ attrs \in Seq(zclAttrRec_t)
      /\ \A i \in DOMAIN attrs :
            /\ Key(attrs[i]) \in DOMAIN InitVals
            /\ Key(attrs[i]) = <<BASIC, DEVICE_ENABLED>> =>
                  attrs[i].dataType = BOOLEAN8
  BY AttributesIs
<1> HIDE DEF attrs, k
<1>3. Len(attrs) \in Nat /\ DOMAIN attrs = 1 .. Len(attrs)
      /\ \A i \in 1 .. Len(attrs) : attrs[i] \in zclAttrRec_t
  BY <1>2
<1>4. k # NotFound => k \in I
  <2>1. Foremost(I) # 0 => Foremost(I) \in I
    BY <1>3, FirstIs
  <2> QED BY <1>1, <2>1 DEF NotFound
<1> QED BY <1>2, <1>3, <1>4 DEF attrs, k

--------------------------------------------------------------------------------
(* Sequences put together.                                                   *)
\* What is put together from sequences is a sequence.
LEMMA Joins ==
    ASSUME NEW S, NEW n \in Nat, NEW ss \in [1 .. n -> Seq(S)]
    PROVE  /\ FlattenSeq(ss) \in Seq(S)
           /\ n = 0 => FlattenSeq(ss) = << >>
           /\ n = 1 => FlattenSeq(ss) = ss[1]
<1> DEFINE U == Seq(S)
<1>1. ss \in Seq(U) /\ Len(ss) = n
  <2> HIDE DEF U
  <2>1. ss \in [1 .. n -> U]
    BY DEF U
  <2> QED BY <2>1
<1>2. CASE n = 0
  <2>1. ss = << >>
    <3> HIDE DEF U
    <3> QED BY <1>1, <1>2
  <2>2. FlattenSeq(<< >>) = << >>
    BY DEF FlattenSeq
  <2>3. FlattenSeq(ss) = << >>
    BY <2>1, <2>2
  <2>4. << >> \in Seq(S) /\ n # 1
    BY <1>2
  <2> QED BY <2>3, <2>4
<1>3. CASE n # 0
  <2>1. ss # << >>
    <3> HIDE DEF U
    <3>1. Len(ss) # 0
      BY <1>1, <1>3
    <3> QED BY <3>1
  <2>2. PICK f \in [1 .. Len(ss) -> Seq(S)] :
            FlattenSeq(ss) = f[Len(ss)] /\ f[1] = ss[1]
    BY <1>1, <2>1, FlattenSteps
  <2>3. n \in 1 .. n
    BY <1>3
  <2>4. f[n] \in Seq(S) /\ FlattenSeq(ss) = f[n]
    BY <1>1, <2>2, <2>3
  <2> QED BY <1>3, <2>2, <2>4
<1> QED BY <1>2, <1>3

LEMMA NothingJoined ==
    ASSUME NEW n \in Nat
    PROVE  FlattenSeq([k \in 1 .. n |-> << >>]) = << >>
<1> DEFINE ss == [k \in 1 .. n |-> << >>]
<1>1. ss \in [1 .. n -> Seq({})]
  OBVIOUS
<1> HIDE DEF ss
<1>2. FlattenSeq(ss) \in Seq({})
  BY <1>1, Joins
<1> DEFINE x == FlattenSeq(ss)
<1>3. Len(x) = 0
  <2>1. \A i \in 1 .. Len(x) : x[i] \in {}
    BY <1>2, ElementOfSeq
  <2>2. Len(x) \in Nat
    BY <1>2
  <2>3. CASE Len(x) > 0
    <3>1. 1 \in 1 .. Len(x)
      BY <2>2, <2>3
    <3> QED BY <2>1, <3>1
  <2> QED BY <2>2, <2>3
<1>4. x = << >>
  BY <1>2, <1>3
<1> QED BY <1>4 DEF ss

--------------------------------------------------------------------------------
(* Who may send.                                                             *)
LEMMA OneByte == zclSerializeData(BOOLEAN8, <<1>>) = <<1>>
<1>1. zclGetAttrDataLength(BOOLEAN8, <<1>>, 1) = 1
  <2>1. BOOLEAN8 \notin LongStrings /\ BOOLEAN8 \notin Strings
    BY DEF BOOLEAN8, LongStrings, Strings, CHAR_STR
  <2>2. {k \in 1 .. 16 : BOOLEAN8 \in TypesOfLength[k]} = {1}
    <3>1. BOOLEAN8 \in TypesOfLength[1]
      BY DEF TypesOfLength
    <3>2. \A k \in 1 .. 16 : BOOLEAN8 \in TypesOfLength[k] => k = 1
      BY DEF TypesOfLength, BOOLEAN8, UINT8, UINT16
    <3> QED BY <3>1, <3>2
  <2>3. zclGetDataTypeLength(BOOLEAN8) = 1
    BY <2>2 DEF zclGetDataTypeLength
  <2> QED BY <2>1, <2>3 DEF zclGetAttrDataLength
<1>2. zclSerializeData(BOOLEAN8, <<1>>) = [k \in 1 .. 1 |-> At(<<1>>, 1 + k - 1)]
  BY <1>1 DEF zclSerializeData, Bytes
<1>3. \A k \in 1 .. 1 : At(<<1>>, 1 + k - 1) = 1
  BY DEF At
<1>4. [k \in 1 .. 1 |-> At(<<1>>, 1 + k - 1)] = <<1>>
  BY <1>3
<1> QED BY <1>2, <1>4

\* With these values the device is enabled, or has no such attribute.
EnabledBy(v) == <<BASIC, DEVICE_ENABLED>> \notin DOMAIN v
                \/ v[<<BASIC, DEVICE_ENABLED>>] = <<1>>
LEMMA EnabledOperates ==
    ASSUME Registered, NEW v \in Values, EnabledBy(v),
           NEW ep, NEW cluster, NEW type, NEW cmd
    PROVE  zcl_DeviceOperational(v, ep, cluster, type, cmd)
<1> DEFINE k == zclFindAttrRec(ep, BASIC, DEVICE_ENABLED)
           a == Attributes(ep)[k]
<1>1. SUFFICES ASSUME k # NotFound, a.stored PROVE zclReadAttrData(a, v) = <<1>>
  BY DEF zcl_DeviceOperational
<1>2. /\ a.clusterID = BASIC /\ a.attrId = DEVICE_ENABLED
      /\ Key(a) \in DOMAIN InitVals
      /\ Key(a) = <<BASIC, DEVICE_ENABLED>> => a.dataType = BOOLEAN8
  BY <1>1, AttributeFound
<1>3. Key(a) = <<BASIC, DEVICE_ENABLED>>
  BY <1>2 DEF Key
<1>4. v[Key(a)] = <<1>>
  BY <1>2, <1>3 DEF EnabledBy, Values
<1>5. zclReadAttrData(a, v) = zclSerializeData(BOOLEAN8, <<1>>)
  BY <1>2, <1>3, <1>4 DEF zclReadAttrData
<1> QED BY <1>5, OneByte

\* The one who asks has neither attributes nor a secured cluster.
LEMMA AskerFree ==
    ASSUME Registered, NEW q, \E k \in DOMAIN Requests[topic] : q = Requests[topic][k],
           NEW v, NEW cluster, NEW type, NEW cmd
    PROVE  /\ zcl_DeviceOperational(v, q.to.src, cluster, type, cmd)
           /\ ~zclGetClusterOption(q.to.src, cluster)
<1> DEFINE src == q.to.src
<1>1. PICK r \in Registers[topic] :
          attrList = r.attrList /\ clusterOptionList = r.clusterOptionList
  BY DEF Registered
<1>2. /\ clusterOptionList \in
             Seq([endpoint : Nat,
                  options : Seq([clusterID : Nat, secured : BOOLEAN])])
  BY <1>1, RegistersAssumption DEF Registered
<1>3. /\ \A e \in DOMAIN attrList :
            attrList[e].endpoint = src =>
                \A a \in Range(attrList[e].attrs) : Key(a) # <<BASIC, DEVICE_ENABLED>>
      /\ \A e \in DOMAIN clusterOptionList : clusterOptionList[e].endpoint # src
  <2>1. topic \in DOMAIN Requests
    BY DEF Registered
  <2>2. PICK k \in DOMAIN Requests[topic] : src = Requests[topic][k].to.src
    OBVIOUS
  <2> QED BY <1>1, <2>1, <2>2, AskersAssumption
<1>4. zcl_DeviceOperational(v, src, cluster, type, cmd)
  <2> DEFINE k == zclFindAttrRec(src, BASIC, DEVICE_ENABLED)
             attrs == Attributes(src)
  <2>1. k = NotFound
    <3> SUFFICES ASSUME k # NotFound PROVE FALSE
      OBVIOUS
    <3>1. /\ k \in DOMAIN attrs
          /\ attrs[k].clusterID = BASIC /\ attrs[k].attrId = DEVICE_ENABLED
      BY AttributeFound
    <3> HIDE DEF k, attrs
    <3>2. Key(attrs[k]) = <<BASIC, DEVICE_ENABLED>> /\ attrs[k] \in Range(attrs)
      BY <3>1 DEF Key, Range
    <3>3. attrs # << >>
      BY <3>1
    <3>4. PICK e \in DOMAIN attrList :
              attrList[e].endpoint = src /\ attrs = attrList[e].attrs
      BY <3>3, AttributesOf DEF attrs
    <3> QED BY <1>3, <3>2, <3>4
  <2> QED BY <2>1 DEF zcl_DeviceOperational
<1>5. ~zclGetClusterOption(src, cluster)
  <2> DEFINE O == [clusterID : Nat, secured : BOOLEAN]
             ss == [k \in DOMAIN clusterOptionList |->
                    IF clusterOptionList[k].endpoint = src
                    THEN clusterOptionList[k].options ELSE << >>]
             n == Len(clusterOptionList)
  <2>1. n \in Nat /\ DOMAIN clusterOptionList = 1 .. n
    <3> DEFINE R == [endpoint : Nat, options : Seq(O)]
    <3>1. clusterOptionList \in Seq(R)
      BY <1>2
    <3> HIDE DEF R
    <3> QED BY <3>1
  <2>2. ss = [k \in 1 .. n |-> << >>]
    BY <1>3, <2>1
  <2> HIDE DEF n
  <2>3. FlattenSeq([k \in 1 .. n |-> << >>]) = << >>
    BY <2>1, NothingJoined
  <2>4. Options(src) = << >>
    BY <2>2, <2>3 DEF Options
  <2>5. zclFindClusterOption(src, cluster) = 0
    <3> DEFINE list == Options(src)
               J == {i \in 1 .. Len(list) : list[i].clusterID = cluster}
    <3>1. zclFindClusterOption(src, cluster) = Foremost(J)
      BY DEF zclFindClusterOption, SelectInSeq, Foremost
    <3>2. J = {}
      BY <2>4
    <3> QED BY <3>1, <3>2 DEF Foremost
  <2> QED BY <2>5 DEF zclGetClusterOption
<1> QED BY <1>4, <1>5

LEMMA AskerOperates ==
    ASSUME Registered, IsAsked, NEW v, NEW cluster, NEW type, NEW cmd
    PROVE  /\ zcl_DeviceOperational(v, asked.src, cluster, type, cmd)
           /\ ~zclGetClusterOption(asked.src, cluster)
<1>1. PICK q : /\ \E k \in DOMAIN Requests[topic] : q = Requests[topic][k]
               /\ asked.src = q.to.src
  BY DEF IsAsked
<1> QED BY <1>1, AskerFree

--------------------------------------------------------------------------------
(* Bytes and values.                                                         *)
LEMMA AtIs ==
    ASSUME NEW buf \in Seq(Nat), NEW i
    PROVE  At(buf, i) \in Nat
<1>1. i \in DOMAIN buf => buf[i] \in Nat
  OBVIOUS
<1> QED BY <1>1 DEF At, Beyond

LEMMA WordAt ==
    ASSUME NEW buf \in Seq(Nat), NEW i
    PROVE  BUILD_UINT16(buf, i) \in Nat
<1>1. At(buf, i) \in Nat /\ At(buf, i + 1) \in Nat
  BY AtIs
<1> QED BY <1>1 DEF BUILD_UINT16

LEMMA Uint16Is ==
    ASSUME NEW x \in Nat
    PROVE  Uint16(x) \in Seq(Nat)
<1>1. x % 256 \in Nat /\ x \div 256 \in Nat
  OBVIOUS
<1> QED BY <1>1 DEF Uint16, LO_UINT16, HI_UINT16

LEMMA LengthIs ==
    ASSUME NEW type, NEW buf \in Seq(Nat), NEW i
    PROVE  zclGetAttrDataLength(type, buf, i) \in Nat
<1>1. zclGetDataTypeLength(type) \in Nat
  <2> DEFINE n == {k \in 1 .. 16 : type \in TypesOfLength[k]}
  <2>1. n # {} => (CHOOSE k \in n : TRUE) \in n
    OBVIOUS
  <2>2. zclGetDataTypeLength(type) = IF n = {} THEN 0 ELSE CHOOSE k \in n : TRUE
    BY DEF zclGetDataTypeLength
  <2>3. \A k \in n : k \in Nat
    OBVIOUS
  <2> HIDE DEF n
  <2> QED BY <2>1, <2>2, <2>3
<1>2. BUILD_UINT16(buf, i) + 2 \in Nat /\ At(buf, i) + 1 \in Nat
  BY AtIs, WordAt
<1> QED BY <1>1, <1>2 DEF zclGetAttrDataLength

LEMMA BytesIs ==
    ASSUME NEW buf \in Seq(Nat), NEW i, NEW n \in Nat
    PROVE  Bytes(buf, i, n) \in Seq(Nat)
<1>1. \A k \in 1 .. n : At(buf, i + k - 1) \in Nat
  BY AtIs
<1> QED BY <1>1 DEF Bytes

LEMMA SerializedIs ==
    ASSUME NEW type, NEW data \in Seq(Nat)
    PROVE  zclSerializeData(type, data) \in Seq(Nat)
BY LengthIs, BytesIs DEF zclSerializeData

LEMMA ValueIs ==
    ASSUME NEW type, NEW buf \in Seq(Nat), NEW i
    PROVE  Value(type, buf, i) \in Seq(Nat)
BY LengthIs, BytesIs DEF Value

LEMMA ReadIs ==
    ASSUME NEW ep, NEW a, NEW v \in Values, Key(a) \in DOMAIN InitVals
    PROVE  zcl_ReadAttrData(ep, a, v) \in Seq(Nat)
<1>1. v[Key(a)] \in Seq(Nat)
  BY DEF Values
<1>2. zclSerializeData(a.dataType, v[Key(a)]) \in Seq(Nat)
  BY <1>1, SerializedIs
<1>3. << >> \in Seq(Nat)
  OBVIOUS
<1> QED BY <1>1, <1>2, <1>3
        DEF zcl_ReadAttrData, zclReadAttrData, zclReadAttrDataUsingCB

\* A write leaves values.
LEMMA PutIs ==
    ASSUME NEW a, NEW v \in Values, NEW data \in Seq(Nat)
    PROVE  Put(v, a, data) \in [status : Nat, vals : Values]
<1>1. zclSerializeData(a.dataType, data) \in Seq(Nat)
  BY SerializedIs
<1>2. [v EXCEPT ![Key(a)] = zclSerializeData(a.dataType, data)] \in Values
  <2> DEFINE x == zclSerializeData(a.dataType, data)
             U == Seq(Nat)
  <2>1. v \in [DOMAIN InitVals -> U] /\ x \in U
    BY <1>1 DEF Values
  <2> HIDE DEF x, U
  <2>2. [v EXCEPT ![Key(a)] = x] \in [DOMAIN InitVals -> U]
    BY <2>1
  <2> QED BY <2>2 DEF x, U, Values
<1>3. ZCL_STATUS.SUCCESS \in Nat
  BY DEF ZCL_STATUS
<1> QED BY <1>2, <1>3 DEF Put

LEMMA WriteLeaves ==
    ASSUME NEW ep, NEW a, NEW v \in Values, NEW data \in Seq(Nat)
    PROVE  Write(ep, a, v, data) \in [status : Nat, vals : Values]
<1> DEFINE W == [status : Nat, vals : Values]
<1>1. Put(v, a, data) \in W
  BY PutIs
<1>2. \A status \in Nat : Kept(v, status) \in W
  BY DEF Kept
<1>3. Permission(ep, a) \in Nat
  BY DEF Permission, zclAuthorizeWrite, Authorize, ZCL_STATUS
<1>4. ZCL_STATUS.INVALID_VALUE \in Nat /\ ZCL_STATUS.SOFTWARE_FAILURE \in Nat
  BY DEF ZCL_STATUS
<1> HIDE DEF W
<1>5. Kept(v, Permission(ep, a)) \in W /\ Kept(v, ZCL_STATUS.INVALID_VALUE) \in W
      /\ Kept(v, ZCL_STATUS.SOFTWARE_FAILURE) \in W
  BY <1>2, <1>3, <1>4
<1>6. zclWriteAttrData(ep, a, v, data) \in W
  BY <1>1, <1>5 DEF zclWriteAttrData
<1>7. zclWriteAttrDataUsingCB(ep, a, v, data) \in W
  BY <1>1, <1>5 DEF zclWriteAttrDataUsingCB
<1>8. Write(ep, a, v, data) \in W
  BY <1>6, <1>7 DEF Write
<1> QED BY <1>8 DEF W

--------------------------------------------------------------------------------
(* Writing.                                                                  *)
WriteRecs == [attrID : Nat, dataType : Nat, attrData : Seq(Nat)]
LEMMA Numbered ==
    ASSUME NEW n \in Nat, NEW K \in SUBSET (1 .. n)
    PROVE  IsFiniteSet(K) /\ Cardinality(K) \in Nat
<1>1. IsFiniteSet(1 .. n)
  BY FS_Interval
<1>2. IsFiniteSet(K)
  BY <1>1, FS_Subset
<1> QED BY <1>2, FS_CardinalityType

LEMMA WritesParsed ==
    ASSUME NEW buf \in Seq(Nat)
    PROVE  zclParseInWriteCmd(buf) \in Seq(WriteRecs)
<1> DEFINE Size(i) == 3 + zclGetAttrDataLength(At(buf, i + 2), buf, i + 3)
           places == Places(Len(buf), Size)
           K == {k \in 1 .. Len(buf) : places[k] <= Len(buf)}
           n == Cardinality(K)
           at == Places(n, Size)
<1>1. n \in Nat
  <2>1. K \in SUBSET (1 .. Len(buf)) /\ Len(buf) \in Nat
    <3> HIDE DEF places
    <3> QED OBVIOUS
  <2> HIDE DEF K
  <2> QED BY <2>1, Numbered
<1>2. Count(buf, Size) = n
  BY DEF Count, Places
<1>3. zclParseInWriteCmd(buf) =
          [k \in 1 .. n |->
              [attrID |-> BUILD_UINT16(buf, at[k]),
               dataType |-> At(buf, at[k] + 2),
               attrData |-> Value(At(buf, at[k] + 2), buf, at[k] + 3)]]
  BY DEF zclParseInWriteCmd, Unpack, Count, Places
<1> HIDE DEF n, at
<1>4. \A i : BUILD_UINT16(buf, i) \in Nat /\ At(buf, i + 2) \in Nat
             /\ Value(At(buf, i + 2), buf, i + 3) \in Seq(Nat)
  BY WordAt, AtIs, ValueIs
<1>5. \A k \in 1 .. n :
          [attrID |-> BUILD_UINT16(buf, at[k]),
           dataType |-> At(buf, at[k] + 2),
           attrData |-> Value(At(buf, at[k] + 2), buf, at[k] + 3)] \in WriteRecs
  BY <1>4 DEF WriteRecs
<1> QED BY <1>1, <1>3, <1>5

\* What every round of a loop keeps, the loop keeps.
LEMMA Stays ==
    ASSUME NEW S, NEW n \in Nat, NEW h, h[0] \in S,
           \A k \in 1 .. n : h[k - 1] \in S => h[k] \in S
    PROVE  \A k \in 0 .. n : h[k] \in S
<1> DEFINE T == {k \in 0 .. n : h[k] \in S}
<1>1. 0 \in T
  OBVIOUS
<1>2. \A k \in 1 .. n : k - 1 \in T => k \in T
  OBVIOUS
<1>3. T = 0 .. n
  <2> HIDE DEF T
  <2>1. T \in SUBSET (0 .. n)
    BY DEF T
  <2> QED BY <1>1, <1>2, <2>1, UpTo
<1> QED BY <1>3

\* The statuses that are reported.
StatusRecs == [status : Nat, attrID : Nat]
WriteRsps == Seq(StatusRecs) \cup {SuccessRsp}
WriteResults == [vals : Values, rsp : WriteRsps]
LEMMA WrittenIs ==
    ASSUME vals \in Values, NEW msg, msg.attrCmd \in Seq(WriteRecs)
    PROVE  zclProcessInWriteCmd(msg) \in WriteResults
<1> DEFINE list == msg.attrCmd
           n == Len(list)
           S == [vals : Values, rsp : Seq(StatusRecs)]
           k(rec) == zclFindAttrRec(msg.endPoint, msg.clusterId, rec.attrID)
           a(rec) == Attributes(msg.endPoint)[k(rec)]
           w(over, rec) ==
               IF k(rec) = NotFound
               THEN Kept(over.vals, ZCL_STATUS.UNSUPPORTED_ATTRIBUTE)
               ELSE IF rec.dataType # a(rec).dataType
               THEN Kept(over.vals, ZCL_STATUS.INVALID_DATA_TYPE)
               ELSE Write(msg.endPoint, a(rec), over.vals, rec.attrData)
           Next(over, rec) ==
               [vals |-> w(over, rec).vals,
                rsp |-> IF w(over, rec).status = ZCL_STATUS.SUCCESS THEN over.rsp
                        ELSE Append(over.rsp, [status |-> w(over, rec).status,
                                               attrID |-> rec.attrID])]
           base == [vals |-> vals, rsp |-> << >>]
           Is(f) == f = [i \in 0 .. n |-> IF i = 0 THEN base
                                          ELSE Next(f[i - 1], list[i])]
           step == [i \in 1 .. n |-> [x \in S |-> Next(x, list[i])]]
           done == CHOOSE f : Is(f)
<1>1. n \in Nat /\ \A i \in 1 .. n : list[i] \in WriteRecs
  <2> HIDE DEF WriteRecs
  <2> QED OBVIOUS
<1>2. ASSUME NEW over \in S, NEW rec \in WriteRecs
      PROVE  Next(over, rec) \in S
  <2>1. over.vals \in Values /\ over.rsp \in Seq(StatusRecs)
    OBVIOUS
  <2>2. rec.attrID \in Nat /\ rec.attrData \in Seq(Nat)
    BY DEF WriteRecs
  <2>3. \A status \in Nat : Kept(over.vals, status) \in [status : Nat, vals : Values]
    BY <2>1 DEF Kept
  <2>4. ZCL_STATUS.UNSUPPORTED_ATTRIBUTE \in Nat /\ ZCL_STATUS.INVALID_DATA_TYPE \in Nat
    BY DEF ZCL_STATUS
  <2>5. Write(msg.endPoint, a(rec), over.vals, rec.attrData) \in [status : Nat, vals : Values]
    BY <2>1, <2>2, WriteLeaves
  <2>6. w(over, rec) \in [status : Nat, vals : Values]
    BY <2>3, <2>4, <2>5
  <2> HIDE DEF w
  <2>7. w(over, rec).vals \in Values /\ w(over, rec).status \in Nat
    BY <2>6
  <2>8. [status |-> w(over, rec).status, attrID |-> rec.attrID] \in StatusRecs
    BY <2>2, <2>7 DEF StatusRecs
  <2>9. Append(over.rsp, [status |-> w(over, rec).status, attrID |-> rec.attrID])
        \in Seq(StatusRecs)
    BY <2>1, <2>8, AppendProperties
  <2> QED BY <2>1, <2>7, <2>9
<1>3. base \in S
  OBVIOUS
<1>4. zclProcessInWriteCmd(msg) = [vals |-> done[n].vals, rsp |-> OrSuccess(done[n].rsp)]
  BY DEF zclProcessInWriteCmd
<1> HIDE DEF n, list, S, Next, base
<1>5. step \in [1 .. n -> [S -> S]]
  BY <1>1, <1>2
<1>6. \E f : Is(f)
  <2>1. PICK f : IsRun(f, S, base, n, step)
    <3> HIDE DEF step
    <3> QED BY <1>1, <1>3, <1>5, LoopRuns
  <2>2. ASSUME NEW i \in 0 .. n
        PROVE  f[i] = IF i = 0 THEN base ELSE Next(f[i - 1], list[i])
    <3>1. CASE i = 0
      BY <2>1, <3>1 DEF IsRun
    <3>2. CASE i # 0
      <4>1. i \in 1 .. n /\ i - 1 \in 0 .. n
        BY <1>1, <3>2
      <4>2. f[i - 1] \in S /\ f[i] = step[i][f[i - 1]]
        BY <2>1, <4>1 DEF IsRun
      <4> QED BY <3>2, <4>1, <4>2
    <3> QED BY <3>1, <3>2
  <2>3. f = [i \in 0 .. n |-> f[i]]
    BY <2>1 DEF IsRun
  <2> QED BY <2>2, <2>3
<1>7. Is(done)
  BY <1>6
<1>8. done[n] \in S
  <2> HIDE DEF done
  <2>1. \A i \in 0 .. n : done[i] = IF i = 0 THEN base ELSE Next(done[i - 1], list[i])
    BY <1>7
  <2>2. done[0] \in S
    BY <1>1, <1>3, <2>1
  <2>3. \A i \in 1 .. n : done[i - 1] \in S => done[i] \in S
    <3> TAKE i \in 1 .. n
    <3>1. i \in 0 .. n /\ i # 0
      BY <1>1
    <3> QED BY <1>1, <1>2, <2>1, <3>1
  <2>4. \A i \in 0 .. n : done[i] \in S
    BY <1>1, <2>2, <2>3, Stays
  <2>5. n \in 0 .. n
    BY <1>1
  <2> QED BY <2>4, <2>5
<1>9. done[n].vals \in Values /\ done[n].rsp \in Seq(StatusRecs)
  BY <1>8 DEF S
<1>10. OrSuccess(done[n].rsp) \in WriteRsps
  BY <1>9 DEF OrSuccess, WriteRsps
<1> QED BY <1>4, <1>9, <1>10 DEF WriteResults

\* What the undivided write keeps: at least one place once a write has failed.
Overs == [status : Nat, vals : Values, attrID : Nat, dataAt : Seq(Nat),
          next : Nat, mem : Seq(Nat)]
FailedOvers == {o \in Overs : o.status = ZCL_STATUS.SUCCESS \/ o.dataAt # << >>}

LEMMA StoreIs ==
    ASSUME NEW mem \in Seq(Nat), NEW at, NEW bytes \in Seq(Nat)
    PROVE  Store(mem, at, bytes) \in Seq(Nat)
<1> DEFINE n == Len(mem)
           x(i) == IF i - at \in DOMAIN bytes THEN bytes[i - at] ELSE mem[i]
<1>1. n \in Nat /\ DOMAIN mem = 1 .. n /\ \A i \in 1 .. n : mem[i] \in Nat
  OBVIOUS
<1>2. \A j \in DOMAIN bytes : bytes[j] \in Nat
  OBVIOUS
<1> HIDE DEF n
<1>3. \A i \in 1 .. n : x(i) \in Nat
  BY <1>1, <1>2
<1>4. Store(mem, at, bytes) = [i \in 1 .. n |-> x(i)]
  BY <1>1 DEF Store
<1> HIDE DEF x
<1> QED BY <1>1, <1>3, <1>4

LEMMA OversIs ==
    ASSUME Registered, vals \in Values, NEW msg, msg.attrCmd \in Seq(WriteRecs),
           \A i \in DOMAIN msg.attrCmd :
               zclFindAttrRec(msg.endPoint, msg.clusterId, msg.attrCmd[i].attrID)
               # NotFound
    PROVE  WriteOver(msg) \in FailedOvers
<1> DEFINE list == msg.attrCmd
           n == Len(list)
           S == FailedOvers
           k(rec) == zclFindAttrRec(msg.endPoint, msg.clusterId, rec.attrID)
           a(rec) == Attributes(msg.endPoint)[k(rec)]
           old(over, rec) == zcl_ReadAttrData(msg.endPoint, a(rec), over.vals)
           w(over, rec) == Write(msg.endPoint, a(rec), over.vals, rec.attrData)
           Next(over, rec) ==
               IF over.status # ZCL_STATUS.SUCCESS THEN over
               ELSE [status |-> w(over, rec).status, vals |-> w(over, rec).vals,
                     attrID |-> rec.attrID,
                     dataAt |-> Append(over.dataAt, over.next),
                     next |-> over.next + Padded(Len(old(over, rec))),
                     mem |-> Store(Store(over.mem, Len(over.dataAt) * RecSize,
                                         Uint16(rec.attrID)),
                                   over.next, old(over, rec))]
           base == [status |-> ZCL_STATUS.SUCCESS, vals |-> vals, attrID |-> 0,
                    dataAt |-> << >>, next |-> hdrLen(<< >>),
                    mem |-> Fresh(n)]
           Is(f) == f = [i \in 0 .. n |-> IF i = 0 THEN base
                                          ELSE Next(f[i - 1], list[i])]
           step == [i \in 1 .. n |-> [x \in S |-> Next(x, list[i])]]
           done == CHOOSE f : Is(f)
<1>1. n \in Nat /\ \A i \in 1 .. n : list[i] \in WriteRecs /\ k(list[i]) # NotFound
  <2> HIDE DEF WriteRecs
  <2> QED OBVIOUS
<1>2. ASSUME NEW over \in S, NEW rec \in WriteRecs, k(rec) # NotFound
      PROVE  Next(over, rec) \in S
  <2>1. /\ over.vals \in Values /\ over.dataAt \in Seq(Nat) /\ over.next \in Nat
        /\ over.mem \in Seq(Nat)
    BY DEF FailedOvers, Overs
  <2>2. rec.attrID \in Nat /\ rec.attrData \in Seq(Nat)
    BY DEF WriteRecs
  <2>3. w(over, rec) \in [status : Nat, vals : Values]
    BY <2>1, <2>2, WriteLeaves
  <2>4. Key(a(rec)) \in DOMAIN InitVals
    BY <1>2, AttributeFound
  <2>5. old(over, rec) \in Seq(Nat)
    BY <2>1, <2>4, ReadIs
  <2> HIDE DEF k, a, old, w
  <2>6. over.next + Padded(Len(old(over, rec))) \in Nat
    <3>1. Len(old(over, rec)) \in Nat
      BY <2>5
    <3> QED BY <2>1, <3>1 DEF Padded
  <2>7. Uint16(rec.attrID) \in Seq(Nat)
    BY <2>2, Uint16Is
  <2>8. Store(Store(over.mem, Len(over.dataAt) * RecSize, Uint16(rec.attrID)),
              over.next, old(over, rec)) \in Seq(Nat)
    BY <2>1, <2>5, <2>7, StoreIs
  <2>9. Append(over.dataAt, over.next) \in Seq(Nat)
        /\ Append(over.dataAt, over.next) # << >>
    <3> DEFINE d == over.dataAt
               x == Append(d, over.next)
    <3>1. x \in Seq(Nat) /\ Len(x) = Len(d) + 1 /\ Len(d) \in Nat
      BY <2>1
    <3>2. Len(x) # 0
      BY <3>1
    <3> HIDE DEF x
    <3>3. x # << >>
      BY <3>2
    <3> QED BY <3>1, <3>3 DEF x
  <2> QED BY <2>2, <2>3, <2>6, <2>8, <2>9 DEF FailedOvers, Overs
<1>3. base \in S
  <2>1. Fresh(n) \in Seq(Nat)
    <3>1. (n + 1) * RecSize \in Nat /\ Beyond \in Nat
      BY <1>1 DEF RecSize, Beyond
    <3> QED BY <3>1 DEF Fresh
  <2>2. hdrLen(<< >>) \in Nat
    <3>1. Len(<< >>) = 0
      OBVIOUS
    <3> QED BY <3>1 DEF hdrLen, RecSize
  <2>3. ZCL_STATUS.SUCCESS \in Nat
    BY DEF ZCL_STATUS
  <2> QED BY <2>1, <2>2, <2>3 DEF FailedOvers, Overs
<1>4. WriteOver(msg) = done[n]
  BY DEF WriteOver
<1> HIDE DEF n, list, S, Next, base, k
<1>5. step \in [1 .. n -> [S -> S]]
  BY <1>1, <1>2
<1>6. \E f : Is(f)
  <2>1. PICK f : IsRun(f, S, base, n, step)
    <3> HIDE DEF step
    <3> QED BY <1>1, <1>3, <1>5, LoopRuns
  <2>2. ASSUME NEW i \in 0 .. n
        PROVE  f[i] = IF i = 0 THEN base ELSE Next(f[i - 1], list[i])
    <3>1. CASE i = 0
      BY <2>1, <3>1 DEF IsRun
    <3>2. CASE i # 0
      <4>1. i \in 1 .. n /\ i - 1 \in 0 .. n
        BY <1>1, <3>2
      <4>2. f[i - 1] \in S /\ f[i] = step[i][f[i - 1]]
        BY <2>1, <4>1 DEF IsRun
      <4> QED BY <3>2, <4>1, <4>2
    <3> QED BY <3>1, <3>2
  <2>3. f = [i \in 0 .. n |-> f[i]]
    BY <2>1 DEF IsRun
  <2> QED BY <2>2, <2>3
<1>7. Is(done)
  BY <1>6
<1>8. done[n] \in S
  <2> HIDE DEF done
  <2>1. \A i \in 0 .. n : done[i] = IF i = 0 THEN base ELSE Next(done[i - 1], list[i])
    BY <1>7
  <2>2. done[0] \in S
    BY <1>1, <1>3, <2>1
  <2>3. \A i \in 1 .. n : done[i - 1] \in S => done[i] \in S
    <3> TAKE i \in 1 .. n
    <3>1. i \in 0 .. n /\ i # 0
      BY <1>1
    <3> QED BY <1>1, <1>2, <2>1, <3>1
  <2>4. \A i \in 0 .. n : done[i] \in S
    BY <1>1, <2>2, <2>3, Stays
  <2>5. n \in 0 .. n
    BY <1>1
  <2> QED BY <2>4, <2>5
<1> QED BY <1>4, <1>8 DEF S

LEMMA RevertedIs ==
    ASSUME NEW msg, NEW v \in Values, NEW mem \in Seq(Nat), NEW dataAt, NEW n \in Nat
    PROVE  zclRevertWriteUndividedCmd(msg, v, mem, dataAt, n) \in Values
<1> DEFINE S == [stopped : BOOLEAN, vals : Values]
           k(i) == zclFindAttrRec(msg.endPoint, msg.clusterId,
                                  BUILD_UINT16(mem, (i - 1) * RecSize + 1))
           a(i) == Attributes(msg.endPoint)[k(i)]
           old(i) == Value(a(i).dataType, mem, dataAt[i] + 1)
           Next(over, i) ==
               IF over.stopped \/ k(i) = NotFound
               THEN [over EXCEPT !.stopped = TRUE]
               ELSE [stopped |-> FALSE,
                     vals |-> IF a(i).stored THEN Put(over.vals, a(i), old(i)).vals
                              ELSE zclWriteAttrDataUsingCB(msg.endPoint, a(i),
                                                 over.vals, old(i)).vals]
           base == [stopped |-> FALSE, vals |-> v]
           Is(f) == f = [i \in 0 .. n |-> IF i = 0 THEN base
                                          ELSE Next(f[i - 1], i)]
           step == [i \in 1 .. n |-> [x \in S |-> Next(x, i)]]
           done == CHOOSE f : Is(f)
<1>2. ASSUME NEW over \in S, NEW i PROVE Next(over, i) \in S
  <2>1. over.vals \in Values /\ [over EXCEPT !.stopped = TRUE] \in S
    OBVIOUS
  <2>2. old(i) \in Seq(Nat)
    BY ValueIs
  <2> HIDE DEF k, a, old
  <2>3. Put(over.vals, a(i), old(i)).vals \in Values
    BY <2>1, <2>2, PutIs
  <2>4. zclWriteAttrDataUsingCB(msg.endPoint, a(i), over.vals, old(i)).vals \in Values
    BY <2>1, <2>3 DEF zclWriteAttrDataUsingCB, Kept
  <2> QED BY <2>1, <2>3, <2>4
<1>3. base \in S
  OBVIOUS
<1>4. zclRevertWriteUndividedCmd(msg, v, mem, dataAt, n) = done[n].vals
  BY DEF zclRevertWriteUndividedCmd
<1> HIDE DEF S, Next, base
<1>5. step \in [1 .. n -> [S -> S]]
  BY <1>2
<1>6. \E f : Is(f)
  <2>1. PICK f : IsRun(f, S, base, n, step)
    <3> HIDE DEF step
    <3> QED BY <1>3, <1>5, LoopRuns
  <2>2. ASSUME NEW i \in 0 .. n
        PROVE  f[i] = IF i = 0 THEN base ELSE Next(f[i - 1], i)
    <3>1. CASE i = 0
      BY <2>1, <3>1 DEF IsRun
    <3>2. CASE i # 0
      <4>1. i \in 1 .. n /\ i - 1 \in 0 .. n
        BY <3>2
      <4>2. f[i - 1] \in S /\ f[i] = step[i][f[i - 1]]
        BY <2>1, <4>1 DEF IsRun
      <4> QED BY <3>2, <4>1, <4>2
    <3> QED BY <3>1, <3>2
  <2>3. f = [i \in 0 .. n |-> f[i]]
    BY <2>1 DEF IsRun
  <2> QED BY <2>2, <2>3
<1>7. Is(done)
  BY <1>6
<1>8. done[n] \in S
  <2> HIDE DEF done
  <2>1. \A i \in 0 .. n : done[i] = IF i = 0 THEN base ELSE Next(done[i - 1], i)
    BY <1>7
  <2>2. done[0] \in S
    BY <1>3, <2>1
  <2>3. \A i \in 1 .. n : done[i - 1] \in S => done[i] \in S
    <3> TAKE i \in 1 .. n
    <3>1. i \in 0 .. n /\ i # 0
      OBVIOUS
    <3> QED BY <1>2, <2>1, <3>1
  <2>4. \A i \in 0 .. n : done[i] \in S
    BY <2>2, <2>3, Stays
  <2> QED BY <2>4
<1> QED BY <1>4, <1>8 DEF S

LEMMA UndividedIs ==
    ASSUME Registered, vals \in Values, NEW msg, msg.attrCmd \in Seq(WriteRecs)
    PROVE  zclProcessInWriteUndividedCmd(msg) \in WriteResults
<1> DEFINE list == msg.attrCmd
           I == {i \in 1 .. Len(list) : Obstacle(msg, list[i]) # ZCL_STATUS.SUCCESS}
           bad == Foremost(I)
<1>1. SelectInSeq(list, LAMBDA rec : Obstacle(msg, rec) # ZCL_STATUS.SUCCESS) = bad
  BY DEF SelectInSeq, Foremost
<1>2. Len(list) \in Nat /\ DOMAIN list = 1 .. Len(list)
      /\ \A i \in 1 .. Len(list) : list[i] \in WriteRecs
  <2> HIDE DEF WriteRecs
  <2> QED OBVIOUS
<1>3. bad \in 0 .. Len(list) /\ (bad = 0 <=> I = {})
  BY <1>2, FirstIs
<1>4. CASE bad = 0
  <2>1. \A i \in DOMAIN list :
            zclFindAttrRec(msg.endPoint, msg.clusterId, list[i].attrID) # NotFound
    <3> TAKE i \in DOMAIN list
    <3>1. Obstacle(msg, list[i]) = ZCL_STATUS.SUCCESS
      BY <1>2, <1>3, <1>4
    <3> QED BY <3>1 DEF Obstacle, ZCL_STATUS
  <2> DEFINE o == WriteOver(msg)
  <2>2. o \in FailedOvers
    BY <2>1, OversIs
  <2>3. zclProcessInWriteUndividedCmd(msg) = AllOrNothing(msg, o)
    BY <1>1, <1>4 DEF zclProcessInWriteUndividedCmd
  <2> HIDE DEF o
  <2>4. /\ o.vals \in Values /\ o.status \in Nat /\ o.attrID \in Nat
        /\ o.mem \in Seq(Nat) /\ o.dataAt \in Seq(Nat)
        /\ o.status # ZCL_STATUS.SUCCESS => o.dataAt # << >>
    BY <2>2 DEF FailedOvers, Overs
  <2>5. CASE o.status = ZCL_STATUS.SUCCESS
    BY <2>3, <2>4, <2>5 DEF AllOrNothing, WriteResults, WriteRsps
  <2>6. CASE o.status # ZCL_STATUS.SUCCESS
    <3>1. Len(o.dataAt) - 1 \in Nat
      BY <2>4, <2>6
    <3>2. zclRevertWriteUndividedCmd(msg, o.vals, o.mem, o.dataAt,
                                     Len(o.dataAt) - 1) \in Values
      BY <2>4, <3>1, RevertedIs
    <3>3. <<[status |-> o.status, attrID |-> o.attrID]>> \in Seq(StatusRecs)
      BY <2>4 DEF StatusRecs
    <3> QED BY <2>3, <2>6, <3>2, <3>3 DEF AllOrNothing, WriteResults, WriteRsps
  <2> QED BY <2>5, <2>6
<1>5. CASE bad # 0
  <2>1. list[bad] \in WriteRecs
    <3> HIDE DEF bad
    <3> QED BY <1>2, <1>3, <1>5
  <2>2. list[bad].attrID \in Nat
    BY <2>1 DEF WriteRecs
  <2>3. Obstacle(msg, list[bad]) \in Nat
    BY DEF Obstacle, ZCL_STATUS
  <2>4. zclProcessInWriteUndividedCmd(msg) =
            [vals |-> vals,
             rsp |-> <<[status |-> Obstacle(msg, list[bad]),
                        attrID |-> list[bad].attrID]>>]
    BY <1>1, <1>5 DEF zclProcessInWriteUndividedCmd
  <2> HIDE DEF bad
  <2>5. <<[status |-> Obstacle(msg, list[bad]), attrID |-> list[bad].attrID]>>
        \in Seq(StatusRecs)
    BY <2>2, <2>3 DEF StatusRecs
  <2> QED BY <2>4, <2>5 DEF WriteResults, WriteRsps
<1> QED BY <1>4, <1>5

--------------------------------------------------------------------------------
(* Discovery.                                                                *)
\* The numbers from s on, and the first n numbers of a set in their order.
From(O, s) == {x \in O : x >= s}
IsFirst(ids, O, n) ==
    /\ ids \in Seq(Nat)
    /\ Len(ids) <= n /\ Len(ids) <= Cardinality(O)
    /\ Len(ids) = n \/ Len(ids) = Cardinality(O)
    /\ \A i \in 1 .. Len(ids) : ids[i] \in O
    /\ \A i \in 2 .. Len(ids) : ids[i - 1] < ids[i]
    /\ \A x \in O : \/ \E i \in 1 .. Len(ids) : x = ids[i]
                    \/ \A i \in 1 .. Len(ids) : ids[i] < x
    /\ Len(ids) = Cardinality(O)
       <=> \A x \in O : \E i \in 1 .. Len(ids) : x = ids[i]

LEMMA NoneFirst ==
    ASSUME NEW O, IsFiniteSet(O), NEW n \in Nat, n = 0 \/ O = {}
    PROVE  IsFirst(<< >>, O, n)
<1>1. Cardinality(O) \in Nat /\ (Cardinality(O) = 0 <=> O = {})
  BY FS_CardinalityType, FS_EmptySet
<1>2. << >> \in Seq(Nat) /\ Len(<< >>) = 0
  OBVIOUS
<1>3. 1 .. 0 = {} /\ 2 .. 0 = {}
  OBVIOUS
<1> QED BY <1>1, <1>2, <1>3 DEF IsFirst

LEMMA FirstExtends ==
    ASSUME NEW O \in SUBSET Nat, IsFiniteSet(O), NEW m \in O, \A x \in O : m <= x,
           NEW n \in Nat, NEW rest, IsFirst(rest, O \ {m}, n)
    PROVE  IsFirst(<<m>> \o rest, O, n + 1)
<1> DEFINE ids == <<m>> \o rest
           P == O \ {m}
           k == Len(rest)
           c == Cardinality(P)
<1>1. m \in Nat /\ Cardinality(O) = c + 1 /\ c \in Nat
  <2>1. IsFiniteSet(P) /\ c = Cardinality(O) - 1 /\ Cardinality(O) \in Nat
    BY FS_RemoveElement, FS_CardinalityType
  <2>2. c \in Nat
    BY <2>1, FS_CardinalityType
  <2> HIDE DEF c
  <2> QED BY <2>1, <2>2
<1>2. /\ rest \in Seq(Nat) /\ k \in Nat /\ k <= n /\ k <= c /\ (k = n \/ k = c)
      /\ \A i \in 1 .. k : rest[i] \in P
      /\ \A i \in 2 .. k : rest[i - 1] < rest[i]
      /\ \A x \in P : \/ \E i \in 1 .. k : x = rest[i]
                      \/ \A i \in 1 .. k : rest[i] < x
      /\ k = c <=> \A x \in P : \E i \in 1 .. k : x = rest[i]
  BY DEF IsFirst
<1>3. /\ ids \in Seq(Nat) /\ Len(ids) = k + 1 /\ ids[1] = m
      /\ \A i \in 1 .. k : ids[i + 1] = rest[i]
  <2>1. <<m>> \in Seq(Nat) /\ Len(<<m>>) = 1 /\ <<m>>[1] = m
    BY <1>1
  <2>2. /\ ids \in Seq(Nat) /\ Len(ids) = 1 + k
        /\ \A i \in 1 .. 1 + k : ids[i] = IF i <= 1 THEN <<m>>[i] ELSE rest[i - 1]
    BY <1>2, <2>1, ConcatProperties
  <2> HIDE DEF ids, k
  <2>3. 1 \in 1 .. 1 + k /\ Len(ids) = k + 1
    BY <1>2, <2>2
  <2>4. ASSUME NEW i \in 1 .. k PROVE ids[i + 1] = rest[i]
    <3>1. i + 1 \in 1 .. 1 + k /\ ~(i + 1 <= 1) /\ (i + 1) - 1 = i
      BY <1>2
    <3> QED BY <2>2, <3>1
  <2> QED BY <2>1, <2>2, <2>3, <2>4
<1>11. \A i \in 1 .. k + 1 : i = 1 \/ i - 1 \in 1 .. k
  BY <1>2
<1>12. \A i \in 1 .. k : i + 1 \in 1 .. k + 1
  BY <1>2
<1>13. \A i \in 2 .. k + 1 : ids[i] = rest[i - 1]
  <2> HIDE DEF ids, k
  <2> TAKE i \in 2 .. k + 1
  <2>1. i - 1 \in 1 .. k /\ (i - 1) + 1 = i
    BY <1>2
  <2> QED BY <1>3, <2>1
<1> HIDE DEF ids, k, c
<1>4. \A x \in P : x \in Nat /\ m < x
  BY <1>1
<1>5. \A i \in 1 .. k + 1 : ids[i] \in O
  <2> TAKE i \in 1 .. k + 1
  <2>1. CASE i = 1
    BY <1>3, <2>1
  <2>2. CASE i # 1
    <3>1. i \in 2 .. k + 1 /\ i - 1 \in 1 .. k
      BY <1>2, <2>2
    <3> QED BY <1>2, <1>13, <3>1
  <2> QED BY <2>1, <2>2
<1>6. \A i \in 2 .. k + 1 : ids[i - 1] < ids[i]
  <2> TAKE i \in 2 .. k + 1
  <2>1. ids[i] = rest[i - 1] /\ i - 1 \in 1 .. k
    BY <1>2, <1>13
  <2>2. CASE i = 2
    <3>1. ids[i - 1] = m
      BY <1>3, <2>2
    <3> QED BY <1>2, <1>4, <2>1, <3>1
  <2>3. CASE i # 2
    <3>1. i - 1 \in 2 .. k + 1 /\ i - 1 \in 2 .. k
      BY <1>2, <2>3
    <3>2. ids[i - 1] = rest[(i - 1) - 1]
      BY <1>13, <3>1
    <3>3. rest[(i - 1) - 1] < rest[i - 1]
      BY <1>2, <3>1
    <3> QED BY <2>1, <3>2, <3>3
  <2> QED BY <2>2, <2>3
<1>7. \A x \in P : (\E i \in 1 .. k + 1 : x = ids[i]) <=> \E i \in 1 .. k : x = rest[i]
  <2> TAKE x \in P
  <2>1. ASSUME NEW i \in 1 .. k + 1, x = ids[i] PROVE \E j \in 1 .. k : x = rest[j]
    <3>1. i # 1
      BY <1>3, <2>1
    <3>2. i \in 2 .. k + 1 /\ i - 1 \in 1 .. k
      BY <1>2, <3>1
    <3> QED BY <1>13, <2>1, <3>2
  <2>2. ASSUME NEW i \in 1 .. k, x = rest[i] PROVE \E j \in 1 .. k + 1 : x = ids[j]
    BY <1>3, <1>12, <2>2
  <2> QED BY <2>1, <2>2
<1>8. ASSUME NEW x \in O
      PROVE  \/ \E i \in 1 .. k + 1 : x = ids[i]
             \/ \A i \in 1 .. k + 1 : ids[i] < x
  <2>1. CASE x = m
    <3>1. 1 \in 1 .. k + 1
      BY <1>2
    <3> QED BY <1>3, <2>1, <3>1
  <2>2. CASE x # m
    <3>1. x \in P
      BY <2>2
    <3>2. CASE \E i \in 1 .. k : x = rest[i]
      BY <1>7, <3>1, <3>2
    <3>3. CASE \A i \in 1 .. k : rest[i] < x
      <4>1. \A i \in 1 .. k + 1 : ids[i] < x
        <5> TAKE i \in 1 .. k + 1
        <5>1. CASE i = 1
          BY <1>3, <1>4, <3>1, <5>1
        <5>2. CASE i # 1
          <6>1. i \in 2 .. k + 1 /\ i - 1 \in 1 .. k
            BY <1>2, <5>2
          <6> QED BY <1>13, <3>3, <6>1
        <5> QED BY <5>1, <5>2
      <4> QED BY <4>1
    <3> QED BY <1>2, <3>1, <3>2, <3>3
  <2> QED BY <2>1, <2>2
<1>9. k + 1 = Cardinality(O) <=> \A x \in O : \E i \in 1 .. k + 1 : x = ids[i]
  <2>1. k + 1 = Cardinality(O) <=> k = c
    BY <1>1, <1>2
  <2>2. \E i \in 1 .. k + 1 : m = ids[i]
    <3>1. 1 \in 1 .. k + 1
      BY <1>2
    <3> QED BY <1>3, <3>1
  <2>3. (\A x \in O : \E i \in 1 .. k + 1 : x = ids[i])
        <=> \A x \in P : \E i \in 1 .. k + 1 : x = ids[i]
    BY <2>2
  <2> QED BY <1>2, <1>7, <2>1, <2>3
<1>10. k + 1 <= n + 1 /\ k + 1 <= Cardinality(O)
       /\ (k + 1 = n + 1 \/ k + 1 = Cardinality(O))
  BY <1>1, <1>2
<1>14. IsFirst(ids, O, n + 1)
  BY <1>3, <1>5, <1>6, <1>8, <1>9, <1>10 DEF IsFirst
<1> QED BY <1>14 DEF ids

\* A search that goes on behind what it has found finds the first numbers.
LEMMA FirstOnes ==
    ASSUME NEW U \in SUBSET Nat, NEW O \in SUBSET U, IsFiniteSet(O),
           NEW n \in Nat, NEW F,
           \A s \in U : F[0][s] = << >>,
           \A k \in 1 .. n : \A s \in U :
               \/ From(O, s) = {} /\ F[k][s] = << >>
               \/ \E m \in From(O, s) :
                     /\ \A x \in From(O, s) : m <= x
                     /\ m + 1 \in U
                     /\ F[k][s] = <<m>> \o F[k - 1][m + 1]
    PROVE  \A s \in U : IsFirst(F[n][s], From(O, s), n)
<1> DEFINE T == {k \in 0 .. n : \A s \in U : IsFirst(F[k][s], From(O, s), k)}
<1>1. \A s : From(O, s) \in SUBSET O /\ IsFiniteSet(From(O, s))
  <2> TAKE s
  <2>1. From(O, s) \in SUBSET O
    BY DEF From
  <2> QED BY <2>1, FS_Subset
<1>2. 0 \in T
  <2>1. \A s \in U : IsFirst(<< >>, From(O, s), 0)
    BY <1>1, NoneFirst
  <2> QED BY <2>1
<1>3. ASSUME NEW k \in 1 .. n, k - 1 \in T PROVE k \in T
  <2>1. ASSUME NEW s \in U PROVE IsFirst(F[k][s], From(O, s), k)
    <3>1. CASE From(O, s) = {} /\ F[k][s] = << >>
      <4>1. k \in Nat /\ IsFiniteSet(From(O, s))
        BY <1>1
      <4> QED BY <3>1, <4>1, NoneFirst
    <3>2. ASSUME NEW m \in From(O, s), \A x \in From(O, s) : m <= x,
                 m + 1 \in U, F[k][s] = <<m>> \o F[k - 1][m + 1]
          PROVE  IsFirst(F[k][s], From(O, s), k)
      <4>1. From(O, s) \ {m} = From(O, m + 1)
        <5>1. m \in Nat /\ s \in Nat /\ m >= s
          BY DEF From
        <5>2. \A x \in O : x \in Nat
          OBVIOUS
        <5>3. \A x \in O : (x >= s /\ x # m) <=> x >= m + 1
          BY <3>2, <5>1, <5>2 DEF From
        <5> QED BY <5>3 DEF From
      <4>2. IsFirst(F[k - 1][m + 1], From(O, s) \ {m}, k - 1)
        BY <1>3, <3>2, <4>1
      <4>3. From(O, s) \in SUBSET Nat
        BY <1>1
      <4>4. k - 1 \in Nat /\ (k - 1) + 1 = k
        OBVIOUS
      <4>5. IsFirst(<<m>> \o F[k - 1][m + 1], From(O, s), (k - 1) + 1)
        BY <1>1, <3>2, <4>2, <4>3, <4>4, FirstExtends
      <4> QED BY <3>2, <4>4, <4>5
    <3> QED BY <3>1, <3>2
  <2> QED BY <2>1
<1>4. T = 0 .. n
  <2> HIDE DEF T
  <2>1. T \in SUBSET (0 .. n)
    BY DEF T
  <2> QED BY <1>2, <1>3, <2>1, UpTo
<1>5. n \in T
  BY <1>4
<1> QED BY <1>5

\* What an endpoint has of the cluster and the side that are asked for.
AttrIDs(msg) ==
    {a.attrId : a \in {b \in Range(Attributes(msg.endPoint)) :
        b.clusterID = msg.clusterId /\ Direction(b) = msg.hdr.direction}}
CmdIDs(msg) ==
    {c.cmdID : c \in {d \in Range(Commands(msg.endPoint)) :
        d.clusterID = msg.clusterId /\ Bit(d.flag, Wanted(msg))}}

LEMMA NextAttrIs ==
    ASSUME Registered, NEW msg
    PROVE  /\ AttrIDs(msg) \in SUBSET (Word \ {65535})
           /\ \A id \in Word :
                 LET k == zclFindNextAttrRec(msg, id)
                     a == Attributes(msg.endPoint)[k]
                     O == From(AttrIDs(msg), id)
                 IN /\ k = NotFound <=> O = {}
                    /\ k # NotFound =>
                          /\ a \in zclAttrRec_t
                          /\ a.attrId \in O /\ \A x \in O : a.attrId <= x
                          /\ NextAttr(a) = a.attrId + 1
                          /\ a.attrId + 1 \in Word
<1> DEFINE attrs == Attributes(msg.endPoint)
           n == Len(attrs)
           Fits(a) == a.clusterID = msg.clusterId /\ Direction(a) = msg.hdr.direction
<1>1. /\ attrs \in Seq(zclAttrRec_t)
      /\ \A i, j \in DOMAIN attrs :
            i < j /\ attrs[i].clusterID = attrs[j].clusterID
            => attrs[i].attrId <= attrs[j].attrId
  BY AttributesIs
<1> HIDE DEF attrs
<1>2. n \in Nat /\ DOMAIN attrs = 1 .. n
      /\ \A i \in 1 .. n : attrs[i] \in zclAttrRec_t
  BY <1>1
<1>3. \A a \in zclAttrRec_t : a.attrId \in Nat /\ a.attrId < 65535
  <2> TAKE a \in zclAttrRec_t
  <2>1. a.attrId \in Word \ {65535}
    BY DEF zclAttrRec_t
  <2> QED BY <2>1, WordIs
<1> HIDE DEF n
<1>4. AttrIDs(msg) = {attrs[i].attrId : i \in {j \in 1 .. n : Fits(attrs[j])}}
  <2>1. Range(attrs) = {attrs[i] : i \in 1 .. n}
    BY <1>2 DEF Range
  <2>2. AttrIDs(msg) = {a.attrId : a \in {b \in Range(attrs) : Fits(b)}}
    BY DEF AttrIDs, attrs
  <2> HIDE DEF Fits
  <2> QED BY <2>1, <2>2
<1>5. ASSUME NEW id \in Word
      PROVE  LET k == zclFindNextAttrRec(msg, id)
                 O == From(AttrIDs(msg), id)
             IN /\ k = NotFound <=> O = {}
                /\ k # NotFound =>
                      /\ attrs[k] \in zclAttrRec_t
                      /\ attrs[k].attrId \in O /\ \A x \in O : attrs[k].attrId <= x
                      /\ NextAttr(attrs[k]) = attrs[k].attrId + 1
                      /\ attrs[k].attrId + 1 \in Word
  <2> DEFINE J == {i \in 1 .. n : /\ attrs[i].clusterID = msg.clusterId
                                 /\ attrs[i].attrId >= id
                                 /\ Direction(attrs[i]) = msg.hdr.direction}
             k == zclFindNextAttrRec(msg, id)
             O == From(AttrIDs(msg), id)
  <2>1. k = Foremost(J)
    BY DEF zclFindNextAttrRec, SelectInSeq, Foremost, attrs, n
  <2>2. O = {attrs[i].attrId : i \in J}
    BY <1>4 DEF From
  <2>3. /\ Foremost(J) = 0 <=> J = {}
        /\ Foremost(J) # 0 => Foremost(J) \in J /\ \A j \in J : Foremost(J) <= j
    BY <1>2, FirstIs
  <2>7. \A j \in J : j \in 1 .. n /\ attrs[j].clusterID = msg.clusterId
    OBVIOUS
  <2> HIDE DEF J, k, O
  <2>4. k = NotFound <=> O = {}
    BY <2>1, <2>2, <2>3 DEF NotFound
  <2>5. ASSUME k # NotFound
        PROVE  /\ attrs[k] \in zclAttrRec_t
               /\ attrs[k].attrId \in O /\ \A x \in O : attrs[k].attrId <= x
               /\ NextAttr(attrs[k]) = attrs[k].attrId + 1
               /\ attrs[k].attrId + 1 \in Word
    <3>1. k \in J /\ \A j \in J : k <= j
      BY <2>1, <2>3, <2>5 DEF NotFound
    <3>2. attrs[k] \in zclAttrRec_t
      BY <1>2, <2>7, <3>1
    <3>3. \A j \in J : attrs[k].attrId <= attrs[j].attrId
      <4> TAKE j \in J
      <4>1. j \in DOMAIN attrs /\ k \in DOMAIN attrs /\ k <= j
            /\ attrs[k].clusterID = attrs[j].clusterID
        BY <1>2, <2>7, <3>1
      <4>2. CASE k = j
        BY <1>3, <3>2, <4>2
      <4>3. CASE k # j
        <5>1. k < j
          BY <1>2, <4>1, <4>3
        <5> QED BY <1>1, <4>1, <5>1
      <4> QED BY <4>2, <4>3
    <3>4. attrs[k].attrId \in Nat /\ attrs[k].attrId < 65535
      BY <1>3, <3>2
    <3>5. attrs[k].attrId + 1 \in Word
      BY <3>4, WordIs
    <3>6. NextAttr(attrs[k]) = attrs[k].attrId + 1
      BY <3>4 DEF NextAttr
    <3> QED BY <2>2, <3>1, <3>2, <3>3, <3>5, <3>6
  <2> QED BY <2>4, <2>5 DEF k, O
<1>6. AttrIDs(msg) \in SUBSET (Word \ {65535})
  <2>1. \A a \in zclAttrRec_t : a.attrId \in Word \ {65535}
    BY DEF zclAttrRec_t
  <2> QED BY <1>2, <1>4, <2>1
<1> QED BY <1>5, <1>6 DEF attrs

LEMMA NextCmdIs ==
    ASSUME Registered, NEW msg
    PROVE  /\ CmdIDs(msg) \in SUBSET (Byte \ {255})
           /\ \A id \in Byte :
                 LET k == zclFindNextCmdRec(msg, id)
                     c == Commands(msg.endPoint)[k]
                     O == From(CmdIDs(msg), id)
                 IN /\ k = NotFound <=> O = {}
                    /\ k # NotFound =>
                          /\ c \in zclCommandRec_t
                          /\ c.cmdID \in O /\ \A x \in O : c.cmdID <= x
                          /\ NextCmd(c.cmdID) = c.cmdID + 1
                          /\ c.cmdID + 1 \in Byte
<1> DEFINE cmds == Commands(msg.endPoint)
           n == Len(cmds)
           wanted == Wanted(msg)
           Fits(c) == c.clusterID = msg.clusterId /\ Bit(c.flag, wanted)
<1>1. /\ cmds \in Seq(zclCommandRec_t)
      /\ \A i, j \in DOMAIN cmds :
            i < j /\ cmds[i].clusterID = cmds[j].clusterID
            => cmds[i].cmdID <= cmds[j].cmdID
  BY CommandsIs
<1> HIDE DEF cmds, wanted
<1>2. n \in Nat /\ DOMAIN cmds = 1 .. n
      /\ \A i \in 1 .. n : cmds[i] \in zclCommandRec_t
  BY <1>1
<1>3. \A c \in zclCommandRec_t : c.cmdID \in Nat /\ c.cmdID < 255
  <2> TAKE c \in zclCommandRec_t
  <2>1. c.cmdID \in Byte \ {255}
    BY DEF zclCommandRec_t
  <2> QED BY <2>1, ByteIs
<1> HIDE DEF n
<1>4. CmdIDs(msg) = {cmds[i].cmdID : i \in {j \in 1 .. n : Fits(cmds[j])}}
  <2>1. Range(cmds) = {cmds[i] : i \in 1 .. n}
    BY <1>2 DEF Range
  <2>2. CmdIDs(msg) = {c.cmdID : c \in {d \in Range(cmds) : Fits(d)}}
    BY DEF CmdIDs, cmds, wanted
  <2> HIDE DEF Fits
  <2> QED BY <2>1, <2>2
<1>5. ASSUME NEW id \in Byte
      PROVE  LET k == zclFindNextCmdRec(msg, id)
                 O == From(CmdIDs(msg), id)
             IN /\ k = NotFound <=> O = {}
                /\ k # NotFound =>
                      /\ cmds[k] \in zclCommandRec_t
                      /\ cmds[k].cmdID \in O /\ \A x \in O : cmds[k].cmdID <= x
                      /\ NextCmd(cmds[k].cmdID) = cmds[k].cmdID + 1
                      /\ cmds[k].cmdID + 1 \in Byte
  <2> DEFINE J == {i \in 1 .. n : /\ cmds[i].clusterID = msg.clusterId
                                 /\ cmds[i].cmdID >= id
                                 /\ Bit(cmds[i].flag, wanted)}
             k == zclFindNextCmdRec(msg, id)
             O == From(CmdIDs(msg), id)
  <2>1. k = Foremost(J)
    BY DEF zclFindNextCmdRec, SelectInSeq, Foremost, cmds, n, wanted
  <2>2. O = {cmds[i].cmdID : i \in J}
    BY <1>4 DEF From
  <2>3. /\ Foremost(J) = 0 <=> J = {}
        /\ Foremost(J) # 0 => Foremost(J) \in J /\ \A j \in J : Foremost(J) <= j
    BY <1>2, FirstIs
  <2>7. \A j \in J : j \in 1 .. n /\ cmds[j].clusterID = msg.clusterId
    OBVIOUS
  <2> HIDE DEF J, k, O
  <2>4. k = NotFound <=> O = {}
    BY <2>1, <2>2, <2>3 DEF NotFound
  <2>5. ASSUME k # NotFound
        PROVE  /\ cmds[k] \in zclCommandRec_t
               /\ cmds[k].cmdID \in O /\ \A x \in O : cmds[k].cmdID <= x
               /\ NextCmd(cmds[k].cmdID) = cmds[k].cmdID + 1
               /\ cmds[k].cmdID + 1 \in Byte
    <3>1. k \in J /\ \A j \in J : k <= j
      BY <2>1, <2>3, <2>5 DEF NotFound
    <3>2. cmds[k] \in zclCommandRec_t
      BY <1>2, <2>7, <3>1
    <3>3. \A j \in J : cmds[k].cmdID <= cmds[j].cmdID
      <4> TAKE j \in J
      <4>1. j \in DOMAIN cmds /\ k \in DOMAIN cmds /\ k <= j
            /\ cmds[k].clusterID = cmds[j].clusterID
        BY <1>2, <2>7, <3>1
      <4>2. CASE k = j
        BY <1>3, <3>2, <4>2
      <4>3. CASE k # j
        <5>1. k < j
          BY <1>2, <4>1, <4>3
        <5> QED BY <1>1, <4>1, <5>1
      <4> QED BY <4>2, <4>3
    <3>4. cmds[k].cmdID \in Nat /\ cmds[k].cmdID < 255
      BY <1>3, <3>2
    <3>5. cmds[k].cmdID + 1 \in Byte
      BY <3>4, ByteIs
    <3>6. NextCmd(cmds[k].cmdID) = cmds[k].cmdID + 1
      BY <3>4 DEF NextCmd
    <3> QED BY <2>2, <3>1, <3>2, <3>3, <3>5, <3>6
  <2> QED BY <2>4, <2>5 DEF k, O
<1>6. CmdIDs(msg) \in SUBSET (Byte \ {255})
  <2>1. \A c \in zclCommandRec_t : c.cmdID \in Byte \ {255}
    BY DEF zclCommandRec_t
  <2> QED BY <1>2, <1>4, <2>1
<1> QED BY <1>5, <1>6 DEF cmds

\* A sequence with one more in front.
LEMMA Prepended ==
    ASSUME NEW S, NEW x \in S, NEW rest \in Seq(S)
    PROVE  LET all == <<x>> \o rest
           IN /\ all \in Seq(S) /\ Len(all) = Len(rest) + 1
              /\ all[1] = x /\ \A i \in 1 .. Len(rest) : all[i + 1] = rest[i]
<1> DEFINE n == Len(rest)
           one == <<x>>
<1>1. one \in Seq(S) /\ Len(one) = 1 /\ one[1] = x /\ n \in Nat
  OBVIOUS
<1> HIDE DEF one
<1>2. PICK all : all = one \o rest
  OBVIOUS
<1>3. /\ all \in Seq(S) /\ Len(all) = 1 + n
      /\ \A i \in 1 .. 1 + n : all[i] = IF i <= 1 THEN one[i] ELSE rest[i - 1]
  <2>1. /\ one \o rest \in Seq(S) /\ Len(one \o rest) = Len(one) + Len(rest)
        /\ \A i \in 1 .. Len(one) + Len(rest) : (one \o rest)[i] =
               IF i <= Len(one) THEN one[i] ELSE rest[i - Len(one)]
    BY <1>1, ConcatProperties
  <2> QED BY <1>1, <1>2, <2>1
<1> HIDE DEF n
<1>4. Len(all) = n + 1 /\ 1 \in 1 .. 1 + n
  BY <1>1, <1>3
<1>5. ASSUME NEW i \in 1 .. n PROVE all[i + 1] = rest[i]
  <2>1. i + 1 \in 1 .. 1 + n /\ ~(i + 1 <= 1) /\ (i + 1) - 1 = i
    BY <1>1
  <2> QED BY <1>3, <2>1
<1> QED BY <1>1, <1>2, <1>3, <1>4, <1>5 DEF one, n

AttrNumbers(found) == [k \in DOMAIN found |-> found[k].attrId]
LEMMA NumbersBehind ==
    ASSUME NEW a \in zclAttrRec_t, NEW rest \in Seq(zclAttrRec_t)
    PROVE  AttrNumbers(<<a>> \o rest) = <<a.attrId>> \o AttrNumbers(rest)
<1> DEFINE all == <<a>> \o rest
           n == Len(rest)
           ids == AttrNumbers(rest)
           y == <<a.attrId>> \o ids
<1>1. \A b \in zclAttrRec_t : b.attrId \in Nat
  <2> TAKE b \in zclAttrRec_t
  <2>1. b.attrId \in Word
    BY DEF zclAttrRec_t
  <2> QED BY <2>1, WordIs
<1>2. n \in Nat /\ DOMAIN rest = 1 .. n /\ \A i \in 1 .. n : rest[i] \in zclAttrRec_t
  OBVIOUS
<1>3. /\ all \in Seq(zclAttrRec_t) /\ Len(all) = n + 1 /\ all[1] = a
      /\ \A i \in 1 .. n : all[i + 1] = rest[i]
  BY Prepended
<1>4. ids \in Seq(Nat) /\ Len(ids) = n /\ \A i \in 1 .. n : ids[i] = rest[i].attrId
  <2>1. ids = [k \in 1 .. n |-> rest[k].attrId]
    BY <1>2 DEF AttrNumbers
  <2> HIDE DEF n, ids
  <2>2. \A i \in 1 .. n : rest[i].attrId \in Nat
    BY <1>1, <1>2
  <2>3. n \in Nat
    BY <1>2
  <2> DEFINE f(k) == rest[k].attrId
  <2>4. \A i \in 1 .. n : f(i) \in Nat
    BY <2>2
  <2>5. ids = [k \in 1 .. n |-> f(k)]
    BY <2>1
  <2> HIDE DEF f
  <2>6. ids \in Seq(Nat) /\ Len(ids) = n /\ \A i \in 1 .. n : ids[i] = f(i)
    BY <2>3, <2>4, <2>5
  <2> QED BY <2>6 DEF f
<1> HIDE DEF ids
<1>5. /\ y[1] = a.attrId /\ \A i \in 1 .. n : y[i + 1] = ids[i]
      /\ y = [i \in 1 .. n + 1 |-> y[i]]
  <2>1. a.attrId \in Nat
    BY <1>1
  <2>2. /\ y \in Seq(Nat) /\ Len(y) = Len(ids) + 1
        /\ y[1] = a.attrId /\ \A i \in 1 .. Len(ids) : y[i + 1] = ids[i]
    BY <1>4, <2>1, Prepended
  <2> HIDE DEF y, n
  <2>3. y = [i \in 1 .. n + 1 |-> y[i]]
    BY <1>4, <2>2
  <2> QED BY <1>4, <2>2, <2>3
<1>6. DOMAIN all = 1 .. n + 1
  <2> HIDE DEF all, n
  <2> QED BY <1>3
<1> HIDE DEF all, n, y
<1>7. ASSUME NEW i \in 1 .. n + 1 PROVE all[i].attrId = y[i]
  <2>1. CASE i = 1
    BY <1>3, <1>5, <2>1
  <2>2. CASE i # 1
    <3>1. i - 1 \in 1 .. n /\ (i - 1) + 1 = i
      BY <1>2, <2>2
    <3>2. all[i] = rest[i - 1] /\ y[i] = ids[i - 1]
      BY <1>3, <1>5, <3>1
    <3> QED BY <1>4, <3>1, <3>2
  <2> QED BY <2>1, <2>2
<1>8. AttrNumbers(all) = [i \in 1 .. n + 1 |-> all[i].attrId]
  BY <1>6 DEF AttrNumbers
<1> QED BY <1>5, <1>7, <1>8 DEF all, ids, y

LEMMA AttrsFound ==
    ASSUME Registered, NEW msg,
           msg.attrCmd \in [startAttr : Word, maxAttrIDs : Byte]
    PROVE  LET found == zclProcessInDiscAttrs(msg)
           IN /\ found \in Seq(zclAttrRec_t)
              /\ IsFirst(AttrNumbers(found),
                         From(AttrIDs(msg), msg.attrCmd.startAttr),
                         msg.attrCmd.maxAttrIDs)
<1> DEFINE attrs == Attributes(msg.endPoint)
           n == msg.attrCmd.maxAttrIDs
           S == [Word -> Seq(zclAttrRec_t)]
           Row(k, x) ==
               [id \in Word |->
                   LET j == zclFindNextAttrRec(msg, id)
                   IN IF k = 0 \/ j = NotFound THEN << >>
                      ELSE <<attrs[j]>> \o x[NextAttr(attrs[j])]]
           Is(f) == f = [k \in 0 .. n |-> Row(k, f[k - 1])]
           base == [id \in Word |-> << >>]
           step == [k \in 1 .. n |-> [x \in S |-> Row(k, x)]]
           found == CHOOSE f : Is(f)
           O == AttrIDs(msg)
<1>1. n \in Nat /\ msg.attrCmd.startAttr \in Word
  <2>1. n \in Byte
    OBVIOUS
  <2> QED BY <2>1, ByteIs
<1>2. /\ O \in SUBSET (Word \ {65535})
      /\ \A id \in Word :
            LET j == zclFindNextAttrRec(msg, id)
            IN /\ j = NotFound <=> From(O, id) = {}
               /\ j # NotFound =>
                     /\ attrs[j] \in zclAttrRec_t
                     /\ attrs[j].attrId \in From(O, id)
                     /\ \A x \in From(O, id) : attrs[j].attrId <= x
                     /\ NextAttr(attrs[j]) = attrs[j].attrId + 1
                     /\ attrs[j].attrId + 1 \in Word
  BY NextAttrIs
<1> HIDE DEF attrs, O
<1>3. ASSUME NEW k, NEW x \in S PROVE Row(k, x) \in S
  <2>1. ASSUME NEW id \in Word, NEW j, j = zclFindNextAttrRec(msg, id)
        PROVE  (IF k = 0 \/ j = NotFound THEN << >>
                ELSE <<attrs[j]>> \o x[NextAttr(attrs[j])]) \in Seq(zclAttrRec_t)
    <3> DEFINE R == zclAttrRec_t
    <3>1. CASE k = 0 \/ j = NotFound
      <4>1. << >> \in Seq(R)
        OBVIOUS
      <4> QED BY <3>1, <4>1
    <3>2. CASE ~(k = 0 \/ j = NotFound)
      <4>1. attrs[j] \in R /\ NextAttr(attrs[j]) \in Word
        BY <1>2, <2>1, <3>2
      <4>2. x[NextAttr(attrs[j])] \in Seq(R)
        BY <4>1
      <4> HIDE DEF R
      <4>3. <<attrs[j]>> \in Seq(R)
        BY <4>1
      <4>4. <<attrs[j]>> \o x[NextAttr(attrs[j])] \in Seq(R)
        BY <4>2, <4>3, ConcatProperties
      <4> QED BY <3>2, <4>4 DEF R
    <3> QED BY <3>1, <3>2
  <2> QED BY <2>1
<1>4. base \in S
  <2>1. << >> \in Seq(zclAttrRec_t)
    OBVIOUS
  <2> QED BY <2>1
<1>5. zclProcessInDiscAttrs(msg) = found[n][msg.attrCmd.startAttr]
  BY DEF zclProcessInDiscAttrs, attrs
<1>6. \A x : Row(0, x) = base
  OBVIOUS
<1> HIDE DEF n, S, Row, base
<1>7. step \in [1 .. n -> [S -> S]]
  BY <1>3
<1>8. \E f : Is(f)
  <2>1. PICK f : IsRun(f, S, base, n, step)
    <3> HIDE DEF step
    <3> QED BY <1>1, <1>4, <1>7, LoopRuns
  <2>2. ASSUME NEW k \in 0 .. n PROVE f[k] = Row(k, f[k - 1])
    <3>1. CASE k = 0
      BY <1>6, <2>1, <3>1 DEF IsRun
    <3>2. CASE k # 0
      <4>1. k \in 1 .. n /\ k - 1 \in 0 .. n
        BY <1>1, <3>2
      <4>2. f[k - 1] \in S /\ f[k] = step[k][f[k - 1]]
        BY <2>1, <4>1 DEF IsRun
      <4> QED BY <4>1, <4>2
    <3> QED BY <3>1, <3>2
  <2>3. f = [k \in 0 .. n |-> f[k]]
    BY <2>1 DEF IsRun
  <2> QED BY <2>2, <2>3
<1>9. Is(found)
  BY <1>8
<1> HIDE DEF found
<1>10. \A k \in 0 .. n : found[k] = Row(k, found[k - 1])
  BY <1>9
<1>11. \A k \in 0 .. n : found[k] \in S
  <2>1. found[0] \in S
    <3>1. 0 \in 0 .. n
      BY <1>1
    <3> QED BY <1>4, <1>6, <1>10, <3>1
  <2>2. \A k \in 1 .. n : found[k - 1] \in S => found[k] \in S
    <3> TAKE k \in 1 .. n
    <3>1. k \in 0 .. n
      BY <1>1
    <3> QED BY <1>3, <1>10, <3>1
  <2> QED BY <1>1, <2>1, <2>2, Stays
<1> DEFINE F == [k \in 0 .. n |-> [s \in Word |-> AttrNumbers(found[k][s])]]
<1>12. \A s \in Word : F[0][s] = << >>
  <2> TAKE s \in Word
  <2>1. 0 \in 0 .. n
    BY <1>1
  <2>2. found[0][s] = << >>
    BY <1>6, <1>10, <2>1 DEF base
  <2>3. AttrNumbers(<< >>) = << >>
    BY DEF AttrNumbers
  <2> QED BY <2>1, <2>2, <2>3
<1>13. ASSUME NEW k \in 1 .. n, NEW s \in Word
       PROVE  \/ From(O, s) = {} /\ F[k][s] = << >>
              \/ \E m \in From(O, s) :
                    /\ \A x \in From(O, s) : m <= x
                    /\ m + 1 \in Word
                    /\ F[k][s] = <<m>> \o F[k - 1][m + 1]
  <2> DEFINE j == zclFindNextAttrRec(msg, s)
  <2>1. k \in 0 .. n /\ k - 1 \in 0 .. n /\ k # 0
    BY <1>1
  <2>2. found[k][s] = IF j = NotFound THEN << >>
                      ELSE <<attrs[j]>> \o found[k - 1][NextAttr(attrs[j])]
    BY <1>10, <2>1 DEF Row
  <2>3. /\ j = NotFound <=> From(O, s) = {}
        /\ j # NotFound =>
              /\ attrs[j] \in zclAttrRec_t
              /\ attrs[j].attrId \in From(O, s)
              /\ \A x \in From(O, s) : attrs[j].attrId <= x
              /\ NextAttr(attrs[j]) = attrs[j].attrId + 1
              /\ attrs[j].attrId + 1 \in Word
    BY <1>2
  <2> HIDE DEF j
  <2>4. F[k][s] = AttrNumbers(found[k][s])
    BY <2>1
  <2>5. CASE j = NotFound
    <3>1. AttrNumbers(<< >>) = << >>
      BY DEF AttrNumbers
    <3> QED BY <2>2, <2>3, <2>4, <2>5, <3>1
  <2>6. CASE j # NotFound
    <3> DEFINE m == attrs[j].attrId
               rest == found[k - 1][m + 1]
    <3>1. m + 1 \in Word /\ attrs[j] \in zclAttrRec_t
      BY <2>3, <2>6
    <3>2. rest \in Seq(zclAttrRec_t)
      BY <1>11, <2>1, <3>1 DEF S
    <3>3. found[k][s] = <<attrs[j]>> \o rest
      BY <2>2, <2>3, <2>6
    <3>4. F[k - 1][m + 1] = AttrNumbers(rest)
      BY <2>1, <3>1
    <3> HIDE DEF F, rest
    <3>5. AttrNumbers(<<attrs[j]>> \o rest) = <<m>> \o AttrNumbers(rest)
      BY <3>1, <3>2, NumbersBehind
    <3>6. F[k][s] = <<m>> \o F[k - 1][m + 1]
      BY <2>4, <3>3, <3>4, <3>5
    <3> QED BY <2>3, <2>6, <3>6
  <2> QED BY <2>5, <2>6
<1>14. Word \in SUBSET Nat /\ O \in SUBSET Word /\ IsFiniteSet(O)
  <2>1. O \in SUBSET Nat /\ \A x \in O : x <= 65535
    BY <1>2, WordIs
  <2>2. IsFiniteSet(O)
    BY <2>1, FS_BoundedSetOfNaturals
  <2> QED BY <1>2, <2>2, WordIs
<1> HIDE DEF F
<1>15. \A s \in Word : IsFirst(F[n][s], From(O, s), n)
  BY <1>1, <1>12, <1>13, <1>14, FirstOnes
<1>16. n \in 0 .. n
  BY <1>1
<1>17. found[n][msg.attrCmd.startAttr] \in Seq(zclAttrRec_t)
  BY <1>1, <1>11, <1>16 DEF S
<1>18. F[n][msg.attrCmd.startAttr] = AttrNumbers(found[n][msg.attrCmd.startAttr])
  BY <1>1, <1>16 DEF F
<1> QED BY <1>1, <1>5, <1>15, <1>17, <1>18 DEF n, O

\* The numbers of the commands a search finds.
CmdsFound(msg) ==
    LET cmds == Commands(msg.endPoint)
        found[n \in 0 .. msg.attrCmd.maxCmdID] ==
            [id \in Byte |->
                LET k == zclFindNextCmdRec(msg, id)
                IN IF n = 0 \/ k = NotFound THEN << >>
                   ELSE <<cmds[k].cmdID>> \o found[n - 1][NextCmd(cmds[k].cmdID)]]
    IN found[msg.attrCmd.maxCmdID][msg.attrCmd.startCmdID]
LEMMA CmdsFoundIs ==
    ASSUME Registered, NEW msg,
           msg.attrCmd \in [startCmdID : Byte, maxCmdID : Byte]
    PROVE  IsFirst(CmdsFound(msg), From(CmdIDs(msg), msg.attrCmd.startCmdID),
                   msg.attrCmd.maxCmdID)
<1> DEFINE cmds == Commands(msg.endPoint)
           n == msg.attrCmd.maxCmdID
           S == [Byte -> Seq(Nat)]
           Row(k, x) ==
               [id \in Byte |->
                   LET j == zclFindNextCmdRec(msg, id)
                   IN IF k = 0 \/ j = NotFound THEN << >>
                      ELSE <<cmds[j].cmdID>> \o x[NextCmd(cmds[j].cmdID)]]
           Is(f) == f = [k \in 0 .. n |-> Row(k, f[k - 1])]
           base == [id \in Byte |-> << >>]
           step == [k \in 1 .. n |-> [x \in S |-> Row(k, x)]]
           found == CHOOSE f : Is(f)
           O == CmdIDs(msg)
<1>1. n \in Nat /\ msg.attrCmd.startCmdID \in Byte
  <2>1. n \in Byte
    OBVIOUS
  <2> QED BY <2>1, ByteIs
<1>2. /\ O \in SUBSET (Byte \ {255})
      /\ \A id \in Byte :
            LET j == zclFindNextCmdRec(msg, id)
            IN /\ j = NotFound <=> From(O, id) = {}
               /\ j # NotFound =>
                     /\ cmds[j].cmdID \in From(O, id)
                     /\ \A x \in From(O, id) : cmds[j].cmdID <= x
                     /\ NextCmd(cmds[j].cmdID) = cmds[j].cmdID + 1
                     /\ cmds[j].cmdID + 1 \in Byte
  BY NextCmdIs
<1> HIDE DEF cmds, O
<1>14. Byte \in SUBSET Nat /\ O \in SUBSET Byte /\ IsFiniteSet(O)
  <2>1. O \in SUBSET Nat /\ \A x \in O : x <= 255
    BY <1>2, ByteIs
  <2>2. IsFiniteSet(O)
    BY <2>1, FS_BoundedSetOfNaturals
  <2> QED BY <1>2, <2>2, ByteIs
<1>3. ASSUME NEW k, NEW x \in S PROVE Row(k, x) \in S
  <2>1. ASSUME NEW id \in Byte, NEW j, j = zclFindNextCmdRec(msg, id)
        PROVE  (IF k = 0 \/ j = NotFound THEN << >>
                ELSE <<cmds[j].cmdID>> \o x[NextCmd(cmds[j].cmdID)]) \in Seq(Nat)
    <3>1. CASE k = 0 \/ j = NotFound
      <4>1. << >> \in Seq(Nat)
        OBVIOUS
      <4> QED BY <3>1, <4>1
    <3>2. CASE ~(k = 0 \/ j = NotFound)
      <4>1. cmds[j].cmdID \in From(O, id) /\ NextCmd(cmds[j].cmdID) \in Byte
        BY <1>2, <2>1, <3>2
      <4>2. x[NextCmd(cmds[j].cmdID)] \in Seq(Nat)
        BY <4>1
      <4>3. cmds[j].cmdID \in Nat
        BY <1>14, <4>1 DEF From
      <4>4. <<cmds[j].cmdID>> \in Seq(Nat)
        BY <4>3
      <4>5. <<cmds[j].cmdID>> \o x[NextCmd(cmds[j].cmdID)] \in Seq(Nat)
        BY <4>2, <4>4, ConcatProperties
      <4> QED BY <3>2, <4>5
    <3> QED BY <3>1, <3>2
  <2> QED BY <2>1
<1>4. base \in S
  <2>1. << >> \in Seq(Nat)
    OBVIOUS
  <2> QED BY <2>1
<1>5. CmdsFound(msg) = found[n][msg.attrCmd.startCmdID]
  BY DEF CmdsFound, cmds
<1>6. \A x : Row(0, x) = base
  OBVIOUS
<1> HIDE DEF n, S, Row, base
<1>7. step \in [1 .. n -> [S -> S]]
  BY <1>3
<1>8. \E f : Is(f)
  <2>1. PICK f : IsRun(f, S, base, n, step)
    <3> HIDE DEF step
    <3> QED BY <1>1, <1>4, <1>7, LoopRuns
  <2>2. ASSUME NEW k \in 0 .. n PROVE f[k] = Row(k, f[k - 1])
    <3>1. CASE k = 0
      BY <1>6, <2>1, <3>1 DEF IsRun
    <3>2. CASE k # 0
      <4>1. k \in 1 .. n /\ k - 1 \in 0 .. n
        BY <1>1, <3>2
      <4>2. f[k - 1] \in S /\ f[k] = step[k][f[k - 1]]
        BY <2>1, <4>1 DEF IsRun
      <4> QED BY <4>1, <4>2
    <3> QED BY <3>1, <3>2
  <2>3. f = [k \in 0 .. n |-> f[k]]
    BY <2>1 DEF IsRun
  <2> QED BY <2>2, <2>3
<1>9. Is(found)
  BY <1>8
<1> HIDE DEF found
<1>10. \A k \in 0 .. n : found[k] = Row(k, found[k - 1])
  BY <1>9
<1>12. \A s \in Byte : found[0][s] = << >>
  <2> TAKE s \in Byte
  <2>1. 0 \in 0 .. n
    BY <1>1
  <2> QED BY <1>6, <1>10, <2>1 DEF base
<1>13. ASSUME NEW k \in 1 .. n, NEW s \in Byte
       PROVE  \/ From(O, s) = {} /\ found[k][s] = << >>
              \/ \E m \in From(O, s) :
                    /\ \A x \in From(O, s) : m <= x
                    /\ m + 1 \in Byte
                    /\ found[k][s] = <<m>> \o found[k - 1][m + 1]
  <2> DEFINE j == zclFindNextCmdRec(msg, s)
  <2>1. k \in 0 .. n /\ k # 0
    BY <1>1
  <2>2. found[k][s] = IF j = NotFound THEN << >>
                      ELSE <<cmds[j].cmdID>> \o found[k - 1][NextCmd(cmds[j].cmdID)]
    BY <1>10, <2>1 DEF Row
  <2>3. /\ j = NotFound <=> From(O, s) = {}
        /\ j # NotFound =>
              /\ cmds[j].cmdID \in From(O, s)
              /\ \A x \in From(O, s) : cmds[j].cmdID <= x
              /\ NextCmd(cmds[j].cmdID) = cmds[j].cmdID + 1
              /\ cmds[j].cmdID + 1 \in Byte
    BY <1>2
  <2> HIDE DEF j
  <2>5. CASE j = NotFound
    BY <2>2, <2>3, <2>5
  <2>6. CASE j # NotFound
    BY <2>2, <2>3, <2>6
  <2> QED BY <2>5, <2>6
<1>15. \A s \in Byte : IsFirst(found[n][s], From(O, s), n)
  BY <1>1, <1>12, <1>13, <1>14, FirstOnes
<1> QED BY <1>1, <1>5, <1>15 DEF n, O

\* Whether a search is complete: when nothing is left behind what it has found.
LEMMA NoneLeft ==
    ASSUME NEW O \in SUBSET Nat, IsFiniteSet(O), NEW s \in Nat, NEW n \in Nat,
           NEW ids, IsFirst(ids, From(O, s), n), ids # << >>
    PROVE  /\ ids[Len(ids)] \in From(O, s)
           /\ From(O, ids[Len(ids)] + 1) = {} <=> Len(ids) = Cardinality(From(O, s))
<1> DEFINE P == From(O, s)
           k == Len(ids)
           last == ids[k]
<1>1. /\ ids \in Seq(Nat) /\ \A i \in 1 .. k : ids[i] \in P
      /\ \A i \in 2 .. k : ids[i - 1] < ids[i]
      /\ \A x \in P : \/ \E i \in 1 .. k : x = ids[i]
                      \/ \A i \in 1 .. k : ids[i] < x
      /\ k = Cardinality(P) <=> \A x \in P : \E i \in 1 .. k : x = ids[i]
  BY DEF IsFirst
<1>2. k \in Nat /\ k # 0
  BY <1>1
<1>3. k \in 1 .. k
  BY <1>2
<1>4. last \in P
  BY <1>1, <1>3
<1>5. \A x \in P : x \in Nat /\ x >= s
  BY DEF From
<1>6. \A i \in 1 .. k : ids[i] <= last
  <2> DEFINE T == {i \in 0 .. k - 1 : ids[k - i] <= last}
  <2>1. 0 \in T
    <3>1. k - 0 = k /\ 0 \in 0 .. k - 1
      BY <1>2
    <3>2. ids[k - 0] <= last
      BY <1>4, <1>5, <3>1
    <3> QED BY <3>1, <3>2
  <2>2. ASSUME NEW i \in 1 .. k - 1, i - 1 \in T PROVE i \in T
    <3>1. k - i \in 1 .. k /\ k - (i - 1) \in 2 .. k /\ (k - (i - 1)) - 1 = k - i
          /\ k - (i - 1) \in 1 .. k
      BY <1>2
    <3>2. ids[k - i] < ids[k - (i - 1)]
      BY <1>1, <3>1
    <3>3. ids[k - i] \in Nat /\ ids[k - (i - 1)] \in Nat /\ last \in Nat
      BY <1>1, <1>4, <1>5, <3>1
    <3>4. ids[k - (i - 1)] <= last
      BY <2>2
    <3>5. ids[k - i] <= last
      BY <3>2, <3>3, <3>4
    <3>6. i \in 0 .. k - 1
      BY <1>2
    <3> QED BY <3>5, <3>6
  <2>3. T = 0 .. k - 1
    <3> HIDE DEF T, k
    <3>1. T \in SUBSET (0 .. k - 1) /\ k - 1 \in Nat
      BY <1>2 DEF T
    <3> QED BY <2>1, <2>2, <3>1, UpTo
  <2> TAKE i \in 1 .. k
  <2>4. k - i \in 0 .. k - 1 /\ k - (k - i) = i
    BY <1>2
  <2>5. k - i \in T
    BY <2>3, <2>4
  <2>6. ids[k - (k - i)] <= last
    BY <2>5
  <2> QED BY <2>4, <2>6
<1>7. From(O, last + 1) = {x \in P : x > last}
  <2>1. last \in Nat /\ last >= s
    BY <1>4, <1>5
  <2>2. \A x \in O : x \in Nat
    OBVIOUS
  <2>3. \A x \in O : x >= last + 1 <=> (x >= s /\ x > last)
    BY <2>1, <2>2
  <2> QED BY <2>3 DEF From
<1>8. \A x \in P : x > last <=> ~ \E i \in 1 .. k : x = ids[i]
  <2> TAKE x \in P
  <2>1. CASE \E i \in 1 .. k : x = ids[i]
    <3>1. x <= last
      BY <1>6, <2>1
    <3> QED BY <1>4, <1>5, <2>1, <3>1
  <2>2. CASE ~ \E i \in 1 .. k : x = ids[i]
    <3>1. last < x
      BY <1>1, <1>3, <2>2
    <3> QED BY <1>4, <1>5, <2>2, <3>1
  <2> QED BY <2>1, <2>2
<1>9. From(O, last + 1) = {} <=> \A x \in P : \E i \in 1 .. k : x = ids[i]
  BY <1>7, <1>8
<1> QED BY <1>1, <1>4, <1>9

\* The request as its receiver has parsed it.
Asks(msg) ==
    /\ msg.endPoint = asked.to.dst /\ msg.clusterId = asked.to.clusterId
    /\ msg.hdr = asked.hdr /\ msg.attrCmd = asked.c

LEMMA ExactIs ==
    ASSUME NEW rsp, IsFiniteSet(Offered), Most \in Nat,
           Most > 0 /\ (OfAttributes \/ Offered # {}) =>
              /\ IsFirst(IDs(rsp), Offered, Most)
              /\ rsp.discComplete = Flag(Len(IDs(rsp)) = Cardinality(Offered))
    PROVE  Exact(rsp)
<1> DEFINE ids == IDs(rsp)
           c == Cardinality(Offered)
           n == Min({Most, c})
<1>1. c \in Nat /\ (c = 0 <=> Offered = {})
  BY FS_CardinalityType, FS_EmptySet
<1>2. n \in {Most, c} /\ n <= Most /\ n <= c
  <2> HIDE DEF c
  <2>1. n \in {Most, c} /\ \A x \in {Most, c} : n <= x
    <3>1. {Most, c} \in SUBSET Nat /\ {Most, c} # {}
      BY <1>1
    <3>2. \E m \in {Most, c} : \A x \in {Most, c} : m <= x
      BY <3>1, LeastOf
    <3> QED BY <3>2 DEF Min
  <2> QED BY <2>1
<1>3. SUFFICES ASSUME Most > 0, OfAttributes \/ n > 0
               PROVE  /\ Len(ids) = n /\ Range(ids) \subseteq Offered
                      /\ \A k \in 2 .. n : ids[k - 1] < ids[k]
                      /\ \A id \in Offered \ Range(ids) : n > 0 => ids[n] < id
                      /\ rsp.discComplete = Flag(n = c)
  BY DEF Exact
<1> HIDE DEF n
<1>4. n > 0 => Offered # {}
  BY <1>1, <1>2
<1>5. IsFirst(ids, Offered, Most) /\ rsp.discComplete = Flag(Len(ids) = c)
  BY <1>3, <1>4
<1> HIDE DEF ids, c
<1>6. /\ ids \in Seq(Nat) /\ Len(ids) \in Nat /\ Len(ids) <= Most /\ Len(ids) <= c
      /\ (Len(ids) = Most \/ Len(ids) = c)
      /\ \A i \in 1 .. Len(ids) : ids[i] \in Offered
      /\ \A i \in 2 .. Len(ids) : ids[i - 1] < ids[i]
      /\ \A x \in Offered : \/ \E i \in 1 .. Len(ids) : x = ids[i]
                            \/ \A i \in 1 .. Len(ids) : ids[i] < x
  BY <1>5 DEF IsFirst, c
<1>7. Len(ids) = n
  BY <1>1, <1>2, <1>6
<1>8. Range(ids) = {ids[i] : i \in 1 .. n}
  <2>1. DOMAIN ids = 1 .. n
    BY <1>6, <1>7
  <2> QED BY <2>1 DEF Range
<1>9. \A id \in Offered \ Range(ids) : n > 0 => ids[n] < id
  <2> TAKE id \in Offered \ Range(ids)
  <2>1. \A i \in 1 .. n : ids[i] < id
    BY <1>6, <1>7, <1>8
  <2>2. n > 0 => n \in 1 .. n
    BY <1>1, <1>2
  <2> QED BY <2>1, <2>2
<1>10. Range(ids) \subseteq Offered
  BY <1>6, <1>7, <1>8
<1>11. \A k \in 2 .. n : ids[k - 1] < ids[k]
  BY <1>6, <1>7
<1>12. rsp.discComplete = Flag(n = c)
  BY <1>5, <1>7
<1> QED BY <1>7, <1>9, <1>10, <1>11, <1>12

LEMMA AttrsComplete ==
    ASSUME Registered, NEW msg,
           msg.attrCmd \in [startAttr : Word, maxAttrIDs : Byte],
           msg.attrCmd.maxAttrIDs > 0
    PROVE  LET found == zclProcessInDiscAttrs(msg)
           IN DiscComplete(msg, found) =
                 Flag(Len(AttrNumbers(found)) =
                      Cardinality(From(AttrIDs(msg), msg.attrCmd.startAttr)))
<1> DEFINE found == zclProcessInDiscAttrs(msg)
           ids == AttrNumbers(found)
           O == AttrIDs(msg)
           s == msg.attrCmd.startAttr
           max == msg.attrCmd.maxAttrIDs
           P == From(O, s)
<1>1. found \in Seq(zclAttrRec_t) /\ IsFirst(ids, P, max)
  BY AttrsFound
<1>2. s \in Word /\ s \in Nat /\ max \in Nat /\ max > 0
  <2>1. s \in Word /\ max \in Byte
    OBVIOUS
  <2> QED BY <2>1, WordIs, ByteIs
<1>3. O \in SUBSET Nat /\ IsFiniteSet(O)
  <2>1. O \in SUBSET (Word \ {65535})
    BY NextAttrIs
  <2>2. O \in SUBSET Nat /\ \A x \in O : x <= 65535
    BY <2>1, WordIs
  <2> HIDE DEF O
  <2> QED BY <2>2, FS_BoundedSetOfNaturals
<1> HIDE DEF found, ids, s, max
<1>5. /\ ids \in Seq(Nat) /\ Len(ids) = Len(found) /\ Len(ids) \in Nat
      /\ \A i \in 1 .. Len(found) : ids[i] = found[i].attrId
      /\ DOMAIN found = 1 .. Len(found)
  <2>1. DOMAIN found = 1 .. Len(found) /\ Len(found) \in Nat
    BY <1>1
  <2>2. ids = [k \in 1 .. Len(found) |-> found[k].attrId]
    BY <2>1 DEF AttrNumbers, ids
  <2>3. ids \in Seq(Nat)
    BY <1>1 DEF IsFirst
  <2>4. DOMAIN ids = 1 .. Len(found) /\ DOMAIN ids = 1 .. Len(ids) /\ Len(ids) \in Nat
    BY <2>2, <2>3
  <2>5. Len(ids) = Len(found)
    BY <2>1, <2>4
  <2> QED BY <2>1, <2>2, <2>3, <2>4, <2>5
<1>6. CASE found = << >>
  <2>1. Len(ids) = 0
    BY <1>5, <1>6
  <2>2. Len(ids) = Cardinality(P)
    BY <1>1, <1>2, <2>1 DEF IsFirst
  <2>3. DiscComplete(msg, found) = Flag(TRUE)
    BY <1>6 DEF DiscComplete
  <2> QED BY <2>2, <2>3 DEF found, ids, s
<1>7. CASE found # << >>
  <2>1. Len(found) # 0
    BY <1>1, <1>7
  <2>2. ids # << >>
    BY <1>5, <2>1
  <2> DEFINE last == ids[Len(ids)]
  <2>3. /\ last \in P
        /\ From(O, last + 1) = {} <=> Len(ids) = Cardinality(P)
    BY <1>1, <1>2, <1>3, <2>2, NoneLeft
  <2>4. Last(found).attrId = last
    <3>1. Len(found) \in 1 .. Len(found)
      BY <1>5, <2>1
    <3> QED BY <1>5, <3>1 DEF Last
  <2>5. last \in Word \ {65535}
    BY <2>3, NextAttrIs DEF From
  <2>6. last \in Nat /\ last < 65535
    BY <2>5, WordIs
  <2>7. last + 1 \in Word
    BY <2>6, WordIs
  <2>8. NextAttr(Last(found)) = last + 1
    BY <2>4, <2>6 DEF NextAttr
  <2> HIDE DEF last
  <2>9. zclFindNextAttrRec(msg, last + 1) = NotFound <=> From(O, last + 1) = {}
    BY <2>7, NextAttrIs
  <2>10. DiscComplete(msg, found) = Flag(Len(ids) = Cardinality(P))
    <3>1. DiscComplete(msg, found) =
              Flag(found # << >> => zclFindNextAttrRec(msg, last + 1) = NotFound)
      BY <2>8 DEF DiscComplete
    <3>2. (found # << >> => zclFindNextAttrRec(msg, last + 1) = NotFound)
          <=> Len(ids) = Cardinality(P)
      BY <1>7, <2>3, <2>9 DEF last
    <3> QED BY <3>1, <3>2 DEF Flag
  <2> QED BY <2>10 DEF found, ids, s
<1> QED BY <1>6, <1>7

LEMMA AttrsExact ==
    ASSUME Registered, OfAttributes, NEW msg, Asks(msg),
           msg.attrCmd \in [startAttr : Word, maxAttrIDs : Byte]
    PROVE  /\ Exact(zclProcessInDiscAttrsCmd(msg))
           /\ Exact(zclProcessInDiscAttrsExtCmd(msg))
<1> DEFINE found == zclProcessInDiscAttrs(msg)
           O == AttrIDs(msg)
           s == msg.attrCmd.startAttr
           max == msg.attrCmd.maxAttrIDs
<1>1. Offered = From(O, s)
  <2>1. Offered = {a.attrId : a \in {b \in Range(Attributes(msg.endPoint)) :
              /\ b.clusterID = msg.clusterId
              /\ b.attrId >= s
              /\ Direction(b) = msg.hdr.direction}}
    BY DEF Offered, Asks
  <2> HIDE DEF s
  <2> QED BY <2>1 DEF AttrIDs, From
<1>2. Most = max /\ max \in Nat
  <2>1. max \in Byte
    OBVIOUS
  <2> QED BY <2>1, ByteIs DEF Most, Asks
<1>3. IsFiniteSet(Offered)
  <2>1. O \in SUBSET (Word \ {65535})
    BY NextAttrIs
  <2> HIDE DEF O, s
  <2>2. O \in SUBSET Nat /\ \A x \in O : x <= 65535
    BY <2>1, WordIs
  <2>3. IsFiniteSet(O)
    BY <2>2, FS_BoundedSetOfNaturals
  <2>4. From(O, s) \in SUBSET O
    BY DEF From
  <2> QED BY <1>1, <2>3, <2>4, FS_Subset
<1>4. IsFirst(AttrNumbers(found), From(O, s), max)
  BY AttrsFound
<1>5. max > 0 => DiscComplete(msg, found) =
                     Flag(Len(AttrNumbers(found)) = Cardinality(From(O, s)))
  BY AttrsComplete
<1> HIDE DEF O, s, max, found
<1>6. ASSUME NEW rsp, IDs(rsp) = AttrNumbers(found),
             rsp.discComplete = DiscComplete(msg, found)
      PROVE  Exact(rsp)
  BY <1>1, <1>2, <1>3, <1>4, <1>5, <1>6, ExactIs
<1>7. Exact(zclProcessInDiscAttrsCmd(msg))
  <2> DEFINE rsp == zclProcessInDiscAttrsCmd(msg)
  <2>1. rsp = [discComplete |-> DiscComplete(msg, found),
               attrList |-> [k \in DOMAIN found |->
                   [attrID |-> found[k].attrId, dataType |-> found[k].dataType]]]
    BY DEF zclProcessInDiscAttrsCmd, found
  <2> HIDE DEF rsp
  <2>2. IDs(rsp) = AttrNumbers(found)
    BY <2>1 DEF IDs, AttrNumbers
  <2> QED BY <1>6, <2>1, <2>2 DEF rsp
<1>8. Exact(zclProcessInDiscAttrsExtCmd(msg))
  <2> DEFINE rsp == zclProcessInDiscAttrsExtCmd(msg)
  <2>1. rsp = [discComplete |-> DiscComplete(msg, found),
               attrList |-> [k \in DOMAIN found |->
                   [attrID |-> found[k].attrId, attrDataType |-> found[k].dataType,
                    attrAccessControl |->
                        found[k].accessControl % ACCESS_CONTROLEXT_MASK]]]
    BY DEF zclProcessInDiscAttrsExtCmd, found
  <2> HIDE DEF rsp
  <2>2. IDs(rsp) = AttrNumbers(found)
    BY <2>1 DEF IDs, AttrNumbers
  <2> QED BY <1>6, <2>1, <2>2 DEF rsp
<1> QED BY <1>7, <1>8

\* The answers a search for commands may have.
LEMMA DiscCmdIs ==
    ASSUME NEW msg
    PROVE  LET ids == CmdsFound(msg)
               after == IF ids = << >> THEN msg.attrCmd.startCmdID
                        ELSE NextCmd(Last(ids))
           IN zclProcessInDiscCmd(msg, Leftovers) =
                 {[discComplete |-> Flag(zclFindNextCmdRec(msg, after) = NotFound),
                   cmdIDs |-> list] :
                  list \in IF ids = << >> THEN Leftovers ELSE {ids}}
BY DEF zclProcessInDiscCmd, CmdsFound

LEMMA CmdsExact ==
    ASSUME Registered, OfCommands, NEW msg, Asks(msg),
           msg.attrCmd \in [startCmdID : Byte, maxCmdID : Byte],
           NEW rsp \in zclProcessInDiscCmd(msg, Leftovers)
    PROVE  Exact(rsp)
<1> DEFINE ids == CmdsFound(msg)
           O == CmdIDs(msg)
           s == msg.attrCmd.startCmdID
           max == msg.attrCmd.maxCmdID
           after == IF ids = << >> THEN s ELSE NextCmd(Last(ids))
<1>10. ~OfAttributes
  BY DEF OfAttributes, OfCommands, ZCL_CMD
<1>1. Offered = From(O, s)
  <2>1. Offered = {c.cmdID : c \in {d \in Range(Commands(msg.endPoint)) :
              /\ d.clusterID = msg.clusterId
              /\ d.cmdID >= s
              /\ Bit(d.flag, Wanted(msg))}}
    <3>1. Wanted(asked) = Wanted(msg)
      BY DEF Wanted, Asks
    <3> QED BY <1>10, <3>1 DEF Offered, Asks
  <2> HIDE DEF s
  <2> QED BY <2>1 DEF CmdIDs, From
<1>2. Most = max /\ max \in Nat /\ s \in Byte /\ s \in Nat
  <2>1. max \in Byte /\ s \in Byte
    OBVIOUS
  <2> QED BY <1>10, <2>1, ByteIs DEF Most, Asks
<1>3. O \in SUBSET Nat /\ IsFiniteSet(O) /\ IsFiniteSet(Offered)
  <2>1. O \in SUBSET (Byte \ {255})
    BY NextCmdIs
  <2> HIDE DEF O, s
  <2>2. O \in SUBSET Nat /\ \A x \in O : x <= 255
    BY <2>1, ByteIs
  <2>3. IsFiniteSet(O)
    BY <2>2, FS_BoundedSetOfNaturals
  <2>4. From(O, s) \in SUBSET O
    BY DEF From
  <2> QED BY <1>1, <2>2, <2>3, <2>4, FS_Subset
<1>4. IsFirst(ids, From(O, s), max)
  BY CmdsFoundIs
<1>5. PICK list \in (IF ids = << >> THEN Leftovers ELSE {ids}) :
          rsp = [discComplete |-> Flag(zclFindNextCmdRec(msg, after) = NotFound),
                 cmdIDs |-> list]
  BY DiscCmdIs
<1>6. IDs(rsp) = list
  BY <1>5, <1>10 DEF IDs
<1>7. \A id \in Byte : zclFindNextCmdRec(msg, id) = NotFound <=> From(O, id) = {}
  BY NextCmdIs
<1>12. O \in SUBSET (Byte \ {255})
  BY NextCmdIs
<1> HIDE DEF O, s, max, ids
<1>8. ASSUME Most > 0, Offered # {}
      PROVE  /\ IsFirst(IDs(rsp), Offered, Most)
             /\ rsp.discComplete = Flag(Len(IDs(rsp)) = Cardinality(Offered))
  <2>1. ids # << >>
    <3>1. Cardinality(Offered) # 0
      BY <1>3, <1>8, FS_EmptySet
    <3>2. Len(ids) # 0
      BY <1>1, <1>2, <1>4, <1>8, <3>1 DEF IsFirst
    <3> QED BY <3>2
  <2>2. list = ids
    BY <1>5, <2>1
  <2> DEFINE last == ids[Len(ids)]
  <2>3. /\ last \in From(O, s)
        /\ From(O, last + 1) = {} <=> Len(ids) = Cardinality(From(O, s))
    BY <1>2, <1>3, <1>4, <2>1, NoneLeft
  <2>4. last \in Nat /\ last < 255
    <3>1. last \in Byte \ {255}
      BY <1>12, <2>3 DEF From
    <3> QED BY <3>1, ByteIs
  <2>5. last + 1 \in Byte
    BY <2>4, ByteIs
  <2>6. after = last + 1
    <3>1. Last(ids) = last
      BY DEF Last
    <3> HIDE DEF last
    <3>2. NextCmd(last) = last + 1
      BY <2>4 DEF NextCmd
    <3> QED BY <2>1, <3>1, <3>2
  <2> HIDE DEF after, last
  <2>7. zclFindNextCmdRec(msg, after) = NotFound
        <=> Len(ids) = Cardinality(From(O, s))
    BY <1>7, <2>3, <2>5, <2>6
  <2>8. rsp.discComplete = Flag(Len(ids) = Cardinality(From(O, s)))
    BY <1>5, <2>7 DEF Flag
  <2> QED BY <1>1, <1>2, <1>4, <1>6, <2>2, <2>8
<1>9. Most \in Nat
  BY <1>2
<1> QED BY <1>3, <1>8, <1>9, <1>10, ExactIs

--------------------------------------------------------------------------------
(* The request, and what is answered.                                        *)
LEMMA AskedIs ==
    ASSUME Registered, IsAsked
    PROVE  LET cmd == asked.hdr.cmd
           IN /\ asked.hdr \in FrameHeader
              /\ asked.src \in Described /\ asked.src \in Nat
              /\ asked.to.src = asked.src
              /\ asked.src # asked.to.dst /\ asked.src # AF_BROADCAST_ENDPOINT
              /\ asked.to.unicast \in BOOLEAN
              /\ asked.hdr.type = PROFILE /\ Known(cmd) =>
                    /\ Payload(cmd, asked.c) \in Seq(Byte)
                    /\ cmd \in {ZCL_CMD.DISCOVER_ATTRS, ZCL_CMD.DISCOVER_ATTRS_EXT}
                       => asked.c \in [startAttr : Word, maxAttrIDs : Byte]
                    /\ cmd \in {ZCL_CMD.DISCOVER_CMDS_RECEIVED,
                                ZCL_CMD.DISCOVER_CMDS_GEN}
                       => asked.c \in [startCmdID : Byte, maxCmdID : Byte]
<1>1. topic \in DOMAIN Requests
  BY DEF Registered
<1>2. PICK k \in DOMAIN Requests[topic] :
          LET q == Requests[topic][k]
          IN /\ asked.src = q.to.src /\ asked.to = q.to
             /\ asked.hdr = q.hdr /\ asked.c = q.c
  BY DEF IsAsked
<1> QED BY <1>1, <1>2, RequestsAssumption

LEMMA RequestParsed ==
    ASSUME Registered, IsAsked, NEW p, IsRequest(p)
    PROVE  LET cmd == asked.hdr.cmd
               known == asked.hdr.type = PROFILE /\ Known(cmd)
               msg == Msg(p)
           IN /\ msg.endPoint = asked.to.dst /\ msg.src = asked.src
              /\ msg.clusterId = asked.to.clusterId
              /\ msg.unicast = asked.to.unicast
              /\ msg.hdr = asked.hdr
              /\ asked.hdr.type = SPECIFIC => msg.attrCmd = asked.c
              /\ known => Payload(cmd, asked.c) \in Seq(Nat)
              /\ known /\ asked.hdr.manuCode = 0 =>
                    msg.attrCmd = zclParseCmd(cmd, Payload(cmd, asked.c))
<1> DEFINE cmd == asked.hdr.cmd
           known == asked.hdr.type = PROFILE /\ Known(cmd)
           d == IF known THEN Payload(cmd, asked.c) ELSE << >>
<1>1. asked.hdr \in FrameHeader /\ (known => Payload(cmd, asked.c) \in Seq(Byte))
  BY AskedIs
<1>2. \A s \in Seq(Byte) : s \in Seq(Nat)
  <2>1. \A x \in Byte : x \in Nat
    BY ByteIs
  <2> QED BY <2>1
<1>3. d \in Seq(Nat)
  <2>1. << >> \in Seq(Nat)
    OBVIOUS
  <2> QED BY <1>1, <1>2, <2>1
<1>4. p.data = zclBuildHdr(asked.hdr) \o d /\ p.hdr = asked.hdr
  BY DEF IsRequest
<1>5. /\ zclParseHdr(p.data) = asked.hdr
      /\ SubSeq(p.data, zclCalcHdrSize(p.hdr) + 1, Len(p.data)) = d
  <2> HIDE DEF d
  <2> QED BY <1>1, <1>3, <1>4, HeaderParsed
<1>6. known => Payload(cmd, asked.c) \in Seq(Nat)
  BY <1>3
<1>7. PROFILE # SPECIFIC
  BY DEF PROFILE, SPECIFIC
<1>8. Msg(p) = [endPoint |-> p.dst, src |-> p.src, clusterId |-> p.clusterId,
        unicast |-> p.unicast, secure |-> p.secure, hdr |-> asked.hdr,
        attrCmd |-> IF asked.hdr.type = SPECIFIC THEN p.meant
                    ELSE IF asked.hdr.type = PROFILE /\ asked.hdr.manuCode = 0
                            /\ Known(cmd)
                    THEN zclParseCmd(cmd, d)
                    ELSE << >>]
  <2> HIDE DEF d
  <2> QED BY <1>5 DEF Msg, PayloadOf, HdrLen
<1> QED BY <1>6, <1>7, <1>8 DEF IsRequest

\* What goes out as a discovery comes in as it.
LEMMA DiscoveryParsed ==
    /\ \A c \in [startAttr : Word, maxAttrIDs : Byte] :
          zclParseInDiscAttrsCmd(Uint16(c.startAttr) \o <<c.maxAttrIDs>>) = c
    /\ \A c \in [startCmdID : Byte, maxCmdID : Byte] :
          zclParseInDiscCmdsCmd(<<c.startCmdID, c.maxCmdID>>) = c
<1>1. ASSUME NEW c \in [startAttr : Word, maxAttrIDs : Byte]
      PROVE  zclParseInDiscAttrsCmd(Uint16(c.startAttr) \o <<c.maxAttrIDs>>) = c
  <2> DEFINE s == c.startAttr
             m == c.maxAttrIDs
             x == s % 256
             y == s \div 256
  <2>1. s \in Nat /\ m \in Nat
    <3>1. s \in Word /\ m \in Byte
      OBVIOUS
    <3> QED BY <3>1, WordIs, ByteIs
  <2>2. x + 256 * y = s
    BY <2>1
  <2>3. Uint16(s) = <<x, y>>
    BY DEF Uint16, LO_UINT16, HI_UINT16
  <2>4. c = [startAttr |-> s, maxAttrIDs |-> m]
    OBVIOUS
  <2>5. x \in Nat /\ y \in Nat
    BY <2>1
  <2> HIDE DEF x, y, s, m
  <2> DEFINE two == <<x, y>>
             one == <<m>>
             buf == two \o one
  <2>6. At(buf, 1) = x /\ At(buf, 1 + 1) = y /\ At(buf, 3) = m
    <3>1. /\ two \in Seq(Nat) /\ Len(two) = 2 /\ two[1] = x /\ two[2] = y
          /\ one \in Seq(Nat) /\ Len(one) = 1 /\ one[1] = m
      BY <2>1, <2>5
    <3> HIDE DEF two, one
    <3>2. /\ buf \in Seq(Nat) /\ Len(buf) = 2 + 1
          /\ \A i \in 1 .. 2 + 1 : buf[i] = IF i <= 2 THEN two[i] ELSE one[i - 2]
      <4>1. /\ buf \in Seq(Nat) /\ Len(buf) = Len(two) + Len(one)
            /\ \A i \in 1 .. Len(two) + Len(one) :
                  buf[i] = IF i <= Len(two) THEN two[i] ELSE one[i - Len(two)]
        BY <3>1, ConcatProperties
      <4> QED BY <3>1, <4>1
    <3> HIDE DEF buf
    <3>3. buf[1] = two[1] /\ buf[2] = two[2] /\ buf[3] = one[1]
      BY <3>2
    <3>4. DOMAIN buf = 1 .. 3
      BY <3>2
    <3> QED BY <3>1, <3>3, <3>4 DEF At
  <2> HIDE DEF buf
  <2>7. zclParseInDiscAttrsCmd(buf) = [startAttr |-> x + 256 * y, maxAttrIDs |-> m]
    BY <2>6 DEF zclParseInDiscAttrsCmd, BUILD_UINT16
  <2>8. Uint16(s) \o <<m>> = buf
    BY <2>3 DEF buf, two, one
  <2> QED BY <2>2, <2>4, <2>7, <2>8 DEF s, m
<1>2. ASSUME NEW c \in [startCmdID : Byte, maxCmdID : Byte]
      PROVE  zclParseInDiscCmdsCmd(<<c.startCmdID, c.maxCmdID>>) = c
  <2>1. At(<<c.startCmdID, c.maxCmdID>>, 1) = c.startCmdID
        /\ At(<<c.startCmdID, c.maxCmdID>>, 2) = c.maxCmdID
    BY DEF At
  <2>2. c = [startCmdID |-> c.startCmdID, maxCmdID |-> c.maxCmdID]
    OBVIOUS
  <2> QED BY <2>1, <2>2 DEF zclParseInDiscCmdsCmd
<1> QED BY <1>1, <1>2

LEMMA DiscoveryAsked ==
    ASSUME Registered, IsAsked, NEW p, IsRequest(p), Foundation,
           OfAttributes \/ OfCommands
    PROVE  /\ Asks(Msg(p))
           /\ OfAttributes => Msg(p).attrCmd \in [startAttr : Word, maxAttrIDs : Byte]
           /\ OfCommands => Msg(p).attrCmd \in [startCmdID : Byte, maxCmdID : Byte]
<1> DEFINE cmd == asked.hdr.cmd
<1>1. Known(cmd)
  BY DEF Known, OfAttributes, OfCommands, ZCL_CMD
<1>2. /\ OfAttributes => asked.c \in [startAttr : Word, maxAttrIDs : Byte]
      /\ OfCommands => asked.c \in [startCmdID : Byte, maxCmdID : Byte]
  BY <1>1, AskedIs DEF Foundation, OfAttributes, OfCommands
<1>3. Msg(p).attrCmd = zclParseCmd(cmd, Payload(cmd, asked.c))
      /\ Msg(p).endPoint = asked.to.dst /\ Msg(p).clusterId = asked.to.clusterId
      /\ Msg(p).hdr = asked.hdr
  BY <1>1, RequestParsed DEF Foundation
<1>4. CASE OfAttributes
  <2>1. Payload(cmd, asked.c) = Uint16(asked.c.startAttr) \o <<asked.c.maxAttrIDs>>
    BY <1>4 DEF OfAttributes, ZCL_CMD, Payload, zcl_SendDiscoverAttrsCmd,
                zcl_SendDiscoverAttrsExt
  <2>2. \A buf : zclParseCmd(cmd, buf) = zclParseInDiscAttrsCmd(buf)
    BY <1>4 DEF OfAttributes, ZCL_CMD, zclParseCmd
  <2>3. Msg(p).attrCmd = asked.c
    BY <1>2, <1>3, <1>4, <2>1, <2>2, DiscoveryParsed
  <2>4. ~OfCommands
    BY <1>4 DEF OfAttributes, OfCommands, ZCL_CMD
  <2> QED BY <1>2, <1>3, <1>4, <2>3, <2>4 DEF Asks
<1>5. CASE OfCommands
  <2>1. Payload(cmd, asked.c) = <<asked.c.startCmdID, asked.c.maxCmdID>>
    BY <1>5 DEF OfCommands, ZCL_CMD, Payload, zcl_SendDiscoverCmdsCmd
  <2>2. \A buf : zclParseCmd(cmd, buf) = zclParseInDiscCmdsCmd(buf)
    BY <1>5 DEF OfCommands, ZCL_CMD, zclParseCmd
  <2>3. Msg(p).attrCmd = asked.c
    BY <1>2, <1>3, <1>5, <2>1, <2>2, DiscoveryParsed
  <2>4. ~OfAttributes
    BY <1>5 DEF OfAttributes, OfCommands, ZCL_CMD
  <2> QED BY <1>2, <1>3, <1>5, <2>3, <2>4 DEF Asks
<1> QED BY <1>4, <1>5

--------------------------------------------------------------------------------
(* The bytes of the responses.                                               *)
IsReadRec(r) ==
    /\ r.attrID \in Nat /\ r.status \in Nat
    /\ r.status = ZCL_STATUS.SUCCESS => r.dataType \in Nat /\ r.data \in Seq(Nat)
LEMMA ReadRspBytes ==
    ASSUME NEW n \in Nat, NEW list, DOMAIN list = 1 .. n,
           \A i \in 1 .. n : IsReadRec(list[i])
    PROVE  Payload(ZCL_CMD.READ_RSP, list) \in Seq(Nat)
<1> DEFINE Record(r) == Uint16(r.attrID) \o <<r.status>>
            \o IF r.status = ZCL_STATUS.SUCCESS
               THEN <<r.dataType>> \o zclSerializeData(r.dataType, r.data) ELSE << >>
           ss == [i \in 1 .. n |-> Record(list[i])]
<1>1. ASSUME NEW r, IsReadRec(r) PROVE Record(r) \in Seq(Nat)
  <2> DEFINE tail == IF r.status = ZCL_STATUS.SUCCESS
                     THEN <<r.dataType>> \o zclSerializeData(r.dataType, r.data)
                     ELSE << >>
             head == Uint16(r.attrID) \o <<r.status>>
  <2>1. head \in Seq(Nat)
    <3>1. Uint16(r.attrID) \in Seq(Nat) /\ <<r.status>> \in Seq(Nat)
      BY <1>1, Uint16Is DEF IsReadRec
    <3> QED BY <3>1, ConcatProperties
  <2>2. tail \in Seq(Nat)
    <3>1. CASE r.status = ZCL_STATUS.SUCCESS
      <4>1. <<r.dataType>> \in Seq(Nat)
            /\ zclSerializeData(r.dataType, r.data) \in Seq(Nat)
        BY <1>1, <3>1, SerializedIs DEF IsReadRec
      <4>2. <<r.dataType>> \o zclSerializeData(r.dataType, r.data) \in Seq(Nat)
        BY <4>1, ConcatProperties
      <4> QED BY <3>1, <4>2
    <3>2. CASE r.status # ZCL_STATUS.SUCCESS
      BY <3>2
    <3> QED BY <3>1, <3>2
  <2>3. Record(r) = head \o tail
    OBVIOUS
  <2> HIDE DEF head, tail, Record
  <2> QED BY <2>1, <2>2, <2>3, ConcatProperties
<1>2. Payload(ZCL_CMD.READ_RSP, list) = FlattenSeq(ss)
  BY DEF Payload, ZCL_CMD, zcl_SendReadRsp, Pack
<1> HIDE DEF Record
<1>3. ss \in [1 .. n -> Seq(Nat)]
  BY <1>1
<1> QED BY <1>2, <1>3, Joins

LEMMA WriteRspBytes ==
    ASSUME NEW list \in WriteRsps
    PROVE  Payload(ZCL_CMD.WRITE_RSP, list) \in Seq(Nat)
<1> DEFINE Record(r) == <<r.status>> \o Uint16(r.attrID)
           n == Len(list)
           ss == [i \in 1 .. n |-> Record(list[i])]
<1>1. Payload(ZCL_CMD.WRITE_RSP, list) = zcl_SendWriteRsp(list)
  BY DEF Payload, ZCL_CMD
<1>2. CASE Len(list) = 1 /\ list[1].status = ZCL_STATUS.SUCCESS
  <2>1. zcl_SendWriteRsp(list) = <<ZCL_STATUS.SUCCESS>>
    BY <1>2 DEF zcl_SendWriteRsp
  <2> QED BY <1>1, <2>1 DEF ZCL_STATUS
<1>3. CASE ~(Len(list) = 1 /\ list[1].status = ZCL_STATUS.SUCCESS)
  <2>1. list \in Seq(StatusRecs)
    <3>1. Len(SuccessRsp) = 1 /\ SuccessRsp[1].status = ZCL_STATUS.SUCCESS
      BY DEF SuccessRsp
    <3> QED BY <1>3, <3>1 DEF WriteRsps
  <2>2. DOMAIN list = 1 .. n /\ n \in Nat /\ \A i \in 1 .. n : list[i] \in StatusRecs
    BY <2>1
  <2>3. ASSUME NEW r \in StatusRecs PROVE Record(r) \in Seq(Nat)
    <3>1. <<r.status>> \in Seq(Nat) /\ Uint16(r.attrID) \in Seq(Nat)
      BY Uint16Is DEF StatusRecs
    <3> QED BY <3>1, ConcatProperties
  <2>4. zcl_SendWriteRsp(list) = FlattenSeq(ss)
    BY <1>3, <2>2 DEF zcl_SendWriteRsp, Pack
  <2> HIDE DEF Record, n
  <2>5. ss \in [1 .. n -> Seq(Nat)]
    BY <2>2, <2>3
  <2> QED BY <1>1, <2>2, <2>4, <2>5, Joins
<1> QED BY <1>2, <1>3

LEMMA DiscRspBytes ==
    ASSUME NEW found \in Seq(zclAttrRec_t), NEW complete \in Nat
    PROVE  /\ Payload(ZCL_CMD.DISCOVER_ATTRS_RSP,
                      [discComplete |-> complete,
                       attrList |-> [k \in DOMAIN found |->
                           [attrID |-> found[k].attrId,
                            dataType |-> found[k].dataType]]]) \in Seq(Nat)
           /\ Payload(ZCL_CMD.DISCOVER_ATTRS_EXT_RSP,
                      [discComplete |-> complete,
                       attrList |-> [k \in DOMAIN found |->
                           [attrID |-> found[k].attrId,
                            attrDataType |-> found[k].dataType,
                            attrAccessControl |->
                                found[k].accessControl % ACCESS_CONTROLEXT_MASK]]])
              \in Seq(Nat)
<1> DEFINE n == Len(found)
<1>1. n \in Nat /\ DOMAIN found = 1 .. n /\ \A i \in 1 .. n : found[i] \in zclAttrRec_t
  OBVIOUS
<1>2. \A a \in zclAttrRec_t :
          a.attrId \in Nat /\ a.dataType \in Nat /\ a.accessControl \in Nat
  <2> TAKE a \in zclAttrRec_t
  <2>1. a.attrId \in Word /\ a.dataType \in Byte /\ a.accessControl \in Byte
    BY DEF zclAttrRec_t
  <2> QED BY <2>1, WordIs, ByteIs
<1> HIDE DEF n
<1>3. <<complete>> \in Seq(Nat)
  OBVIOUS
<1>4. ASSUME NEW ss \in [1 .. n -> Seq(Nat)]
      PROVE  <<complete>> \o FlattenSeq(ss) \in Seq(Nat)
  <2>1. FlattenSeq(ss) \in Seq(Nat)
    BY <1>1, <1>4, Joins
  <2> QED BY <1>3, <2>1, ConcatProperties
<1>5. ASSUME NEW i \in 1 .. n
      PROVE  /\ found[i].attrId \in Nat /\ found[i].dataType \in Nat
             /\ found[i].accessControl % ACCESS_CONTROLEXT_MASK \in Nat
             /\ Uint16(found[i].attrId) \in Seq(Nat)
  <2>1. found[i].attrId \in Nat /\ found[i].dataType \in Nat
        /\ found[i].accessControl \in Nat
    BY <1>1, <1>2
  <2>2. found[i].accessControl % ACCESS_CONTROLEXT_MASK \in Nat
    BY <2>1 DEF ACCESS_CONTROLEXT_MASK
  <2> QED BY <2>1, <2>2, Uint16Is
<1>6. Payload(ZCL_CMD.DISCOVER_ATTRS_RSP,
              [discComplete |-> complete,
               attrList |-> [k \in DOMAIN found |->
                   [attrID |-> found[k].attrId,
                    dataType |-> found[k].dataType]]]) \in Seq(Nat)
  <2> DEFINE list == [k \in 1 .. n |-> [attrID |-> found[k].attrId,
                                        dataType |-> found[k].dataType]]
             rsp == [discComplete |-> complete, attrList |-> list]
             ss == [i \in 1 .. n |-> Uint16(found[i].attrId) \o <<found[i].dataType>>]
  <2>1. Payload(ZCL_CMD.DISCOVER_ATTRS_RSP, rsp) = <<complete>> \o FlattenSeq(ss)
    <3>1. Payload(ZCL_CMD.DISCOVER_ATTRS_RSP, rsp) = zcl_SendDiscoverAttrsRspCmd(rsp)
      <4> HIDE DEF rsp
      <4> QED BY DEF Payload, ZCL_CMD
    <3>2. rsp.discComplete = complete /\ rsp.attrList = list
      <4> HIDE DEF list
      <4> QED OBVIOUS
    <3>3. zcl_SendDiscoverAttrsRspCmd(rsp)
          = <<complete>> \o FlattenSeq([i \in DOMAIN list |->
                Uint16(list[i].attrID) \o <<list[i].dataType>>])
      <4> HIDE DEF rsp, list
      <4> QED BY <3>2 DEF zcl_SendDiscoverAttrsRspCmd, Pack
    <3>4. DOMAIN list = 1 .. n
      OBVIOUS
    <3>5. ASSUME NEW i \in 1 .. n
          PROVE  list[i].attrID = found[i].attrId /\ list[i].dataType = found[i].dataType
      OBVIOUS
    <3> HIDE DEF rsp, list
    <3>6. [i \in DOMAIN list |-> Uint16(list[i].attrID) \o <<list[i].dataType>>] = ss
      BY <3>4, <3>5
    <3> HIDE DEF ss
    <3> QED BY <3>1, <3>3, <3>6
  <2>2. ASSUME NEW i \in 1 .. n
        PROVE  Uint16(found[i].attrId) \o <<found[i].dataType>> \in Seq(Nat)
    <3>1. Uint16(found[i].attrId) \in Seq(Nat) /\ <<found[i].dataType>> \in Seq(Nat)
      BY <1>5
    <3> QED BY <3>1, ConcatProperties
  <2>3. ss \in [1 .. n -> Seq(Nat)]
    BY <2>2
  <2> HIDE DEF ss
  <2>4. Payload(ZCL_CMD.DISCOVER_ATTRS_RSP, rsp) \in Seq(Nat)
    BY <1>4, <2>1, <2>3
  <2> QED BY <1>1, <2>4
<1>7. Payload(ZCL_CMD.DISCOVER_ATTRS_EXT_RSP,
              [discComplete |-> complete,
               attrList |-> [k \in DOMAIN found |->
                   [attrID |-> found[k].attrId,
                    attrDataType |-> found[k].dataType,
                    attrAccessControl |->
                        found[k].accessControl % ACCESS_CONTROLEXT_MASK]]])
      \in Seq(Nat)
  <2> DEFINE access(i) == found[i].accessControl % ACCESS_CONTROLEXT_MASK
             list == [k \in 1 .. n |-> [attrID |-> found[k].attrId,
                                        attrDataType |-> found[k].dataType,
                                        attrAccessControl |-> access(k)]]
             rsp == [discComplete |-> complete, attrList |-> list]
             ss == [i \in 1 .. n |-> Uint16(found[i].attrId)
                                     \o <<found[i].dataType, access(i)>>]
  <2>1. Payload(ZCL_CMD.DISCOVER_ATTRS_EXT_RSP, rsp) = <<complete>> \o FlattenSeq(ss)
    <3> HIDE DEF access
    <3>1. Payload(ZCL_CMD.DISCOVER_ATTRS_EXT_RSP, rsp) = zcl_SendDiscoverAttrsExtRsp(rsp)
      <4> HIDE DEF rsp
      <4> QED BY DEF Payload, ZCL_CMD
    <3>2. rsp.discComplete = complete /\ rsp.attrList = list
      <4> HIDE DEF list
      <4> QED OBVIOUS
    <3>3. zcl_SendDiscoverAttrsExtRsp(rsp)
          = <<complete>> \o FlattenSeq([i \in DOMAIN list |->
                Uint16(list[i].attrID)
                \o <<list[i].attrDataType, list[i].attrAccessControl>>])
      <4> HIDE DEF rsp, list
      <4> QED BY <3>2 DEF zcl_SendDiscoverAttrsExtRsp, Pack
    <3>4. DOMAIN list = 1 .. n
      OBVIOUS
    <3>5. ASSUME NEW i \in 1 .. n
          PROVE  /\ list[i].attrID = found[i].attrId
                 /\ list[i].attrDataType = found[i].dataType
                 /\ list[i].attrAccessControl = access(i)
      OBVIOUS
    <3> HIDE DEF rsp, list
    <3>6. [i \in DOMAIN list |-> Uint16(list[i].attrID)
                \o <<list[i].attrDataType, list[i].attrAccessControl>>] = ss
      BY <3>4, <3>5
    <3> HIDE DEF ss
    <3> QED BY <3>1, <3>3, <3>6
  <2>2. ASSUME NEW i \in 1 .. n
        PROVE  Uint16(found[i].attrId) \o <<found[i].dataType, access(i)>> \in Seq(Nat)
    <3>1. Uint16(found[i].attrId) \in Seq(Nat)
          /\ <<found[i].dataType, access(i)>> \in Seq(Nat)
      BY <1>5
    <3> QED BY <3>1, ConcatProperties
  <2> HIDE DEF access
  <2>3. ss \in [1 .. n -> Seq(Nat)]
    BY <2>2
  <2> HIDE DEF ss
  <2>4. Payload(ZCL_CMD.DISCOVER_ATTRS_EXT_RSP, rsp) \in Seq(Nat)
    BY <1>4, <2>1, <2>3
  <2> QED BY <1>1, <2>4 DEF access
<1> QED BY <1>6, <1>7

LEMMA DiscCmdsRspBytes ==
    ASSUME NEW list \in Seq(Nat), NEW complete \in Nat,
           NEW cmd \in {ZCL_CMD.DISCOVER_CMDS_RECEIVED_RSP,
                        ZCL_CMD.DISCOVER_CMDS_GEN_RSP}
    PROVE  Payload(cmd, [discComplete |-> complete, cmdIDs |-> list]) \in Seq(Nat)
<1>1. Payload(cmd, [discComplete |-> complete, cmdIDs |-> list])
      = <<complete>> \o list
  BY DEF Payload, ZCL_CMD, zcl_SendDiscoverCmdsRspCmd
<1>2. <<complete>> \in Seq(Nat)
  OBVIOUS
<1> QED BY <1>1, <1>2, ConcatProperties

LEMMA ReadsParsed ==
    ASSUME NEW buf \in Seq(Nat)
    PROVE  zclParseInReadCmd(buf) \in Seq(Nat)
<1> DEFINE n == Len(buf) \div 2
<1>1. n \in Nat
  <2>1. Len(buf) \in Nat
    OBVIOUS
  <2> QED BY <2>1
<1>2. zclParseInReadCmd(buf) = [k \in 1 .. n |-> BUILD_UINT16(buf, 2 * k - 1)]
  BY DEF zclParseInReadCmd
<1> HIDE DEF n
<1>3. \A k \in 1 .. n : BUILD_UINT16(buf, 2 * k - 1) \in Nat
  BY WordAt
<1> QED BY <1>1, <1>2, <1>3

LEMMA ReadRecsAre ==
    ASSUME Registered, vals \in Values, NEW msg, msg.attrCmd \in Seq(Nat)
    PROVE  Payload(ZCL_CMD.READ_RSP, zclProcessInReadCmd(msg)) \in Seq(Nat)
<1> DEFINE list == msg.attrCmd
           n == Len(list)
           k(id) == zclFindAttrRec(msg.endPoint, msg.clusterId, id)
           a(id) == Attributes(msg.endPoint)[k(id)]
           Status(id) ==
               IF k(id) = NotFound
               THEN [attrID |-> id, status |-> ZCL_STATUS.UNSUPPORTED_ATTRIBUTE]
               ELSE IF ~Allows(a(id), READ)
               THEN [attrID |-> id, status |-> ZCL_STATUS.WRITE_ONLY]
               ELSE IF zclAuthorizeRead(msg.endPoint, a(id)) # ZCL_STATUS.SUCCESS
               THEN [attrID |-> id,
                     status |-> zclAuthorizeRead(msg.endPoint, a(id))]
               ELSE [attrID |-> id, status |-> ZCL_STATUS.SUCCESS,
                     dataType |-> a(id).dataType,
                     data |-> zcl_ReadAttrData(msg.endPoint, a(id), vals)]
           rsp == [i \in 1 .. n |-> Status(list[i])]
<1>1. n \in Nat /\ DOMAIN list = 1 .. n /\ \A i \in 1 .. n : list[i] \in Nat
  OBVIOUS
<1>2. zclProcessInReadCmd(msg) = rsp
  BY <1>1 DEF zclProcessInReadCmd
<1>3. ASSUME NEW id \in Nat PROVE IsReadRec(Status(id))
  <2>1. CASE k(id) = NotFound
    BY <2>1 DEF IsReadRec, ZCL_STATUS
  <2>2. CASE k(id) # NotFound
    <3>1. a(id) \in zclAttrRec_t /\ Key(a(id)) \in DOMAIN InitVals
      BY <2>2, AttributeFound
    <3>2. a(id).dataType \in Nat
      <4>1. a(id).dataType \in Byte
        <5> HIDE DEF a
        <5> QED BY <3>1 DEF zclAttrRec_t
      <4> QED BY <4>1, ByteIs
    <3>3. zcl_ReadAttrData(msg.endPoint, a(id), vals) \in Seq(Nat)
      BY <3>1, ReadIs
    <3>4. zclAuthorizeRead(msg.endPoint, a(id)) \in Nat
      BY DEF zclAuthorizeRead, Authorize, ZCL_STATUS
    <3>5. ZCL_STATUS.WRITE_ONLY \in Nat /\ ZCL_STATUS.SUCCESS \in Nat
          /\ ZCL_STATUS.WRITE_ONLY # ZCL_STATUS.SUCCESS
      BY DEF ZCL_STATUS
    <3> HIDE DEF k, a
    <3> QED BY <2>2, <3>2, <3>3, <3>4, <3>5 DEF IsReadRec
  <2> QED BY <2>1, <2>2
<1> HIDE DEF n, list, Status
<1>4. DOMAIN rsp = 1 .. n /\ \A i \in 1 .. n : IsReadRec(rsp[i])
  BY <1>1, <1>3
<1> HIDE DEF rsp
<1> QED BY <1>1, <1>2, <1>4, ReadRspBytes

--------------------------------------------------------------------------------
(* What the library replies to the request.                                  *)
LeftAlways(cmd) == cmd \in {ZCL_CMD.CONFIG_REPORT, ZCL_CMD.READ_REPORT_CFG,
                            ZCL_CMD.DEFAULT_RSP}
IsResponse(s) ==
    /\ s.cmd \in Responses \ {ZCL_CMD.DEFAULT_RSP}
    /\ Payload(s.cmd, s.c) \in Seq(Nat)
    /\ (OfAttributes \/ OfCommands) /\ s.cmd = asked.hdr.cmd + 1 => Exact(s.c)
IsReply(r) ==
    /\ r.vals \in Values
    /\ IF HasRsp(asked.hdr.cmd) /\ ~LeftAlways(asked.hdr.cmd)
       THEN \E s : r.sent = <<s>> /\ IsResponse(s)
       ELSE r.sent = << >>

LEMMA ReplyIs ==
    ASSUME NEW v \in Values, NEW cmd \in Responses \ {ZCL_CMD.DEFAULT_RSP}, NEW c,
           Payload(cmd, c) \in Seq(Nat),
           (OfAttributes \/ OfCommands) /\ cmd = asked.hdr.cmd + 1 => Exact(c),
           HasRsp(asked.hdr.cmd), ~LeftAlways(asked.hdr.cmd)
    PROVE  IsReply(Reply(v, cmd, c))
<1> DEFINE s == [cmd |-> cmd, c |-> c]
           r == Reply(v, cmd, c)
<1>1. r.vals = v /\ r.sent = <<s>>
  BY DEF Reply
<1>2. s.cmd = cmd /\ s.c = c
  OBVIOUS
<1> HIDE DEF s, r
<1>3. IsResponse(s)
  BY <1>2 DEF IsResponse
<1>4. IsReply(r)
  BY <1>1, <1>3 DEF IsReply
<1> QED BY <1>4 DEF r

LEMMA ReadReply ==
    ASSUME Registered, vals \in Values, IsAsked, NEW p, IsRequest(p), Foundation,
           asked.hdr.cmd = ZCL_CMD.READ, NEW r \in zclProcessCmd(Msg(p))
    PROVE  IsReply(r)
<1> DEFINE cmd == asked.hdr.cmd
           msg == Msg(p)
<1>1. Known(cmd)
  BY DEF Known, ZCL_CMD
<1>2. /\ msg.hdr = asked.hdr /\ Payload(cmd, asked.c) \in Seq(Nat)
      /\ msg.attrCmd = zclParseCmd(cmd, Payload(cmd, asked.c))
  BY <1>1, RequestParsed DEF Foundation
<1> HIDE DEF msg
<1>3. msg.attrCmd = zclParseInReadCmd(Payload(cmd, asked.c))
  <2>1. \A buf : zclParseCmd(cmd, buf) = zclParseInReadCmd(buf)
    BY DEF zclParseCmd, ZCL_CMD
  <2> QED BY <1>2, <2>1
<1>4. msg.attrCmd \in Seq(Nat)
  BY <1>2, <1>3, ReadsParsed
<1>5. Payload(ZCL_CMD.READ_RSP, zclProcessInReadCmd(msg)) \in Seq(Nat)
  BY <1>4, ReadRecsAre
<1>6. zclProcessCmd(msg) = {Reply(vals, ZCL_CMD.READ_RSP, zclProcessInReadCmd(msg))}
  BY <1>2 DEF zclProcessCmd, ZCL_CMD
<1>7. r = Reply(vals, ZCL_CMD.READ_RSP, zclProcessInReadCmd(msg))
  BY <1>6 DEF msg
<1>8. ~OfAttributes /\ ~OfCommands /\ HasRsp(cmd) /\ ~LeftAlways(cmd)
      /\ ZCL_CMD.READ_RSP \in Responses \ {ZCL_CMD.DEFAULT_RSP}
  BY DEF OfAttributes, OfCommands, HasRsp, LeftAlways, ZCL_CMD, Responses
<1> QED BY <1>5, <1>7, <1>8, ReplyIs

LEMMA WriteReply ==
    ASSUME Registered, vals \in Values, IsAsked, NEW p, IsRequest(p), Foundation,
           asked.hdr.cmd \in {ZCL_CMD.WRITE, ZCL_CMD.WRITE_UNDIVIDED,
                              ZCL_CMD.WRITE_NO_RSP},
           NEW r \in zclProcessCmd(Msg(p))
    PROVE  IsReply(r)
<1> DEFINE cmd == asked.hdr.cmd
           msg == Msg(p)
           w == IF cmd = ZCL_CMD.WRITE_UNDIVIDED
                THEN zclProcessInWriteUndividedCmd(msg) ELSE zclProcessInWriteCmd(msg)
<1>1. Known(cmd)
  BY DEF Known, ZCL_CMD
<1>2. /\ msg.hdr = asked.hdr /\ Payload(cmd, asked.c) \in Seq(Nat)
      /\ msg.attrCmd = zclParseCmd(cmd, Payload(cmd, asked.c))
  BY <1>1, RequestParsed DEF Foundation
<1> HIDE DEF msg
<1>3. msg.attrCmd = zclParseInWriteCmd(Payload(cmd, asked.c))
  <2>1. \A buf : zclParseCmd(cmd, buf) = zclParseInWriteCmd(buf)
    BY DEF zclParseCmd, ZCL_CMD
  <2> QED BY <1>2, <2>1
<1>4. msg.attrCmd \in Seq(WriteRecs)
  BY <1>2, <1>3, WritesParsed
<1>5. w \in WriteResults
  <2>1. zclProcessInWriteUndividedCmd(msg) \in WriteResults
        /\ zclProcessInWriteCmd(msg) \in WriteResults
    BY <1>4, WrittenIs, UndividedIs
  <2> QED BY <2>1
<1>6. w.vals \in Values /\ w.rsp \in WriteRsps
  <2> HIDE DEF w
  <2> QED BY <1>5 DEF WriteResults
<1>7. CASE cmd # ZCL_CMD.WRITE_NO_RSP
  <2>1. zclProcessCmd(msg) = {Reply(x.vals, ZCL_CMD.WRITE_RSP, x.rsp) : x \in {w}}
    BY <1>2, <1>7 DEF zclProcessCmd, ZCL_CMD
  <2> HIDE DEF w
  <2>2. r = Reply(w.vals, ZCL_CMD.WRITE_RSP, w.rsp)
    BY <2>1 DEF msg
  <2>3. ~OfAttributes /\ ~OfCommands /\ HasRsp(cmd) /\ ~LeftAlways(cmd)
        /\ ZCL_CMD.WRITE_RSP \in Responses \ {ZCL_CMD.DEFAULT_RSP}
    BY <1>7 DEF OfAttributes, OfCommands, HasRsp, LeftAlways, ZCL_CMD, Responses
  <2>4. Payload(ZCL_CMD.WRITE_RSP, w.rsp) \in Seq(Nat)
    BY <1>6, WriteRspBytes
  <2> QED BY <1>6, <2>2, <2>3, <2>4, ReplyIs
<1>8. CASE cmd = ZCL_CMD.WRITE_NO_RSP
  <2>1. zclProcessCmd(msg) = {[vals |-> x.vals, sent |-> << >>] : x \in {w}}
    BY <1>2, <1>8 DEF zclProcessCmd, ZCL_CMD
  <2> HIDE DEF w
  <2>2. r = [vals |-> w.vals, sent |-> << >>]
    BY <2>1 DEF msg
  <2>3. ~HasRsp(cmd)
    BY <1>8 DEF HasRsp, ZCL_CMD
  <2> QED BY <1>6, <2>2, <2>3 DEF IsReply
<1> QED BY <1>7, <1>8

LEMMA AttrsReply ==
    ASSUME Registered, vals \in Values, IsAsked, NEW p, IsRequest(p), Foundation,
           OfAttributes, NEW r \in zclProcessCmd(Msg(p))
    PROVE  IsReply(r)
<1> DEFINE cmd == asked.hdr.cmd
           msg == Msg(p)
           found == zclProcessInDiscAttrs(msg)
           plain == zclProcessInDiscAttrsCmd(msg)
           ext == zclProcessInDiscAttrsExtCmd(msg)
<1>1. Known(cmd)
  BY DEF Known, ZCL_CMD, OfAttributes
<1>2. msg.hdr = asked.hdr
  BY <1>1, RequestParsed DEF Foundation
<1>3. Asks(msg) /\ msg.attrCmd \in [startAttr : Word, maxAttrIDs : Byte]
  BY DiscoveryAsked
<1> HIDE DEF msg
<1>4. found \in Seq(zclAttrRec_t)
  BY <1>3, AttrsFound
<1>5. DiscComplete(msg, found) \in Nat
  BY DEF DiscComplete, Flag
<1>6. Exact(plain) /\ Exact(ext)
  BY <1>3, AttrsExact
<1>7. /\ Payload(ZCL_CMD.DISCOVER_ATTRS_RSP, plain) \in Seq(Nat)
      /\ Payload(ZCL_CMD.DISCOVER_ATTRS_EXT_RSP, ext) \in Seq(Nat)
  <2>1. /\ plain = [discComplete |-> DiscComplete(msg, found),
                    attrList |-> [k \in DOMAIN found |->
                        [attrID |-> found[k].attrId,
                         dataType |-> found[k].dataType]]]
        /\ ext = [discComplete |-> DiscComplete(msg, found),
                  attrList |-> [k \in DOMAIN found |->
                      [attrID |-> found[k].attrId,
                       attrDataType |-> found[k].dataType,
                       attrAccessControl |->
                           found[k].accessControl % ACCESS_CONTROLEXT_MASK]]]
    BY DEF zclProcessInDiscAttrsCmd, zclProcessInDiscAttrsExtCmd
  <2> HIDE DEF found, plain, ext
  <2> QED BY <1>4, <1>5, <2>1, DiscRspBytes
<1>8. HasRsp(cmd) /\ ~LeftAlways(cmd)
      /\ ZCL_CMD.DISCOVER_ATTRS_RSP \in Responses \ {ZCL_CMD.DEFAULT_RSP}
      /\ ZCL_CMD.DISCOVER_ATTRS_EXT_RSP \in Responses \ {ZCL_CMD.DEFAULT_RSP}
  BY DEF OfAttributes, HasRsp, LeftAlways, ZCL_CMD, Responses
<1> HIDE DEF plain, ext
<1>9. CASE cmd = ZCL_CMD.DISCOVER_ATTRS
  <2>1. zclProcessCmd(msg) = {Reply(vals, ZCL_CMD.DISCOVER_ATTRS_RSP, plain)}
    BY <1>2, <1>9 DEF zclProcessCmd, ZCL_CMD, plain
  <2>2. r = Reply(vals, ZCL_CMD.DISCOVER_ATTRS_RSP, plain)
    BY <2>1 DEF msg
  <2> QED BY <1>6, <1>7, <1>8, <2>2, ReplyIs
<1>10. CASE cmd = ZCL_CMD.DISCOVER_ATTRS_EXT
  <2>1. zclProcessCmd(msg) = {Reply(vals, ZCL_CMD.DISCOVER_ATTRS_EXT_RSP, ext)}
    BY <1>2, <1>10 DEF zclProcessCmd, ZCL_CMD, ext
  <2>2. r = Reply(vals, ZCL_CMD.DISCOVER_ATTRS_EXT_RSP, ext)
    BY <2>1 DEF msg
  <2> QED BY <1>6, <1>7, <1>8, <2>2, ReplyIs
<1> QED BY <1>9, <1>10 DEF OfAttributes

LEMMA CmdsReply ==
    ASSUME Registered, vals \in Values, IsAsked, NEW p, IsRequest(p), Foundation,
           OfCommands, NEW r \in zclProcessCmd(Msg(p))
    PROVE  IsReply(r)
<1> DEFINE cmd == asked.hdr.cmd
           msg == Msg(p)
           ids == CmdsFound(msg)
           after == IF ids = << >> THEN msg.attrCmd.startCmdID
                    ELSE NextCmd(Last(ids))
           complete == Flag(zclFindNextCmdRec(msg, after) = NotFound)
<1>1. Known(cmd)
  BY DEF Known, ZCL_CMD, OfCommands
<1>2. msg.hdr = asked.hdr
  BY <1>1, RequestParsed DEF Foundation
<1>3. Asks(msg) /\ msg.attrCmd \in [startCmdID : Byte, maxCmdID : Byte]
  BY DiscoveryAsked
<1> HIDE DEF msg
<1>4. zclProcessCmd(msg) = {Reply(vals, cmd + 1, c) : c \in
          zclProcessInDiscCmd(msg, Leftovers)}
  BY <1>2 DEF zclProcessCmd, ZCL_CMD, OfCommands
<1>5. PICK c \in zclProcessInDiscCmd(msg, Leftovers) : r = Reply(vals, cmd + 1, c)
  BY <1>4 DEF msg
<1>6. Exact(c)
  BY <1>3, <1>5, CmdsExact
<1>7. cmd + 1 \in {ZCL_CMD.DISCOVER_CMDS_RECEIVED_RSP, ZCL_CMD.DISCOVER_CMDS_GEN_RSP}
      /\ HasRsp(cmd) /\ ~LeftAlways(cmd)
      /\ cmd + 1 \in Responses \ {ZCL_CMD.DEFAULT_RSP}
  BY DEF OfCommands, HasRsp, LeftAlways, ZCL_CMD, Responses
<1>8. PICK list \in (IF ids = << >> THEN Leftovers ELSE {ids}) :
          c = [discComplete |-> complete, cmdIDs |-> list]
  BY <1>5, DiscCmdIs
<1>9. list \in Seq(Nat)
  <2>1. Leftovers \subseteq Seq(Nat)
    <3>1. \A x \in Byte : x \in Nat
      BY ByteIs
    <3>2. \A s \in Seq(Byte) : s \in Seq(Nat)
      BY <3>1
    <3> QED BY <3>2, ValuesAssumption
  <2>2. ids \in Seq(Nat)
    <3>1. IsFirst(ids, From(CmdIDs(msg), msg.attrCmd.startCmdID), msg.attrCmd.maxCmdID)
      BY <1>3, CmdsFoundIs
    <3>2. \A x \in From(CmdIDs(msg), msg.attrCmd.startCmdID) : x \in Nat
      <4>1. \A x \in CmdIDs(msg) : x \in Byte
        BY NextCmdIs
      <4> QED BY <4>1, ByteIs DEF From
    <3> HIDE DEF ids
    <3> QED BY <3>1, <3>2 DEF IsFirst
  <2> HIDE DEF ids
  <2> QED BY <2>1, <2>2
<1>10. complete \in Nat
  BY DEF Flag
<1> HIDE DEF complete
<1>11. Payload(cmd + 1, c) \in Seq(Nat)
  BY <1>7, <1>8, <1>9, <1>10, DiscCmdsRspBytes
<1> QED BY <1>5, <1>6, <1>7, <1>11, ReplyIs

LEMMA RepliesAre ==
    ASSUME Registered, vals \in Values, IsAsked, NEW p, IsRequest(p), Foundation,
           NEW r \in zclProcessCmd(Msg(p))
    PROVE  IsReply(r)
<1> DEFINE cmd == asked.hdr.cmd
<1>1. CASE cmd = ZCL_CMD.READ
  BY <1>1, ReadReply
<1>2. CASE cmd \in {ZCL_CMD.WRITE, ZCL_CMD.WRITE_UNDIVIDED, ZCL_CMD.WRITE_NO_RSP}
  BY <1>2, WriteReply
<1>3. CASE OfAttributes
  BY <1>3, AttrsReply
<1>4. CASE OfCommands
  BY <1>4, CmdsReply
<1>5. CASE /\ cmd # ZCL_CMD.READ
           /\ cmd \notin {ZCL_CMD.WRITE, ZCL_CMD.WRITE_UNDIVIDED, ZCL_CMD.WRITE_NO_RSP}
           /\ ~OfAttributes /\ ~OfCommands
  <2>1. Msg(p).hdr = asked.hdr
    BY RequestParsed
  <2>2. zclProcessCmd(Msg(p)) = {[vals |-> vals, sent |-> << >>]}
    BY <1>5, <2>1 DEF zclProcessCmd, OfAttributes, OfCommands
  <2>3. r = [vals |-> vals, sent |-> << >>]
    BY <2>2
  <2>4. ~(HasRsp(cmd) /\ ~LeftAlways(cmd))
    BY <1>5 DEF HasRsp, LeftAlways, OfAttributes, OfCommands
  <2> QED BY <2>3, <2>4 DEF IsReply
<1> QED BY <1>1, <1>2, <1>3, <1>4, <1>5

--------------------------------------------------------------------------------
(* The outcome of a cluster's command: at most one response, and one for     *)
(* each that has to have one, but to a question for groups it is not in.     *)
IsOutcome(msg, r) ==
    /\ r.stat \in {ZSuccess, ZFailure, CMD_HAS_RSP}
    /\ r.rsp = << >> \/ \E x : r.rsp = <<x>>
    /\ r.stat # CMD_HAS_RSP => r.rsp = << >>
    /\ msg.unicast /\ r.stat = CMD_HAS_RSP /\ r.rsp = << >> =>
          /\ msg.clusterId = GROUPS /\ msg.hdr.cmd = GROUP.GET_MEMBERSHIP
          /\ msg.attrCmd.groupList # {}
          /\ msg.attrCmd.groupList \cap groups = {}
          /\ r.leaves = {} /\ r.joins = {}
    /\ r.stat = CMD_HAS_RSP => msg.hdr.direction # 1

LEMMA ResultOutcome ==
    ASSUME NEW w, NEW msg, NEW stat \in {ZSuccess, ZFailure}
    PROVE  IsOutcome(msg, Result(w, stat, << >>))
BY DEF IsOutcome, Result, ZSuccess, ZFailure, CMD_HAS_RSP

LEMMA AnswerOutcome ==
    ASSUME NEW w, NEW msg, msg.hdr.direction # 1, NEW x
    PROVE  IsOutcome(msg, Answer(w, msg, x))
<1> DEFINE r == Answer(w, msg, x)
<1>1. r.stat = CMD_HAS_RSP /\ r.rsp = IF msg.unicast THEN <<x>> ELSE << >>
  BY DEF Answer, Result
<1> HIDE DEF r
<1>2. IsOutcome(msg, r)
  BY <1>1 DEF IsOutcome
<1> QED BY <1>2 DEF r

LEMMA ScenesOutcome ==
    ASSUME NEW msg, msg.hdr.direction # 1, NEW change
    PROVE  IsOutcome(msg, zclGeneral_ProcessInScenesServer(msg, change))
<1> DEFINE cmd == msg.hdr.cmd
           r == zclGeneral_ProcessInScenesServer(msg, change)
<1>1. ZSuccess # CMD_HAS_RSP /\ ZFailure # CMD_HAS_RSP
  BY DEF ZSuccess, ZFailure, CMD_HAS_RSP
<1>2. IsOutcome(msg, SceneAdd(msg))
  BY AnswerOutcome DEF SceneAdd
<1>3. IsOutcome(msg, SceneView(msg))
  BY AnswerOutcome DEF SceneView
<1>4. IsOutcome(msg, SceneRemove(msg))
  BY AnswerOutcome DEF SceneRemove
<1>5. IsOutcome(msg, SceneRemoveAll(msg))
  BY AnswerOutcome DEF SceneRemoveAll
<1>6. IsOutcome(msg, SceneStore(msg, change))
  BY AnswerOutcome DEF SceneStore
<1>7. IsOutcome(msg, SceneRecall(msg))
  BY <1>1, ResultOutcome DEF SceneRecall
<1>8. IsOutcome(msg, SceneGetMembership(msg))
  BY AnswerOutcome DEF SceneGetMembership
<1>9. IsOutcome(msg, SceneCopy(msg))
  BY AnswerOutcome DEF SceneCopy
<1>10. IsOutcome(msg, Result(Now, ZFailure, << >>))
  BY <1>1, ResultOutcome
<1>11. r \in {SceneAdd(msg), SceneView(msg), SceneRemove(msg), SceneRemoveAll(msg),
              SceneStore(msg, change), SceneRecall(msg), SceneGetMembership(msg),
              SceneCopy(msg), Result(Now, ZFailure, << >>)}
  BY DEF zclGeneral_ProcessInScenesServer, SCENE
<1> HIDE DEF r
<1>12. IsOutcome(msg, r)
  BY <1>2, <1>3, <1>4, <1>5, <1>6, <1>7, <1>8, <1>9, <1>10, <1>11
<1> QED BY <1>12 DEF r

LEMMA GroupsOutcome ==
    ASSUME NEW msg, msg.hdr.direction # 1, msg.unicast \in BOOLEAN,
           msg.clusterId = GROUPS, NEW identifying
    PROVE  IsOutcome(msg, zclGeneral_ProcessInGroupsServer(msg, identifying))
<1> DEFINE cmd == msg.hdr.cmd
           r == zclGeneral_ProcessInGroupsServer(msg, identifying)
<1>1. ZSuccess # CMD_HAS_RSP /\ ZFailure # CMD_HAS_RSP
  BY DEF ZSuccess, ZFailure, CMD_HAS_RSP
<1>2. ASSUME NEW w, NEW x PROVE IsOutcome(msg, OnlyUnicast(w, msg, x))
  <2> DEFINE o == OnlyUnicast(w, msg, x)
  <2>1. /\ o.stat = IF msg.unicast THEN CMD_HAS_RSP ELSE ZSuccess
        /\ o.rsp = IF msg.unicast THEN <<x>> ELSE << >>
    BY DEF OnlyUnicast, Result
  <2> HIDE DEF o
  <2>2. IsOutcome(msg, o)
    BY <1>1, <2>1 DEF IsOutcome
  <2> QED BY <2>2 DEF o
<1>3. ASSUME NEW o, IsOutcome(msg, o), o.rsp # << >> \/ o.stat # CMD_HAS_RSP
             \/ ~msg.unicast,
             NEW q, q.stat = o.stat, q.rsp = o.rsp
      PROVE  IsOutcome(msg, q)
  BY <1>3 DEF IsOutcome
<1>4. ASSUME NEW w, NEW x
      PROVE  LET o == OnlyUnicast(w, msg, x)
             IN o.rsp # << >> \/ o.stat # CMD_HAS_RSP \/ ~msg.unicast
  BY DEF OnlyUnicast, Result
<1>5. IsOutcome(msg, GroupAdd(msg))
  <2> DEFINE o == OnlyUnicast(Now, msg, [status |-> AddStatus(msg.attrCmd.groupID)])
             q == GroupAdd(msg)
  <2>1. q.stat = o.stat /\ q.rsp = o.rsp
    BY DEF GroupAdd, OnlyUnicast, Result
  <2>2. IsOutcome(msg, o) /\ (o.rsp # << >> \/ o.stat # CMD_HAS_RSP \/ ~msg.unicast)
    BY <1>2, <1>4
  <2> HIDE DEF o, q
  <2>3. IsOutcome(msg, q)
    BY <1>3, <2>1, <2>2
  <2> QED BY <2>3 DEF q
<1>6. IsOutcome(msg, GroupView(msg))
  BY <1>2 DEF GroupView
<1>7. cmd = GROUP.GET_MEMBERSHIP => IsOutcome(msg, GroupGetMembership(msg))
  <2> DEFINE list == msg.attrCmd.groupList
             own == IF list = {} THEN groups ELSE list \cap groups
             o == OnlyUnicast(Now, msg, [groupList |-> own])
             q == GroupGetMembership(msg)
  <2>1. IsOutcome(msg, o)
    BY <1>2
  <2>2. CASE list = {} \/ own # {}
    <3>1. q = o
      BY <2>2 DEF GroupGetMembership
    <3> HIDE DEF o, q
    <3>2. IsOutcome(msg, q)
      BY <2>1, <3>1
    <3> QED BY <3>2 DEF q
  <2>3. CASE ~(list = {} \/ own # {})
    <3>1. q = [o EXCEPT !.rsp = << >>]
      BY <2>3 DEF GroupGetMembership
    <3>2. /\ q.stat = (IF msg.unicast THEN CMD_HAS_RSP ELSE ZSuccess)
          /\ q.rsp = << >> /\ q.leaves = {} /\ q.joins = {}
      BY <3>1 DEF OnlyUnicast, Result
    <3>3. list # {} /\ list \cap groups = {}
      BY <2>3
    <3> HIDE DEF o, q, own, list
    <3>4. cmd = GROUP.GET_MEMBERSHIP => IsOutcome(msg, q)
      BY <1>1, <3>2, <3>3 DEF IsOutcome, list
    <3> QED BY <3>4 DEF q
  <2> QED BY <2>2, <2>3
<1>8. IsOutcome(msg, GroupRemove(msg))
  <2> DEFINE g == msg.attrCmd.groupID
             o == OnlyUnicast(zclGeneral_RemoveAllScenes(Now, g), msg,
                      [status |-> IF GroupExists(g) THEN SUCCESS ELSE NOT_FOUND])
             q == GroupRemove(msg)
  <2>1. q.stat = o.stat /\ q.rsp = o.rsp
    BY DEF GroupRemove, OnlyUnicast, Result
  <2>2. IsOutcome(msg, o) /\ (o.rsp # << >> \/ o.stat # CMD_HAS_RSP \/ ~msg.unicast)
    BY <1>2, <1>4
  <2> HIDE DEF o, q
  <2>3. IsOutcome(msg, q)
    BY <1>3, <2>1, <2>2
  <2> QED BY <2>3 DEF q
<1>9. IsOutcome(msg, GroupRemoveAll(msg))
  <2> DEFINE q == GroupRemoveAll(msg)
  <2>1. q.stat = ZSuccess /\ q.rsp = << >>
    BY DEF GroupRemoveAll, Result
  <2> HIDE DEF q
  <2>2. IsOutcome(msg, q)
    BY <1>1, <2>1 DEF IsOutcome
  <2> QED BY <2>2 DEF q
<1>10. IsOutcome(msg, GroupAddIfIdentifying(msg, identifying))
  <2> DEFINE q == GroupAddIfIdentifying(msg, identifying)
  <2>1. q.stat = ZSuccess /\ q.rsp = << >>
    BY DEF GroupAddIfIdentifying, Result
  <2> HIDE DEF q
  <2>2. IsOutcome(msg, q)
    BY <1>1, <2>1 DEF IsOutcome
  <2> QED BY <2>2 DEF q
<1>11. IsOutcome(msg, Result(Now, ZFailure, << >>))
  BY <1>1, ResultOutcome
<1>12. \/ r \in {GroupAdd(msg), GroupView(msg), GroupRemove(msg),
                 GroupRemoveAll(msg), GroupAddIfIdentifying(msg, identifying),
                 Result(Now, ZFailure, << >>)}
       \/ cmd = GROUP.GET_MEMBERSHIP /\ r = GroupGetMembership(msg)
  BY DEF zclGeneral_ProcessInGroupsServer, GROUP
<1> HIDE DEF r
<1>13. IsOutcome(msg, r)
  BY <1>5, <1>6, <1>7, <1>8, <1>9, <1>10, <1>11, <1>12
<1> QED BY <1>13 DEF r

LEMMA SpecificOutcome ==
    ASSUME NEW msg, msg.unicast \in BOOLEAN, msg.hdr.direction \in {0, 1},
           NEW r \in zclGeneral_HdlIncoming(msg)
    PROVE  IsOutcome(msg, r)
<1>1. ZSuccess # CMD_HAS_RSP /\ ZFailure # CMD_HAS_RSP
  BY DEF ZSuccess, ZFailure, CMD_HAS_RSP
<1>2. IsOutcome(msg, Result(Now, ZFailure, << >>))
      /\ IsOutcome(msg, Result(Now, ZSuccess, << >>))
  BY <1>1, ResultOutcome
<1>3. SUFFICES ASSUME r # Result(Now, ZFailure, << >>),
                      r # Result(Now, ZSuccess, << >>)
      PROVE  IsOutcome(msg, r)
  BY <1>2
<1>4. r \in zclGeneral_HdlInSpecificCommands(msg)
  BY <1>3 DEF zclGeneral_HdlIncoming
<1>5. /\ msg.hdr.direction # 1
      /\ \/ msg.clusterId = BASIC /\ r = zclGeneral_ProcessInBasic(msg)
         \/ msg.clusterId = IDENTIFY /\ r = zclGeneral_ProcessInIdentity(msg)
         \/ /\ msg.clusterId = GROUPS
            /\ r = zclGeneral_ProcessInGroupsServer(msg,
                       IdentifyTime(msg.endPoint) > 0)
         \/ \E change \in Transitions \cup {Unchanged} :
               r = zclGeneral_ProcessInScenesServer(msg, change)
  <2> DEFINE H == zclGeneral_HdlInSpecificCommands(msg)
             cluster == msg.clusterId
  <2>1. msg.endPoint \in WithCallbacks
    <3>1. msg.endPoint \notin WithCallbacks => H = {Result(Now, ZFailure, << >>)}
      BY DEF zclGeneral_HdlInSpecificCommands
    <3> QED BY <1>3, <1>4, <3>1
  <2>2. msg.hdr.direction # 1
    <3>1. msg.hdr.direction = 1 => H = {zclGeneral_ProcessInClient(msg)}
      BY <2>1 DEF zclGeneral_HdlInSpecificCommands
    <3> QED BY <1>3, <1>4, <3>1 DEF zclGeneral_ProcessInClient
  <2>3. BASIC # IDENTIFY /\ BASIC # GROUPS /\ BASIC # SCENES
        /\ IDENTIFY # GROUPS /\ IDENTIFY # SCENES /\ GROUPS # SCENES
    BY DEF BASIC, IDENTIFY, GROUPS, SCENES
  <2>4. cluster = BASIC => H = {zclGeneral_ProcessInBasic(msg)}
    BY <2>1, <2>2, <2>3 DEF zclGeneral_HdlInSpecificCommands
  <2>5. cluster = IDENTIFY => H = {zclGeneral_ProcessInIdentity(msg)}
    BY <2>1, <2>2, <2>3 DEF zclGeneral_HdlInSpecificCommands
  <2>6. cluster = GROUPS => H = {zclGeneral_ProcessInGroupsServer(msg,
                                     IdentifyTime(msg.endPoint) > 0)}
    BY <2>1, <2>2, <2>3 DEF zclGeneral_HdlInSpecificCommands
  <2>7. cluster = SCENES => H = {zclGeneral_ProcessInScenesServer(msg, change) :
                                 change \in Transitions \cup {Unchanged}}
    BY <2>1, <2>2, <2>3 DEF zclGeneral_HdlInSpecificCommands
  <2>8. cluster \notin {BASIC, IDENTIFY, GROUPS, SCENES} =>
            H = {Result(Now, ZFailure, << >>)}
    BY <2>1, <2>2 DEF zclGeneral_HdlInSpecificCommands
  <2> HIDE DEF H
  <2> QED BY <1>3, <1>4, <2>2, <2>4, <2>5, <2>6, <2>7, <2>8 DEF H
<1>6. CASE r = zclGeneral_ProcessInBasic(msg)
  BY <1>2, <1>6 DEF zclGeneral_ProcessInBasic
<1>7. CASE r = zclGeneral_ProcessInIdentity(msg)
  <2>1. r = Result(Now, CMD_HAS_RSP, <<[timeout |-> IdentifyTime(msg.endPoint)]>>)
    BY <1>3, <1>7 DEF zclGeneral_ProcessInIdentity
  <2>2. r.stat = CMD_HAS_RSP /\ r.rsp = <<[timeout |-> IdentifyTime(msg.endPoint)]>>
    BY <2>1 DEF Result
  <2> QED BY <1>5, <2>2 DEF IsOutcome
<1> QED BY <1>5, <1>6, <1>7, GroupsOutcome, ScenesOutcome

--------------------------------------------------------------------------------
(* A frame that is sent, and the answer it makes.                            *)
LEMMA SentIs ==
    ASSUME Registered, NEW v \in Values, NEW to, NEW hdr, NEW c, NEW secured
    PROVE  LET s == zcl_SendCommand(v, to, hdr, c, secured)
           IN \/ s = << >> /\ ~EnabledBy(v)
              \/ \E a : /\ s = <<a>>
                        /\ a.src = to.src /\ a.dst = to.dst
                        /\ a.clusterId = to.clusterId /\ a.unicast = to.unicast
                        /\ a.hdr = hdr /\ a.meant = c
                        /\ a.data = zclBuildHdr(hdr)
                                    \o (IF hdr.type = PROFILE /\ Known(hdr.cmd)
                                        THEN Payload(hdr.cmd, c) ELSE << >>)
<1> DEFINE s == zcl_SendCommand(v, to, hdr, c, secured)
           data == zclBuildHdr(hdr)
                   \o (IF hdr.type = PROFILE /\ Known(hdr.cmd)
                       THEN Payload(hdr.cmd, c) ELSE << >>)
           a == [src |-> to.src, dst |-> to.dst, clusterId |-> to.clusterId,
                 unicast |-> to.unicast, secure |-> secured, hdr |-> hdr,
                 meant |-> c, data |-> data]
<1>1. CASE ~zcl_DeviceOperational(v, to.src, to.clusterId, hdr.type, hdr.cmd)
  <2>1. s = << >>
    BY <1>1 DEF zcl_SendCommand
  <2>2. ~EnabledBy(v)
    BY <1>1, EnabledOperates
  <2> QED BY <2>1, <2>2
<1>2. CASE zcl_DeviceOperational(v, to.src, to.clusterId, hdr.type, hdr.cmd)
  <2>1. s = <<a>>
    BY <1>2 DEF zcl_SendCommand
  <2> HIDE DEF data
  <2>2. /\ a.src = to.src /\ a.dst = to.dst /\ a.clusterId = to.clusterId
        /\ a.unicast = to.unicast /\ a.hdr = hdr /\ a.meant = c /\ a.data = data
    OBVIOUS
  <2> HIDE DEF a, s
  <2> QED BY <2>1, <2>2 DEF data, s
<1> QED BY <1>1, <1>2

\* The asked endpoint sends an answer or, being disabled, nothing.
OneAnswer(v, s) ==
    \/ s = << >> /\ ~EnabledBy(v)
    \/ \E a : s = <<a>> /\ IsAnswer(a)
LEMMA AnswerMade ==
    ASSUME Registered, IsAsked, NEW p, IsRequest(p), NEW v \in Values,
           NEW type \in {PROFILE, SPECIFIC}, NEW manu \in Word, NEW cmd \in Byte,
           NEW c, NEW secured,
           type = SPECIFIC => asked.hdr.direction = 0,
           type = PROFILE => cmd \in Responses /\ Payload(cmd, c) \in Seq(Nat),
           asked.hdr.disableDefaultRsp /\ type = PROFILE
               /\ cmd = ZCL_CMD.DEFAULT_RSP => c.statusCode = ZCL_STATUS.FAILURE,
           Foundation /\ (OfAttributes \/ OfCommands) /\ cmd = asked.hdr.cmd + 1
               => Exact(c)
    PROVE  OneAnswer(v, zcl_SendCommand(v, Back(Msg(p)),
                            AnswerHdr(Msg(p), type, manu, cmd), c, secured))
<1> DEFINE msg == Msg(p)
           to == Back(msg)
           hdr == AnswerHdr(msg, type, manu, cmd)
           s == zcl_SendCommand(v, to, hdr, c, secured)
           d == IF hdr.type = PROFILE /\ Known(hdr.cmd) THEN Payload(hdr.cmd, c)
                ELSE << >>
<1>1. msg.src = asked.src /\ msg.hdr = asked.hdr
  BY RequestParsed
<1>2. asked.hdr \in FrameHeader
  BY AskedIs
<1>3. to.dst = asked.src
  <2> HIDE DEF msg
  <2> QED BY <1>1 DEF Back
<1>4. hdr = [type |-> type, manuCode |-> manu,
             direction |-> 1 - asked.hdr.direction, disableDefaultRsp |-> TRUE,
             seq |-> asked.hdr.seq, cmd |-> cmd]
  <2> HIDE DEF msg
  <2> QED BY <1>1 DEF AnswerHdr
<1>5. 1 - asked.hdr.direction \in {0, 1} /\ asked.hdr.seq \in Byte
      /\ (asked.hdr.direction = 0 => 1 - asked.hdr.direction = 1)
  <2>1. asked.hdr.direction \in {0, 1} /\ asked.hdr.seq \in Byte
    BY <1>2 DEF FrameHeader
  <2> QED BY <2>1
<1> HIDE DEF hdr, to
<1>6. hdr \in FrameHeader /\ hdr.type = type /\ hdr.cmd = cmd
      /\ hdr.seq = asked.hdr.seq /\ hdr.disableDefaultRsp
      /\ hdr.direction = 1 - asked.hdr.direction
  BY <1>4, <1>5 DEF FrameHeader
<1>7. d \in Seq(Nat)
  <2>1. << >> \in Seq(Nat)
    OBVIOUS
  <2> QED BY <1>6, <2>1
<1>8. ASSUME NEW a, a.dst = to.dst, a.hdr = hdr, a.meant = c,
             a.data = zclBuildHdr(hdr) \o d
      PROVE  IsAnswer(a)
  <2>1. \E x \in Seq(Nat) : a.data = zclBuildHdr(a.hdr) \o x
    <3> HIDE DEF d
    <3> QED BY <1>7, <1>8
  <2>2. a.hdr.type = SPECIFIC => a.hdr.direction = 1
    BY <1>5, <1>6, <1>8
  <2> QED BY <1>3, <1>6, <1>8, <2>1, <2>2 DEF IsAnswer
<1>9. \/ s = << >> /\ ~EnabledBy(v)
      \/ \E a : s = <<a>> /\ a.dst = to.dst /\ a.hdr = hdr /\ a.meant = c
                /\ a.data = zclBuildHdr(hdr) \o d
  BY SentIs
<1> HIDE DEF s, d
<1>10. OneAnswer(v, s)
  BY <1>8, <1>9 DEF OneAnswer
<1> QED BY <1>10 DEF s, hdr, to, msg

LEMMA DefaultMade ==
    ASSUME Registered, IsAsked, NEW p, IsRequest(p), NEW v \in Values,
           NEW status \in Nat, NEW secured,
           asked.hdr.disableDefaultRsp => status = ZCL_STATUS.FAILURE
    PROVE  OneAnswer(v, zcl_SendDefaultRsp(v, Msg(p), status, secured))
<1> DEFINE msg == Msg(p)
           c == [commandID |-> msg.hdr.cmd, statusCode |-> status]
           cmd == ZCL_CMD.DEFAULT_RSP
<1>1. msg.hdr = asked.hdr
  BY RequestParsed
<1>2. asked.hdr.manuCode \in Word /\ asked.hdr.cmd \in Nat
  <2>1. asked.hdr \in FrameHeader
    BY AskedIs
  <2>2. asked.hdr.manuCode \in Word /\ asked.hdr.cmd \in Byte
    BY <2>1 DEF FrameHeader
  <2> QED BY <2>2, ByteIs
<1> HIDE DEF msg
<1>3. c.statusCode = status /\ c.commandID \in Nat
  BY <1>1, <1>2
<1> HIDE DEF c
<1>4. Payload(cmd, c) \in Seq(Nat)
  <2>1. Payload(cmd, c) = <<c.commandID, c.statusCode>>
    BY DEF Payload, ZCL_CMD, zcl_SendDefaultRspCmd
  <2> QED BY <1>3, <2>1
<1>5. cmd \in Byte /\ cmd \in Responses
  <2>1. cmd \in Nat /\ cmd < 256
    BY DEF ZCL_CMD
  <2>2. cmd \in Responses
    BY DEF Responses
  <2> QED BY <2>1, <2>2, ByteIs
<1>6. ~(Foundation /\ (OfAttributes \/ OfCommands) /\ cmd = asked.hdr.cmd + 1)
  BY DEF OfAttributes, OfCommands, ZCL_CMD
<1>7. PROFILE \in {PROFILE, SPECIFIC} /\ PROFILE # SPECIFIC
  BY DEF PROFILE, SPECIFIC
<1> HIDE DEF cmd
<1>8. OneAnswer(v, zcl_SendCommand(v, Back(Msg(p)),
              AnswerHdr(Msg(p), PROFILE, asked.hdr.manuCode, cmd), c, secured))
  BY <1>2, <1>3, <1>4, <1>5, <1>6, <1>7, AnswerMade
<1> QED BY <1>1, <1>8 DEF zcl_SendDefaultRsp, msg, c, cmd

LEMMA AnswerStays ==
    ASSUME UNCHANGED <<asked, registry>>, NEW a, IsAnswer(a)
    PROVE  IsAnswer(a)'
<1>1. UNCHANGED <<asked, attrList, gpCmdList>>
  BY DEF registry
<1>2. OfAttributes' = OfAttributes /\ OfCommands' = OfCommands
      /\ Foundation' = Foundation
  BY <1>1 DEF OfAttributes, OfCommands, Foundation
<1>3. ASSUME NEW ep
      PROVE  Attributes(ep)' = Attributes(ep) /\ Commands(ep)' = Commands(ep)
  <2>1. zclFindAttrRecsList(ep)' = zclFindAttrRecsList(ep)
    BY <1>1 DEF zclFindAttrRecsList, SelectInSeq
  <2>2. zclFindCmdRecsList(ep)' = zclFindCmdRecsList(ep)
    BY <1>1 DEF zclFindCmdRecsList, SelectInSeq
  <2> QED BY <1>1, <2>1, <2>2 DEF Attributes, Commands
<1>4. Offered' = Offered /\ Most' = Most
  BY <1>1, <1>2, <1>3 DEF Offered, Most, Wanted
<1>5. Exact(a.meant)' = Exact(a.meant)
  BY <1>2, <1>4 DEF Exact, IDs
<1> QED BY <1>1, <1>2, <1>5 DEF IsAnswer

LEMMA RegisteredStays ==
    ASSUME Registered, UNCHANGED <<topic, registry>>
    PROVE  Registered'
BY DEF Registered, registry

LEMMA AskedStays ==
    ASSUME IsAsked, UNCHANGED <<topic, asked>>
    PROVE  IsAsked'
BY DEF IsAsked

--------------------------------------------------------------------------------
(* The request is taken.                                                     *)
\* What may be heard while the one that was asked handles the request.
Unheard(given) == given = << >> \/ \E g : given = <<g>> /\ g.endPoint # asked.src
\* Nobody waits for an answer once this is its outcome.
NoneDueOf(v, r) ==
    asked.to.unicast /\ ~asked.hdr.disableDefaultRsp =>
        \/ asked.to.dst \notin Described
        \/ ~EnabledBy(v)
        \/ LeftToTheApplication
        \/ InNoneOfTheGroups /\ r.leaves = {} /\ r.joins = {}
LEMMA RequestTaken ==
    ASSUME Registered, IsAsked, asked # Nobody, Waiting, NEW v \in Values, NEW r,
           NEW sent, NEW given, Handled(v, r, sent, given), Unheard(given),
           \/ sent = << >> /\ NoneDueOf(v, r)
           \/ \E a : sent = <<a>> /\ IsAnswer(a)
    PROVE  ExchangeInv'
<1>1. PICK p : wire = <<p>> /\ IsRequest(p)
  BY DEF Waiting
<1>2. /\ wire' = Tail(wire) /\ vals' = v /\ replies' = sent
      /\ answers' = IF Head(wire).src = asked.src THEN answers \o sent ELSE answers
      /\ heard' = heard \o given
      /\ UNCHANGED <<registry, topic, asked>>
  BY DEF Handled
<1>3. Carry(r)
  BY DEF Handled
<1>4. wire' = << >> /\ Head(wire).src = asked.src
  BY <1>1, <1>2 DEF IsRequest
<1>5. answers = << >> /\ heard = << >>
  BY DEF Waiting
<1>6. Registered' /\ IsAsked' /\ vals' \in Values /\ asked' # Nobody
  BY <1>2, RegisteredStays, AskedStays
<1>7. (vals \in Values)'
  BY <1>6 DEF Values
<1>8. CASE sent = << >>
  <2>1. replies' = << >> /\ answers' = << >>
    BY <1>2, <1>4, <1>5, <1>8
  <2>2. NoneDueOf(v, r)
    BY <1>8
  <2>3. Enabled' <=> EnabledBy(v)
    BY <1>2 DEF Enabled, EnabledBy
  <2>4. LeftToTheApplication' <=> LeftToTheApplication
    BY <1>2 DEF LeftToTheApplication, Foundation
  <2>5. leaving' = r.leaves /\ groups' = groups \cup r.joins
    BY <1>3 DEF Carry
  <2>6. InNoneOfTheGroups /\ r.leaves = {} /\ r.joins = {}
        => InNoneOfTheGroups' /\ leaving' = {}
    BY <1>2, <2>5 DEF InNoneOfTheGroups
  <2>7. NoneDue'
    BY <1>2, <2>2, <2>3, <2>4, <2>6 DEF NoneDue, NoneDueOf
  <2>8. Unreplied'
    BY <1>4, <2>1, <2>7 DEF Unreplied
  <2> QED BY <1>6, <1>7, <2>8 DEF ExchangeInv, Nobody
<1>9. CASE \E a : sent = <<a>> /\ IsAnswer(a)
  <2>1. PICK a : sent = <<a>> /\ IsAnswer(a)
    BY <1>9
  <2>2. replies' = <<a>> /\ answers' = <<a>>
    <3>1. << >> \o <<a>> = <<a>>
      OBVIOUS
    <3> QED BY <1>2, <1>4, <1>5, <2>1, <3>1
  <2>3. IsAnswer(a)'
    BY <1>2, <2>1, AnswerStays
  <2>4. HeardElsewhere'
    <3>1. CASE given = << >>
      <4>1. heard' = << >>
        BY <1>2, <1>5, <3>1
      <4> QED BY <4>1 DEF HeardElsewhere
    <3>2. CASE \E g : given = <<g>> /\ g.endPoint # asked.src
      <4>1. PICK g : given = <<g>> /\ g.endPoint # asked.src
        BY <3>2
      <4>2. << >> \o <<g>> = <<g>>
        OBVIOUS
      <4>3. heard' = <<g>> /\ asked' = asked
        BY <1>2, <1>5, <4>1, <4>2
      <4> QED BY <4>1, <4>3 DEF HeardElsewhere
    <3> QED BY <3>1, <3>2 DEF Unheard
  <2>5. Replied'
    BY <1>4, <2>2, <2>3, <2>4 DEF Replied
  <2> QED BY <1>6, <1>7, <2>5 DEF ExchangeInv, Nobody
<1> QED BY <1>8, <1>9

LEMMA OneAnswerTaken ==
    ASSUME NEW v, NEW sent, OneAnswer(v, sent), NEW r
    PROVE  \/ sent = << >> /\ NoneDueOf(v, r)
           \/ \E a : sent = <<a>> /\ IsAnswer(a)
BY DEF OneAnswer, NoneDueOf

LEMMA DefaultTaken ==
    ASSUME Registered, IsAsked, NEW p, IsRequest(p), NEW v \in Values,
           NEW status \in Nat, NEW r
    PROVE  LET sent == DefaultRsp(v, Msg(p), status)
           IN \/ sent = << >> /\ NoneDueOf(v, r)
              \/ \E a : sent = <<a>> /\ IsAnswer(a)
<1> DEFINE msg == Msg(p)
           sent == DefaultRsp(v, msg, status)
<1>1. msg.unicast = asked.to.unicast /\ msg.hdr = asked.hdr
  BY RequestParsed
<1> HIDE DEF msg
<1>2. CASE asked.to.unicast /\ ~asked.hdr.disableDefaultRsp
  <2>1. sent = zcl_SendDefaultRsp(v, msg, status, Secured(msg))
    BY <1>1, <1>2 DEF DefaultRsp
  <2>2. OneAnswer(v, zcl_SendDefaultRsp(v, msg, status, Secured(msg)))
    BY <1>2, DefaultMade DEF msg
  <2>3. OneAnswer(v, sent)
    BY <2>1, <2>2
  <2> HIDE DEF sent
  <2>4. \/ sent = << >> /\ NoneDueOf(v, r)
        \/ \E a : sent = <<a>> /\ IsAnswer(a)
    BY <2>3, OneAnswerTaken
  <2> QED BY <2>4 DEF sent, msg
<1>3. CASE ~(asked.to.unicast /\ ~asked.hdr.disableDefaultRsp)
  <2>1. sent = << >>
    BY <1>1, <1>3 DEF DefaultRsp
  <2>2. NoneDueOf(v, r)
    BY <1>3 DEF NoneDueOf
  <2> HIDE DEF sent
  <2>3. \/ sent = << >> /\ NoneDueOf(v, r)
        \/ \E a : sent = <<a>> /\ IsAnswer(a)
    BY <2>1, <2>2
  <2> QED BY <2>3 DEF sent, msg
<1> QED BY <1>2, <1>3

--------------------------------------------------------------------------------
(* The steps that take the request.                                          *)
LEMMA Alone ==
    ASSUME NEW x, x = << >> \/ \E a : x = <<a>>
    PROVE  << >> \o x = x /\ x \o << >> = x
<1>1. CASE x = << >>
  BY <1>1
<1>2. CASE \E a : x = <<a>>
  <2>1. PICK a : x = <<a>>
    BY <1>2
  <2>2. << >> \o <<a>> = <<a>> /\ <<a>> \o << >> = <<a>>
    OBVIOUS
  <2> QED BY <2>1, <2>2
<1> QED BY <1>1, <1>2

LEMMA OneJoined ==
    ASSUME NEW x, x = << >> \/ \E a : x = <<a>>, NEW ss, ss = [k \in 1 .. 1 |-> x]
    PROVE  FlattenSeq(ss) = x
<1>1. PICK S : x \in Seq(S)
  <2>1. CASE x = << >>
    <3>1. x \in Seq(Nat)
      BY <2>1
    <3> QED BY <3>1
  <2>2. CASE \E a : x = <<a>>
    <3>1. PICK a : x = <<a>>
      BY <2>2
    <3>2. x \in Seq({a})
      BY <3>1
    <3> QED BY <3>2
  <2> QED BY <2>1, <2>2
<1>2. ss \in [1 .. 1 -> Seq(S)] /\ ss[1] = x
  BY <1>1
<1>3. 1 \in Nat
  OBVIOUS
<1> QED BY <1>2, <1>3, Joins

LEMMA NoneJoined ==
    ASSUME NEW ss, ss = << >>
    PROVE  FlattenSeq(ss) = << >>
<1>1. ss = [k \in 1 .. 0 |-> << >>]
  OBVIOUS
<1>2. 0 \in Nat
  OBVIOUS
<1> QED BY <1>1, <1>2, NothingJoined

LEMMA IgnoreTaken ==
    ASSUME Registered, vals \in Values, IsAsked, asked # Nobody, Waiting, Ignore
    PROVE  ExchangeInv'
<1>1. PICK p : wire = <<p>> /\ IsRequest(p)
  BY DEF Waiting
<1>2. Head(wire) = p
  BY <1>1
<1>3. ~Handles(p) /\ Handled(vals, Quiet, << >>, << >>)
  BY <1>2 DEF Ignore
<1>4. asked.to.dst \notin Described \/ ~EnabledBy(vals)
  <2>1. p.dst = asked.to.dst
    BY <1>1 DEF IsRequest
  <2>2. zcl_DeviceOperational(vals, p.dst, p.clusterId, p.hdr.type, p.hdr.cmd)
        \/ ~EnabledBy(vals)
    BY EnabledOperates
  <2> QED BY <1>3, <2>1, <2>2 DEF Handles
<1>5. NoneDueOf(vals, Quiet)
  BY <1>4 DEF NoneDueOf
<1>6. Unheard(<< >>)
  BY DEF Unheard
<1> QED BY <1>3, <1>5, <1>6, RequestTaken

LEMMA RejectInsecureTaken ==
    ASSUME Registered, vals \in Values, IsAsked, asked # Nobody, Waiting,
           RejectInsecure
    PROVE  ExchangeInv'
<1>1. PICK p : wire = <<p>> /\ IsRequest(p)
  BY DEF Waiting
<1> DEFINE msg == Msg(p)
           sent == IF msg.unicast THEN zcl_SendDefaultRsp(vals, msg, ZFailure, FALSE)
                   ELSE << >>
<1>2. Head(wire) = p
  BY <1>1
<1>3. Handled(vals, Quiet, sent, << >>)
  BY <1>2 DEF RejectInsecure
<1>4. msg.unicast = asked.to.unicast
  BY <1>1, RequestParsed
<1>5. ZFailure \in Nat /\ ZFailure = ZCL_STATUS.FAILURE
  BY DEF ZFailure, ZCL_STATUS
<1>6. OneAnswer(vals, zcl_SendDefaultRsp(vals, msg, ZFailure, FALSE))
  BY <1>1, <1>5, DefaultMade
<1>7. Unheard(<< >>)
  BY DEF Unheard
<1> HIDE DEF msg
<1>8. CASE msg.unicast
  <2>1. OneAnswer(vals, sent)
    BY <1>6, <1>8
  <2> HIDE DEF sent
  <2>2. \/ sent = << >> /\ NoneDueOf(vals, Quiet)
        \/ \E a : sent = <<a>> /\ IsAnswer(a)
    BY <2>1, OneAnswerTaken
  <2> QED BY <1>3, <1>7, <2>2, RequestTaken
<1>9. CASE ~msg.unicast
  <2>1. sent = << >>
    BY <1>9
  <2>2. NoneDueOf(vals, Quiet)
    BY <1>4, <1>9 DEF NoneDueOf
  <2> HIDE DEF sent
  <2> QED BY <1>3, <1>7, <2>1, <2>2, RequestTaken
<1> QED BY <1>8, <1>9

\* It is the asked endpoint's tasks that are given the request.
LEMMA GivenThere ==
    ASSUME Registered, IsAsked, NEW p, IsRequest(p), NEW task
    PROVE  Unheard(<<Given(task, Msg(p))>>)
<1> DEFINE g == Given(task, Msg(p))
<1>1. Msg(p).endPoint = asked.to.dst
  BY RequestParsed
<1>2. g.endPoint = Msg(p).endPoint
  BY DEF Given
<1>3. asked.to.dst # asked.src
  BY AskedIs
<1> HIDE DEF g
<1>4. Unheard(<<g>>)
  BY <1>1, <1>2, <1>3 DEF Unheard
<1> QED BY <1>4 DEF g

LEMMA ProcessFoundationTaken ==
    ASSUME Registered, vals \in Values, IsAsked, asked # Nobody, Waiting,
           ProcessFoundation
    PROVE  ExchangeInv'
<1>1. PICK p : wire = <<p>> /\ IsRequest(p)
  BY DEF Waiting
<1> DEFINE msg == Msg(p)
           cmd == msg.hdr.cmd
           first(r) == FlattenSeq([k \in DOMAIN r.sent |->
                           Send(r.vals, msg, r.sent[k].cmd, r.sent[k].c)])
           second(r) == IF HasRsp(cmd) THEN << >>
                        ELSE DefaultRsp(r.vals, msg, ZCL_STATUS.SUCCESS)
           given == IF External(cmd) THEN zcl_HandleExternal(msg) ELSE << >>
<1>2. Head(wire) = p
  BY <1>1
<1>3. /\ msg.hdr.type = PROFILE /\ msg.hdr.manuCode = 0 /\ Known(cmd)
      /\ \E r \in zclProcessCmd(msg) :
            Handled(r.vals, Quiet, first(r) \o second(r), given)
  BY <1>2 DEF ProcessFoundation, Parsed
<1>4. PICK r \in zclProcessCmd(msg) :
          Handled(r.vals, Quiet, first(r) \o second(r), given)
  BY <1>3
<1>5. msg.hdr = asked.hdr
  BY <1>1, RequestParsed
<1>6. Foundation
  <2> HIDE DEF msg
  <2> QED BY <1>3, <1>5 DEF Foundation
<1>7. IsReply(r)
  BY <1>1, <1>4, <1>6, RepliesAre
<1>8. r.vals \in Values
  BY <1>7 DEF IsReply
<1>9. Unheard(given)
  <2>1. \A task : Unheard(<<Given(task, msg)>>)
    BY <1>1, GivenThere
  <2>2. Unheard(<< >>)
    BY DEF Unheard
  <2> HIDE DEF msg
  <2> QED BY <2>1, <2>2 DEF zcl_HandleExternal
<1> DEFINE sent == first(r) \o second(r)
<1>10. CASE HasRsp(cmd) /\ ~LeftAlways(cmd)
  <2>1. PICK s : r.sent = <<s>> /\ IsResponse(s)
    <3> HIDE DEF msg
    <3> QED BY <1>5, <1>7, <1>10 DEF IsReply
  <2> DEFINE x == Send(r.vals, msg, s.cmd, s.c)
  <2>2. OneAnswer(r.vals, x)
    <3>1. s.cmd \in Byte /\ s.cmd # ZCL_CMD.DEFAULT_RSP /\ s.cmd \in Responses
          /\ Payload(s.cmd, s.c) \in Seq(Nat)
      <4>1. s.cmd \in Responses \ {ZCL_CMD.DEFAULT_RSP}
            /\ Payload(s.cmd, s.c) \in Seq(Nat)
        BY <2>1 DEF IsResponse
      <4>2. \A n \in Responses : n \in Nat /\ n < 256
        BY DEF Responses, ZCL_CMD
      <4> QED BY <4>1, <4>2, ByteIs
    <3>2. Foundation /\ (OfAttributes \/ OfCommands) /\ s.cmd = asked.hdr.cmd + 1
          => Exact(s.c)
      BY <2>1 DEF IsResponse
    <3>3. PROFILE \in {PROFILE, SPECIFIC} /\ PROFILE # SPECIFIC
      BY DEF PROFILE, SPECIFIC
    <3>4. 0 \in Word
      BY WordIs
    <3>5. OneAnswer(r.vals, zcl_SendCommand(r.vals, Back(msg),
                       AnswerHdr(msg, PROFILE, 0, s.cmd), s.c, Secured(msg)))
      BY <1>1, <1>8, <3>1, <3>2, <3>3, <3>4, AnswerMade
    <3> HIDE DEF msg
    <3> QED BY <3>5 DEF Send
  <2>3. x = << >> \/ \E a : x = <<a>>
    BY <2>2 DEF OneAnswer
  <2>4. first(r) = x
    <3>1. [k \in DOMAIN r.sent |-> Send(r.vals, msg, r.sent[k].cmd, r.sent[k].c)]
          = [k \in 1 .. 1 |-> x]
      BY <2>1
    <3> HIDE DEF x, msg
    <3> QED BY <2>3, <3>1, OneJoined
  <2>5. sent = x
    <3>1. second(r) = << >>
      BY <1>10
    <3> HIDE DEF first, second, x
    <3> QED BY <2>3, <2>4, <3>1, Alone
  <2> HIDE DEF x, sent
  <2>6. \/ sent = << >> /\ NoneDueOf(r.vals, Quiet)
        \/ \E a : sent = <<a>> /\ IsAnswer(a)
    BY <2>2, <2>5, OneAnswerTaken
  <2>7. Handled(r.vals, Quiet, sent, given)
    BY <1>4 DEF sent
  <2> HIDE DEF given
  <2> QED BY <1>8, <1>9, <2>6, <2>7, RequestTaken
<1>11. CASE ~(HasRsp(cmd) /\ ~LeftAlways(cmd))
  <2>1. r.sent = << >>
    <3> HIDE DEF msg
    <3> QED BY <1>5, <1>7, <1>11 DEF IsReply
  <2>2. first(r) = << >>
    <3>1. [k \in DOMAIN r.sent |-> Send(r.vals, msg, r.sent[k].cmd, r.sent[k].c)]
          = << >>
      BY <2>1
    <3> HIDE DEF msg
    <3> QED BY <3>1, NoneJoined
  <2>3. \/ second(r) = << >> /\ NoneDueOf(r.vals, Quiet)
        \/ \E a : second(r) = <<a>> /\ IsAnswer(a)
    <3>1. CASE HasRsp(cmd)
      <4>1. LeftToTheApplication
        <5> HIDE DEF msg
        <5> QED BY <1>5, <1>6, <1>11, <3>1 DEF LeftToTheApplication, LeftAlways
      <4>2. NoneDueOf(r.vals, Quiet)
        BY <4>1 DEF NoneDueOf
      <4> QED BY <3>1, <4>2
    <3>2. CASE ~HasRsp(cmd)
      <4>1. second(r) = DefaultRsp(r.vals, msg, ZCL_STATUS.SUCCESS)
        BY <3>2
      <4>2. ZCL_STATUS.SUCCESS \in Nat
        BY DEF ZCL_STATUS
      <4> DEFINE y == DefaultRsp(r.vals, msg, ZCL_STATUS.SUCCESS)
      <4>3. \/ y = << >> /\ NoneDueOf(r.vals, Quiet)
            \/ \E a : y = <<a>> /\ IsAnswer(a)
        BY <1>1, <1>8, <4>2, DefaultTaken
      <4> HIDE DEF y, second
      <4> QED BY <4>1, <4>3 DEF y
    <3> QED BY <3>1, <3>2
  <2>4. sent = second(r)
    <3> HIDE DEF first, second
    <3>1. second(r) = << >> \/ \E a : second(r) = <<a>>
      BY <2>3
    <3> QED BY <2>2, <3>1, Alone
  <2>5. Handled(r.vals, Quiet, sent, given)
    BY <1>4
  <2> HIDE DEF sent, second, given
  <2>6. \/ sent = << >> /\ NoneDueOf(r.vals, Quiet)
        \/ \E a : sent = <<a>> /\ IsAnswer(a)
    BY <2>3, <2>4
  <2> QED BY <1>8, <1>9, <2>5, <2>6, RequestTaken
<1> QED BY <1>10, <1>11

LEMMA RejectFoundationTaken ==
    ASSUME Registered, vals \in Values, IsAsked, asked # Nobody, Waiting,
           RejectFoundation
    PROVE  ExchangeInv'
<1>1. PICK p : wire = <<p>> /\ IsRequest(p)
  BY DEF Waiting
<1> DEFINE msg == Msg(p)
           status == IF msg.hdr.manuCode # 0
                     THEN ZCL_STATUS.UNSUP_MANU_GENERAL_COMMAND
                     ELSE ZCL_STATUS.UNSUP_GENERAL_COMMAND
           sent == DefaultRsp(vals, msg, status)
<1>2. Head(wire) = p
  BY <1>1
<1>3. Handled(vals, Quiet, sent, << >>)
  BY <1>2 DEF RejectFoundation
<1>4. status \in Nat
  BY DEF ZCL_STATUS
<1>5. Unheard(<< >>)
  BY DEF Unheard
<1> HIDE DEF status
<1>6. \/ sent = << >> /\ NoneDueOf(vals, Quiet)
      \/ \E a : sent = <<a>> /\ IsAnswer(a)
  BY <1>1, <1>4, DefaultTaken
<1> HIDE DEF sent
<1> QED BY <1>3, <1>5, <1>6, RequestTaken

LEMMA ProcessSpecificTaken ==
    ASSUME Registered, vals \in Values, IsAsked, asked # Nobody, Waiting,
           ProcessSpecific
    PROVE  ExchangeInv'
<1>1. PICK p : wire = <<p>> /\ IsRequest(p)
  BY DEF Waiting
<1> DEFINE msg == Msg(p)
           first(r) == FlattenSeq([k \in DOMAIN r.rsp |-> SendSpecific(msg, r.rsp[k])])
           second(r) == IF r.stat = CMD_HAS_RSP THEN << >>
                        ELSE DefaultRsp(vals, msg, StatusOf(msg, r.stat))
           given(r) == IF /\ msg.hdr.direction = 1 /\ r.stat = ZSuccess
                          /\ msg.clusterId # BASIC
                       THEN <<Given("general", msg)>> ELSE << >>
           plugin == zclFindPlugin(msg.clusterId) # NoPlugin
<1>2. Head(wire) = p
  BY <1>1
<1>3. /\ msg.hdr.type = SPECIFIC
      /\ \E r \in IF plugin THEN zclGeneral_HdlIncoming(msg)
                  ELSE {Result(Now, ZFailure, << >>)} :
            Handled(vals, r, first(r) \o second(r), given(r))
  BY <1>2 DEF ProcessSpecific
<1>4. PICK r \in IF plugin THEN zclGeneral_HdlIncoming(msg)
                 ELSE {Result(Now, ZFailure, << >>)} :
          Handled(vals, r, first(r) \o second(r), given(r))
  BY <1>3
<1>5. /\ msg.hdr = asked.hdr /\ msg.unicast = asked.to.unicast
      /\ msg.clusterId = asked.to.clusterId
      /\ asked.hdr.type = SPECIFIC => msg.attrCmd = asked.c
  BY <1>1, RequestParsed
<1>6. asked.to.unicast \in BOOLEAN /\ asked.hdr.direction \in {0, 1}
      /\ asked.hdr.cmd \in Byte
  <2>1. asked.hdr \in FrameHeader /\ asked.to.unicast \in BOOLEAN
    BY AskedIs
  <2> QED BY <2>1 DEF FrameHeader
<1>7. Unheard(given(r))
  <2>1. Unheard(<<Given("general", msg)>>)
    BY <1>1, GivenThere
  <2>2. Unheard(<< >>)
    BY DEF Unheard
  <2> HIDE DEF msg
  <2> QED BY <2>1, <2>2
<1>8. IsOutcome(msg, r)
  <2>1. CASE plugin
    <3>1. r \in zclGeneral_HdlIncoming(msg)
      BY <1>4, <2>1
    <3> HIDE DEF msg
    <3> QED BY <1>5, <1>6, <3>1, SpecificOutcome
  <2>2. CASE ~plugin
    <3>1. r = Result(Now, ZFailure, << >>)
      BY <1>4, <2>2
    <3> QED BY <3>1, ResultOutcome
  <2> QED BY <2>1, <2>2
<1>9. asked.hdr.type = SPECIFIC /\ ~Foundation
  <2>1. PROFILE # SPECIFIC
    BY DEF PROFILE, SPECIFIC
  <2> HIDE DEF msg
  <2> QED BY <1>3, <1>5, <2>1 DEF Foundation
<1> DEFINE sent == first(r) \o second(r)
<1>10. Handled(vals, r, sent, given(r))
  BY <1>4
<1>11. \/ sent = << >> /\ NoneDueOf(vals, r)
       \/ \E a : sent = <<a>> /\ IsAnswer(a)
  <2>1. CASE r.stat = CMD_HAS_RSP /\ \E x : r.rsp = <<x>>
    <3>1. PICK x : r.rsp = <<x>>
      BY <2>1
    <3> DEFINE y == SendSpecific(msg, x)
    <3>2. OneAnswer(vals, y)
      <4>1. asked.hdr.direction = 0
        <5> HIDE DEF msg
        <5> QED BY <1>5, <1>6, <1>8, <2>1 DEF IsOutcome
      <4>2. SPECIFIC \in {PROFILE, SPECIFIC} /\ PROFILE # SPECIFIC /\ 0 \in Word
        BY WordIs DEF PROFILE, SPECIFIC
      <4> DEFINE cmd == IF msg.clusterId = IDENTIFY THEN 0 ELSE msg.hdr.cmd
      <4>3. cmd \in Byte
        <5> HIDE DEF msg
        <5> QED BY <1>5, <1>6 DEF Byte
      <4>4. y = zcl_SendCommand(vals, Back(msg), AnswerHdr(msg, SPECIFIC, 0, cmd),
                                x, Secured(msg))
        BY DEF SendSpecific
      <4> HIDE DEF cmd, y
      <4>5. OneAnswer(vals, zcl_SendCommand(vals, Back(msg),
                         AnswerHdr(msg, SPECIFIC, 0, cmd), x, Secured(msg)))
        BY <1>1, <1>9, <4>1, <4>2, <4>3, AnswerMade
      <4> QED BY <4>4, <4>5
    <3>3. y = << >> \/ \E a : y = <<a>>
      BY <3>2 DEF OneAnswer
    <3>4. first(r) = y
      <4>1. [k \in DOMAIN r.rsp |-> SendSpecific(msg, r.rsp[k])] = [k \in 1 .. 1 |-> y]
        BY <3>1
      <4> HIDE DEF y, msg
      <4> QED BY <3>3, <4>1, OneJoined
    <3>5. sent = y
      <4>1. second(r) = << >>
        BY <2>1
      <4> HIDE DEF first, second, y
      <4> QED BY <3>3, <3>4, <4>1, Alone
    <3> HIDE DEF y, sent
    <3> QED BY <3>2, <3>5, OneAnswerTaken
  <2>2. CASE ~(r.stat = CMD_HAS_RSP /\ \E x : r.rsp = <<x>>)
    <3>1. r.rsp = << >>
      <4> HIDE DEF msg
      <4> QED BY <1>8, <2>2 DEF IsOutcome
    <3>2. first(r) = << >>
      <4>1. [k \in DOMAIN r.rsp |-> SendSpecific(msg, r.rsp[k])] = << >>
        BY <3>1
      <4> HIDE DEF msg
      <4> QED BY <4>1, NoneJoined
    <3>3. \/ second(r) = << >> /\ NoneDueOf(vals, r)
          \/ \E a : second(r) = <<a>> /\ IsAnswer(a)
      <4>1. CASE r.stat = CMD_HAS_RSP
        <5>1. NoneDueOf(vals, r)
          <6> HIDE DEF msg
          <6> QED BY <1>5, <1>8, <1>9, <3>1, <4>1
                  DEF IsOutcome, NoneDueOf, InNoneOfTheGroups
        <5> QED BY <4>1, <5>1
      <4>2. CASE r.stat # CMD_HAS_RSP
        <5> DEFINE status == StatusOf(msg, r.stat)
                   y == DefaultRsp(vals, msg, status)
        <5>1. second(r) = y
          BY <4>2
        <5>2. status \in Nat
          <6>1. r.stat \in {ZSuccess, ZFailure}
            <7> HIDE DEF msg
            <7> QED BY <1>8, <4>2 DEF IsOutcome
          <6> HIDE DEF msg
          <6> QED BY <6>1 DEF StatusOf, ZSuccess, ZFailure, ZCL_STATUS
        <5> HIDE DEF status
        <5>3. \/ y = << >> /\ NoneDueOf(vals, r)
              \/ \E a : y = <<a>> /\ IsAnswer(a)
          BY <1>1, <5>2, DefaultTaken
        <5> HIDE DEF y, second
        <5> QED BY <5>1, <5>3
      <4> QED BY <4>1, <4>2
    <3>4. sent = second(r)
      <4> HIDE DEF first, second
      <4>1. second(r) = << >> \/ \E a : second(r) = <<a>>
        BY <3>3
      <4> QED BY <3>2, <4>1, Alone
    <3> HIDE DEF sent, second
    <3> QED BY <3>3, <3>4
  <2> QED BY <2>1, <2>2
<1> HIDE DEF sent, given
<1> QED BY <1>7, <1>10, <1>11, RequestTaken

LEMMA RequestHandled ==
    ASSUME Registered, vals \in Values, IsAsked, asked # Nobody, Waiting,
           \/ Ignore \/ RejectInsecure \/ ProcessFoundation
           \/ RejectFoundation \/ ProcessSpecific
    PROVE  ExchangeInv'
BY IgnoreTaken, RejectInsecureTaken, ProcessFoundationTaken, RejectFoundationTaken,
   ProcessSpecificTaken

--------------------------------------------------------------------------------
(* The answer is taken.                                                      *)
\* Whichever tasks register, and in whichever order, the list is one of those
\* that are assumed: none is registered when the program starts.
LEMMA NoTaskYet == << >> \in zclExternalFoundationHandlerList
BY DEF zclExternalFoundationHandlerList

LEMMA TasksInOrder ==
    ASSUME NEW list \in zclExternalFoundationHandlerList,
           NEW task \in STRING \ {NoTask}, NEW endpoint \in Nat
    PROVE  zcl_addExternalFoundationHandler(list, task, endpoint)
               \in zclExternalFoundationHandlerList
<1> DEFINE T == [zcl_ExternalTaskID : STRING \ {NoTask}, zcl_ExternalEndPoint : Nat]
           InOrder(l) ==
               \A i, j \in DOMAIN l :
                   /\ l[i].zcl_ExternalEndPoint = l[j].zcl_ExternalEndPoint => i = j
                   /\ l[i].zcl_ExternalEndPoint = AF_BROADCAST_ENDPOINT => j <= i
           n == Len(list)
           new == [zcl_ExternalTaskID |-> task, zcl_ExternalEndPoint |-> endpoint]
           taken == \E k \in DOMAIN list : list[k].zcl_ExternalEndPoint = endpoint
           after == zcl_addExternalFoundationHandler(list, task, endpoint)
<1>1. list \in Seq(T) /\ InOrder(list)
  BY DEF zclExternalFoundationHandlerList
<1>2. new \in T /\ new.zcl_ExternalEndPoint = endpoint
  OBVIOUS
<1>3. after = IF taken THEN list
              ELSE IF endpoint = AF_BROADCAST_ENDPOINT THEN Append(list, new)
              ELSE <<new>> \o list
  BY DEF zcl_addExternalFoundationHandler
<1> HIDE DEF T, new, after
<1>4. n \in Nat /\ DOMAIN list = 1 .. n
  BY <1>1
<1>5. after \in Seq(T) /\ InOrder(after)
  <2>1. CASE taken
    BY <1>1, <1>3, <2>1
  <2>2. CASE ~taken /\ endpoint = AF_BROADCAST_ENDPOINT
    <3>1. after = Append(list, new)
      BY <1>3, <2>2
    <3>2. /\ after \in Seq(T) /\ DOMAIN after = 1 .. n + 1 /\ after[n + 1] = new
          /\ \A k \in 1 .. n : after[k] = list[k]
      BY <1>1, <1>2, <1>4, <3>1
    <3>3. \A k \in 1 .. n : after[k].zcl_ExternalEndPoint # endpoint
      BY <1>4, <2>2, <3>2
    <3>4. \A k \in 1 .. n + 1 : k = n + 1 \/ k \in 1 .. n
      BY <1>4
    <3>5. ASSUME NEW i \in 1 .. n + 1, NEW j \in 1 .. n + 1
          PROVE  /\ after[i].zcl_ExternalEndPoint = after[j].zcl_ExternalEndPoint
                    => i = j
                 /\ after[i].zcl_ExternalEndPoint = AF_BROADCAST_ENDPOINT => j <= i
      <4>1. CASE i \in 1 .. n /\ j \in 1 .. n
        BY <1>1, <1>4, <3>2, <4>1
      <4>2. CASE i = n + 1
        BY <1>2, <1>4, <3>2, <3>3, <3>4, <4>2
      <4>3. CASE i \in 1 .. n /\ j = n + 1
        BY <1>2, <2>2, <3>2, <3>3, <4>3
      <4> QED BY <3>4, <4>1, <4>2, <4>3
    <3> QED BY <3>2, <3>5
  <2>3. CASE ~taken /\ endpoint # AF_BROADCAST_ENDPOINT
    <3>1. after = <<new>> \o list
      BY <1>3, <2>3
    <3>2. /\ after \in Seq(T) /\ DOMAIN after = 1 .. n + 1 /\ after[1] = new
          /\ \A k \in 1 .. n : after[k + 1] = list[k]
      <4>1. <<new>> \in Seq(T) /\ Len(<<new>>) = 1 /\ <<new>>[1] = new
        BY <1>2
      <4> QED BY <1>1, <1>4, <3>1, <4>1
    <3>3. \A k \in 1 .. n + 1 : k # 1 => k - 1 \in 1 .. n /\ after[k] = list[k - 1]
      <4>1. ASSUME NEW k \in 1 .. n + 1, k # 1
            PROVE  k - 1 \in 1 .. n /\ after[k] = list[k - 1]
        <5>1. k - 1 \in 1 .. n /\ (k - 1) + 1 = k
          BY <1>4, <4>1
        <5> QED BY <3>2, <5>1
      <4> QED BY <4>1
    <3>4. \A k \in 1 .. n + 1 : k # 1 => after[k].zcl_ExternalEndPoint # endpoint
      BY <1>4, <2>3, <3>3
    <3>5. ASSUME NEW i \in 1 .. n + 1, NEW j \in 1 .. n + 1
          PROVE  /\ after[i].zcl_ExternalEndPoint = after[j].zcl_ExternalEndPoint
                    => i = j
                 /\ after[i].zcl_ExternalEndPoint = AF_BROADCAST_ENDPOINT => j <= i
      <4>1. CASE i # 1 /\ j # 1
        <5>1. i - 1 \in DOMAIN list /\ j - 1 \in DOMAIN list
              /\ after[i] = list[i - 1] /\ after[j] = list[j - 1]
          BY <1>4, <3>3, <4>1
        <5>2. /\ after[i].zcl_ExternalEndPoint = after[j].zcl_ExternalEndPoint
                 => i - 1 = j - 1
              /\ after[i].zcl_ExternalEndPoint = AF_BROADCAST_ENDPOINT
                 => j - 1 <= i - 1
          BY <1>1, <5>1
        <5> QED BY <1>4, <5>2
      <4>2. CASE i = 1
        BY <1>2, <2>3, <3>2, <3>4, <4>2
      <4>3. CASE i # 1 /\ j = 1
        BY <1>2, <1>4, <3>2, <3>4, <4>3
      <4> QED BY <4>1, <4>2, <4>3
    <3> QED BY <3>2, <3>5
  <2> QED BY <2>1, <2>2, <2>3
<1> QED BY <1>5 DEF zclExternalFoundationHandlerList, after, T

LEMMA TaskFound ==
    ASSUME Registered, NEW src, src # AF_BROADCAST_ENDPOINT,
           NEW h \in Range(externalEndPointHandlerList),
           h.zcl_ExternalEndPoint = src
    PROVE  /\ zcl_getExternalFoundationHandler(src) = h.zcl_ExternalTaskID
           /\ h.zcl_ExternalTaskID # NoTask
<1> DEFINE list == externalEndPointHandlerList
           T == [zcl_ExternalTaskID : STRING \ {NoTask}, zcl_ExternalEndPoint : Nat]
           n == Len(list)
           I == {i \in 1 .. n :
                 list[i].zcl_ExternalEndPoint \in {src, AF_BROADCAST_ENDPOINT}}
           k == Foremost(I)
<1>1. /\ topic \in DOMAIN Requests
      /\ \E r \in Registers[topic] : list = r.externalEndPointHandlerList
  BY DEF Registered
<1>2. /\ list \in Seq(T)
      /\ \A i, j \in DOMAIN list :
            /\ list[i].zcl_ExternalEndPoint = list[j].zcl_ExternalEndPoint
               => i = j
            /\ list[i].zcl_ExternalEndPoint = AF_BROADCAST_ENDPOINT => j <= i
  <2>1. PICK r \in Registers[topic] : list = r.externalEndPointHandlerList
    BY <1>1
  <2> DEFINE theirs == r.externalEndPointHandlerList
  <2> HIDE DEF list, T, n, I, k
  <2>2. theirs \in zclExternalFoundationHandlerList
    BY <1>1, RegistersAssumption
  <2>3. theirs \in Seq(T)
    BY <2>2 DEF T, zclExternalFoundationHandlerList
  <2>4. \A i, j \in DOMAIN theirs :
           /\ theirs[i].zcl_ExternalEndPoint = theirs[j].zcl_ExternalEndPoint
              => i = j
           /\ theirs[i].zcl_ExternalEndPoint = AF_BROADCAST_ENDPOINT => j <= i
    BY <2>2 DEF zclExternalFoundationHandlerList
  <2>5. list = theirs
    BY <2>1
  <2> HIDE DEF theirs
  <2> QED BY <2>3, <2>4, <2>5
<1>3. zcl_getExternalFoundationHandler(src) =
          IF k = 0 THEN NoTask ELSE list[k].zcl_ExternalTaskID
  BY DEF zcl_getExternalFoundationHandler, SelectInSeq, Foremost
<1> HIDE DEF list, T
<1>4. n \in Nat /\ DOMAIN list = 1 .. n
  BY <1>2
<1>5. PICK j \in 1 .. n : h = list[j]
  BY <1>4 DEF Range, list
<1>6. h.zcl_ExternalTaskID # NoTask
  <2>1. h \in T
    BY <1>2, <1>4, <1>5
  <2> QED BY <2>1 DEF T
<1>7. j \in I
  BY <1>5
<1> HIDE DEF n
<1>8. /\ k \in 0 .. n /\ (k = 0 <=> I = {})
      /\ k # 0 => k \in I /\ \A i \in I : k <= i
  BY <1>4, FirstIs
<1>9. k # 0 /\ k \in I /\ k <= j
  BY <1>7, <1>8
<1> HIDE DEF k
<1>10. list[k].zcl_ExternalEndPoint \in {src, AF_BROADCAST_ENDPOINT} /\ k \in 1 .. n
  BY <1>9
<1>11. k = j
  <2>1. CASE list[k].zcl_ExternalEndPoint = src
    BY <1>2, <1>4, <1>5, <1>10, <2>1
  <2>2. CASE list[k].zcl_ExternalEndPoint = AF_BROADCAST_ENDPOINT
    <3>1. j <= k
      BY <1>2, <1>4, <1>10, <2>2
    <3> QED BY <1>4, <1>9, <1>10, <3>1
  <2> QED BY <1>10, <2>1, <2>2
<1> QED BY <1>3, <1>5, <1>6, <1>9, <1>11

\* What src's tasks were given, after others were given something.
Here(s, src) == {k \in DOMAIN s : s[k].endPoint = src}
Got(s, src) == {s[k] : k \in Here(s, src)}
LEMMA HeardOnce ==
    ASSUME NEW src,
           NEW before, before = << >> \/ \E g : before = <<g>> /\ g.endPoint # src,
           NEW given, given = << >> \/ \E g : given = <<g>> /\ g.endPoint = src
    PROVE  LET after == before \o given
           IN /\ Cardinality(Here(after, src)) <= 1
              /\ \A g : given = <<g>> => Got(after, src) = {g}
<1> DEFINE after == before \o given
           here == Here(after, src)
<1>0. /\ Cardinality({}) = 0
      /\ \A x : Cardinality({x}) = 1
  BY FS_EmptySet, FS_Singleton
<1>1. CASE given = << >>
  <2>1. after = before
    <3>1. before = << >> \/ \E g : before = <<g>>
      OBVIOUS
    <3> QED BY <1>1, <3>1, Alone
  <2>2. here = {}
    <3>1. CASE before = << >>
      BY <2>1, <3>1 DEF Here
    <3>2. CASE \E g : before = <<g>> /\ g.endPoint # src
      <4>1. PICK g : before = <<g>> /\ g.endPoint # src
        BY <3>2
      <4>2. DOMAIN after = 1 .. 1 /\ after[1] = g
        BY <2>1, <4>1
      <4> HIDE DEF after
      <4> QED BY <4>1, <4>2 DEF Here
    <3> QED BY <3>1, <3>2
  <2>3. \A g : given # <<g>>
    BY <1>1
  <2>4. Cardinality(here) = 0
    BY <1>0, <2>2
  <2> HIDE DEF here, after
  <2>5. Cardinality(here) <= 1
    BY <2>4
  <2> QED BY <2>3, <2>5 DEF here, after
<1>2. CASE \E g : given = <<g>> /\ g.endPoint = src
  <2>1. PICK g : given = <<g>> /\ g.endPoint = src
    BY <1>2
  <2>2. \E n \in 1 .. 2 : here = {n} /\ after[n] = g
    <3>1. CASE before = << >>
      <4>1. after = <<g>>
        BY <2>1, <3>1, Alone
      <4>2. DOMAIN after = 1 .. 1 /\ after[1] = g
        BY <4>1
      <4> HIDE DEF after
      <4>3. here = {1}
        BY <2>1, <4>2 DEF Here
      <4> QED BY <4>2, <4>3
    <3>2. CASE \E f : before = <<f>> /\ f.endPoint # src
      <4>1. PICK f : before = <<f>> /\ f.endPoint # src
        BY <3>2
      <4>2. after = <<f>> \o <<g>>
        BY <2>1, <4>1
      <4>3. /\ <<f>> \in Seq({f, g}) /\ Len(<<f>>) = 1 /\ <<f>>[1] = f
            /\ <<g>> \in Seq({f, g}) /\ Len(<<g>>) = 1 /\ <<g>>[1] = g
        OBVIOUS
      <4>4. DOMAIN after = 1 .. 2 /\ after[1] = f /\ after[2] = g
        <5> DEFINE x == <<f>>
                   y == <<g>>
        <5> HIDE DEF after, x, y
        <5>1. /\ x \o y \in Seq({f, g}) /\ Len(x \o y) = 2
              /\ \A i \in 1 .. 2 : (x \o y)[i] = IF i <= 1 THEN x[i] ELSE y[i - 1]
          BY <4>3, ConcatProperties DEF x, y
        <5>2. after = x \o y
          BY <4>2 DEF x, y
        <5>3. DOMAIN after = 1 .. 2
          BY <5>1, <5>2
        <5>4. after[1] = x[1] /\ after[2] = y[1]
          BY <5>1, <5>2
        <5> QED BY <4>3, <5>3, <5>4 DEF x, y
      <4> HIDE DEF after
      <4>5. here = {2}
        BY <2>1, <4>1, <4>4 DEF Here
      <4> QED BY <4>4, <4>5
    <3> QED BY <3>1, <3>2
  <2>3. PICK n : here = {n} /\ after[n] = g
    BY <2>2
  <2>4. Cardinality(here) = 1
    BY <1>0, <2>3
  <2>5. \A x : given = <<x>> => x = g
    BY <2>1
  <2>6. Got(after, src) = {g}
    <3> HIDE DEF after
    <3> QED BY <2>3 DEF Got
  <2> HIDE DEF here, after
  <2>7. Cardinality(here) <= 1
    BY <2>4
  <2>8. \A x : given = <<x>> => Got(after, src) = {x}
    BY <2>5, <2>6
  <2> QED BY <2>7, <2>8 DEF here, after
<1> QED BY <1>1, <1>2

LEMMA AnswerParsed ==
    ASSUME Registered, IsAsked, NEW a, IsAnswer(a)
    PROVE  /\ Msg(a).hdr = a.hdr /\ Msg(a).endPoint = asked.src
           /\ Msg(a).unicast = a.unicast /\ Msg(a).clusterId = a.clusterId
           /\ Handles(a) /\ ~NotSecure(Msg(a))
<1> DEFINE msg == Msg(a)
<1>1. a.hdr \in FrameHeader /\ a.dst = asked.src
  BY DEF IsAnswer
<1>2. PICK d \in Seq(Nat) : a.data = zclBuildHdr(a.hdr) \o d
  BY DEF IsAnswer
<1>3. zclParseHdr(a.data) = a.hdr
  BY <1>1, <1>2, HeaderParsed
<1>4. /\ msg.hdr = zclParseHdr(a.data) /\ msg.endPoint = a.dst
      /\ msg.unicast = a.unicast /\ msg.clusterId = a.clusterId
  BY DEF Msg
<1> HIDE DEF msg
<1>5. asked.src \in Described
  BY AskedIs
<1>6. /\ \A v, cluster, type, cmd :
             zcl_DeviceOperational(v, asked.src, cluster, type, cmd)
      /\ \A cluster : ~zclGetClusterOption(asked.src, cluster)
  BY AskerOperates
<1>7. Handles(a)
  BY <1>1, <1>5, <1>6 DEF Handles
<1>8. ~NotSecure(msg)
  BY <1>1, <1>4, <1>6 DEF NotSecure
<1> QED BY <1>1, <1>3, <1>4, <1>7, <1>8 DEF msg

LEMMA AnswerTaken ==
    ASSUME Registered, vals \in Values, IsAsked, asked # Nobody,
           NEW a, IsAnswer(a), answers = <<a>>, wire = <<a>>,
           NEW r, NEW given, Handled(vals, r, << >>, given), IsHeard(a)'
    PROVE  ExchangeInv'
<1>1. /\ wire' = Tail(wire) /\ vals' = vals /\ replies' = << >>
      /\ answers' = IF Head(wire).src = asked.src THEN answers \o << >> ELSE answers
      /\ UNCHANGED <<registry, topic, asked>>
  BY DEF Handled
<1>2. answers' = <<a>> /\ wire' = << >>
  <2>1. <<a>> \o << >> = <<a>>
    OBVIOUS
  <2> QED BY <1>1, <2>1
<1>3. Registered' /\ IsAsked' /\ asked' # Nobody
  BY <1>1, RegisteredStays, AskedStays
<1>4. (vals \in Values)'
  BY <1>1 DEF Values
<1>5. IsAnswer(a)'
  BY <1>1, AnswerStays
<1>6. Replied'
  BY <1>1, <1>2, <1>5 DEF Replied
<1> QED BY <1>3, <1>4, <1>6 DEF ExchangeInv, Nobody

LEMMA AnswerHeard ==
    ASSUME Registered, IsAsked, NEW a, IsAnswer(a), HeardElsewhere,
           heard' = heard \o zcl_HandleExternal(Msg(a)),
           UNCHANGED <<asked, registry>>
    PROVE  IsHeard(a)'
<1> DEFINE src == asked.src
           given == zcl_HandleExternal(Msg(a))
           task == zcl_getExternalFoundationHandler(src)
           g == [task |-> task, endPoint |-> src, cmd |-> a.hdr.cmd]
           after == heard \o given
           here == Here(after, src)
           own == {h \in Range(externalEndPointHandlerList) :
                   h.zcl_ExternalEndPoint = src}
<1>1. Msg(a).endPoint = src /\ Msg(a).hdr = a.hdr
  BY AnswerParsed
<1>2. src # AF_BROADCAST_ENDPOINT
  BY AskedIs
<1>3. given = IF task = NoTask THEN << >> ELSE <<g>>
  <2> DEFINE msg == Msg(a)
  <2>1. msg.endPoint = src /\ msg.hdr = a.hdr
    BY <1>1
  <2> HIDE DEF msg, src
  <2>2. zcl_HandleExternal(msg) = IF task = NoTask THEN << >> ELSE <<g>>
    BY <2>1 DEF zcl_HandleExternal, Given
  <2> QED BY <2>2 DEF msg
<1>4. given = << >> \/ \E x : given = <<x>> /\ x.endPoint = src
  <2>1. g.endPoint = src
    OBVIOUS
  <2> HIDE DEF g, given, task, src
  <2> QED BY <1>3, <2>1
<1>5. /\ Cardinality(here) <= 1
      /\ \A x : given = <<x>> => Got(after, src) = {x}
  <2>1. heard = << >> \/ \E x : heard = <<x>> /\ x.endPoint # src
    BY DEF HeardElsewhere
  <2> HIDE DEF given, src
  <2> QED BY <1>4, <2>1, HeardOnce
<1>6. ASSUME NEW h \in own
      PROVE  Got(after, src) = {[task |-> h.zcl_ExternalTaskID,
                                         endPoint |-> src, cmd |-> a.hdr.cmd]}
  <2>1. task = h.zcl_ExternalTaskID /\ task # NoTask
    BY <1>2, <1>6, TaskFound
  <2>2. given = <<g>>
    BY <1>3, <2>1
  <2> HIDE DEF given, after, here, task
  <2>3. Got(after, src) = {g}
    BY <1>5, <2>2
  <2> QED BY <2>1, <2>3
<1>7. heard' = after /\ asked' = asked
      /\ externalEndPointHandlerList' = externalEndPointHandlerList
  BY DEF registry
<1> HIDE DEF after
<1>8. a.hdr.type = PROFILE /\ a.hdr.manuCode = 0 =>
        LET theirs == {h \in Range(externalEndPointHandlerList) :
                       h.zcl_ExternalEndPoint = asked'.src}
        IN /\ Cardinality(Here(heard', asked'.src)) <= 1
           /\ \A h \in theirs :
                 Got(heard', asked'.src) = {[task |-> h.zcl_ExternalTaskID,
                                             endPoint |-> asked'.src,
                                             cmd |-> a.hdr.cmd]}
  BY <1>5, <1>6, <1>7
<1> QED BY <1>7, <1>8 DEF IsHeard, Here, Got

LEMMA UnheardOf ==
    ASSUME NEW a, a.hdr.type # PROFILE \/ a.hdr.manuCode # 0
    PROVE  IsHeard(a)'
BY DEF IsHeard

\* Nothing answers an answer.
LEMMA NoneBack ==
    ASSUME NEW msg, msg.hdr.disableDefaultRsp, NEW v, NEW status
    PROVE  DefaultRsp(v, msg, status) = << >>
BY DEF DefaultRsp

LEMMA AnswerFoundation ==
    ASSUME Registered, vals \in Values, IsAsked, asked # Nobody,
           NEW a, IsAnswer(a), answers = <<a>>, wire = <<a>>, HeardElsewhere,
           ProcessFoundation
    PROVE  ExchangeInv'
<1> DEFINE msg == Msg(a)
           cmd == msg.hdr.cmd
           first(r) == FlattenSeq([k \in DOMAIN r.sent |->
                           Send(r.vals, msg, r.sent[k].cmd, r.sent[k].c)])
           second(r) == IF HasRsp(cmd) THEN << >>
                        ELSE DefaultRsp(r.vals, msg, ZCL_STATUS.SUCCESS)
           given == IF External(cmd) THEN zcl_HandleExternal(msg) ELSE << >>
<1>1. Head(wire) = a
  OBVIOUS
<1>2. /\ msg.hdr.type = PROFILE
      /\ \E r \in zclProcessCmd(msg) :
            Handled(r.vals, Quiet, first(r) \o second(r), given)
  BY <1>1 DEF ProcessFoundation, Parsed
<1>3. msg.hdr = a.hdr
  BY AnswerParsed
<1>4. cmd \in Responses /\ msg.hdr.disableDefaultRsp
  <2> HIDE DEF msg
  <2> QED BY <1>2, <1>3 DEF IsAnswer
<1>5. External(cmd) /\ zclProcessCmd(msg) = {[vals |-> vals, sent |-> << >>]}
  <2> HIDE DEF msg
  <2>1. cmd \in Nat /\ cmd # ZCL_CMD.READ /\ cmd # ZCL_CMD.WRITE
        /\ cmd # ZCL_CMD.WRITE_UNDIVIDED /\ cmd # ZCL_CMD.WRITE_NO_RSP
        /\ cmd # ZCL_CMD.DISCOVER_ATTRS /\ cmd # ZCL_CMD.DISCOVER_ATTRS_EXT
        /\ cmd # ZCL_CMD.DISCOVER_CMDS_RECEIVED
        /\ cmd # ZCL_CMD.DISCOVER_CMDS_GEN
    BY <1>4 DEF Responses, ZCL_CMD
  <2>2. External(cmd)
    BY <2>1 DEF External
  <2>3. zclProcessCmd(msg) = {[vals |-> vals, sent |-> << >>]}
    BY <2>1 DEF zclProcessCmd
  <2> QED BY <2>2, <2>3
<1>6. PICK r : /\ r.vals = vals /\ r.sent = << >>
               /\ Handled(r.vals, Quiet, first(r) \o second(r), given)
  <2>1. PICK r \in zclProcessCmd(msg) :
            Handled(r.vals, Quiet, first(r) \o second(r), given)
    BY <1>2
  <2>2. r.vals = vals /\ r.sent = << >>
    <3> HIDE DEF msg
    <3> QED BY <1>5, <2>1
  <2> HIDE DEF first, second, given
  <2> QED BY <2>1, <2>2
<1>7. first(r) = << >>
  <2>1. [k \in DOMAIN r.sent |-> Send(r.vals, msg, r.sent[k].cmd, r.sent[k].c)]
        = << >>
    BY <1>6
  <2> HIDE DEF msg
  <2> QED BY <2>1, NoneJoined
<1>8. second(r) = << >>
  <2>1. DefaultRsp(r.vals, msg, ZCL_STATUS.SUCCESS) = << >>
    BY <1>4, NoneBack
  <2> QED BY <2>1
<1>9. Handled(vals, Quiet, << >>, zcl_HandleExternal(msg))
  <2>1. given = zcl_HandleExternal(msg)
    BY <1>5
  <2>2. << >> \o << >> = << >>
    OBVIOUS
  <2> HIDE DEF first, second, given, msg
  <2> QED BY <1>6, <1>7, <1>8, <2>1, <2>2
<1>10. IsHeard(a)'
  <2>1. /\ heard' = heard \o zcl_HandleExternal(msg)
        /\ UNCHANGED <<asked, registry>>
    BY <1>9 DEF Handled
  <2> QED BY <2>1, AnswerHeard
<1> HIDE DEF msg
<1> QED BY <1>9, <1>10, AnswerTaken

LEMMA AnswerRejected ==
    ASSUME Registered, vals \in Values, IsAsked, asked # Nobody,
           NEW a, IsAnswer(a), answers = <<a>>, wire = <<a>>, RejectFoundation
    PROVE  ExchangeInv'
<1> DEFINE msg == Msg(a)
           status == IF msg.hdr.manuCode # 0
                     THEN ZCL_STATUS.UNSUP_MANU_GENERAL_COMMAND
                     ELSE ZCL_STATUS.UNSUP_GENERAL_COMMAND
<1>1. Head(wire) = a
  OBVIOUS
<1>2. /\ msg.hdr.type = PROFILE
      /\ msg.hdr.manuCode # 0 \/ ~Known(msg.hdr.cmd)
      /\ Handled(vals, Quiet, DefaultRsp(vals, msg, status), << >>)
  BY <1>1 DEF RejectFoundation
<1>3. msg.hdr = a.hdr
  BY AnswerParsed
<1> HIDE DEF msg
<1>4. a.hdr.disableDefaultRsp /\ a.hdr.cmd \in Responses
  BY <1>2, <1>3 DEF IsAnswer
<1>5. a.hdr.manuCode # 0
  <2>1. \A cmd \in Responses : Known(cmd)
    BY DEF Responses, Known, ZCL_CMD
  <2> QED BY <1>2, <1>3, <1>4, <2>1
<1>6. Handled(vals, Quiet, << >>, << >>)
  BY <1>2, <1>3, <1>4, NoneBack
<1> QED BY <1>5, <1>6, UnheardOf, AnswerTaken

\* What comes back from a server says nothing more.
LEMMA ClientOutcome ==
    ASSUME NEW msg, msg.hdr.direction = 1, NEW r \in zclGeneral_HdlIncoming(msg)
    PROVE  r \in {Result(Now, ZFailure, << >>), Result(Now, ZSuccess, << >>)}
<1>1. CASE msg.hdr.manuCode # 0
  BY <1>1 DEF zclGeneral_HdlIncoming
<1>2. CASE msg.hdr.manuCode = 0
  <2>1. r \in zclGeneral_HdlInSpecificCommands(msg)
    BY <1>2 DEF zclGeneral_HdlIncoming
  <2>2. CASE msg.endPoint \notin WithCallbacks
    BY <2>1, <2>2 DEF zclGeneral_HdlInSpecificCommands
  <2>3. CASE msg.endPoint \in WithCallbacks
    <3>1. zclGeneral_HdlInSpecificCommands(msg) = {zclGeneral_ProcessInClient(msg)}
      BY <2>3 DEF zclGeneral_HdlInSpecificCommands
    <3> QED BY <2>1, <3>1 DEF zclGeneral_ProcessInClient
  <2> QED BY <2>2, <2>3
<1> QED BY <1>1, <1>2

LEMMA AnswerSpecific ==
    ASSUME Registered, vals \in Values, IsAsked, asked # Nobody,
           NEW a, IsAnswer(a), answers = <<a>>, wire = <<a>>, ProcessSpecific
    PROVE  ExchangeInv'
<1> DEFINE msg == Msg(a)
           first(r) == FlattenSeq([k \in DOMAIN r.rsp |-> SendSpecific(msg, r.rsp[k])])
           second(r) == IF r.stat = CMD_HAS_RSP THEN << >>
                        ELSE DefaultRsp(vals, msg, StatusOf(msg, r.stat))
           given(r) == IF /\ msg.hdr.direction = 1 /\ r.stat = ZSuccess
                          /\ msg.clusterId # BASIC
                       THEN <<Given("general", msg)>> ELSE << >>
           plugin == zclFindPlugin(msg.clusterId) # NoPlugin
<1>1. Head(wire) = a
  OBVIOUS
<1>2. /\ msg.hdr.type = SPECIFIC
      /\ \E r \in IF plugin THEN zclGeneral_HdlIncoming(msg)
                  ELSE {Result(Now, ZFailure, << >>)} :
            Handled(vals, r, first(r) \o second(r), given(r))
  BY <1>1 DEF ProcessSpecific
<1>3. PICK r \in IF plugin THEN zclGeneral_HdlIncoming(msg)
                 ELSE {Result(Now, ZFailure, << >>)} :
          Handled(vals, r, first(r) \o second(r), given(r))
  BY <1>2
<1>4. msg.hdr = a.hdr
  BY AnswerParsed
<1>5. a.hdr.type = SPECIFIC /\ a.hdr.direction = 1 /\ a.hdr.disableDefaultRsp
  <2> HIDE DEF msg
  <2> QED BY <1>2, <1>4 DEF IsAnswer
<1>6. r \in {Result(Now, ZFailure, << >>), Result(Now, ZSuccess, << >>)}
  <2> HIDE DEF msg
  <2> QED BY <1>3, <1>4, <1>5, ClientOutcome
<1>7. r.rsp = << >> /\ r.stat # CMD_HAS_RSP
  BY <1>6 DEF Result, ZFailure, ZSuccess, CMD_HAS_RSP
<1>8. first(r) = << >>
  <2>1. [k \in DOMAIN r.rsp |-> SendSpecific(msg, r.rsp[k])] = << >>
    BY <1>7
  <2> HIDE DEF msg
  <2> QED BY <2>1, NoneJoined
<1>9. second(r) = << >>
  <2>1. \A status : DefaultRsp(vals, msg, status) = << >>
    <3> HIDE DEF msg
    <3> QED BY <1>4, <1>5, NoneBack
  <2> QED BY <2>1
<1>10. Handled(vals, r, << >>, given(r))
  <2>1. << >> \o << >> = << >>
    OBVIOUS
  <2> HIDE DEF first, second, given
  <2> QED BY <1>3, <1>8, <1>9, <2>1
<1>11. a.hdr.type # PROFILE
  BY <1>5 DEF PROFILE, SPECIFIC
<1> HIDE DEF given
<1> QED BY <1>10, <1>11, UnheardOf, AnswerTaken

LEMMA AnswerHandled ==
    ASSUME Registered, vals \in Values, IsAsked, asked # Nobody,
           NEW a, IsAnswer(a), answers = <<a>>, wire = <<a>>, HeardElsewhere,
           \/ Ignore \/ RejectInsecure \/ ProcessFoundation
           \/ RejectFoundation \/ ProcessSpecific
    PROVE  ExchangeInv'
<1>1. Head(wire) = a
  OBVIOUS
<1>2. ~Ignore
  BY <1>1, AnswerParsed DEF Ignore
<1>3. ~RejectInsecure
  BY <1>1, AnswerParsed DEF RejectInsecure
<1> QED BY <1>2, <1>3, AnswerFoundation, AnswerRejected, AnswerSpecific

--------------------------------------------------------------------------------
(* The other steps.                                                          *)
\* None of the parts of the exchange is touched.
LEMMA NothingTold ==
    ASSUME ExchangeInv,
           UNCHANGED <<registry, vals, topic, wire, replies, asked, answers, heard>>,
           leaving = {} => leaving' = {} /\ groups' = groups
    PROVE  ExchangeInv'
<1>1. Registered' /\ vals' \in Values
  BY RegisteredStays DEF ExchangeInv
<1>2. (vals \in Values)'
  BY <1>1 DEF Values
<1>3. CASE asked = Nobody
  <2>1. Idle'
    BY <1>3 DEF ExchangeInv, Idle
  <2> QED BY <1>1, <1>2, <1>3, <2>1 DEF ExchangeInv, Nobody
<1>4. CASE asked # Nobody
  <2>1. IsAsked /\ (Waiting \/ Unreplied \/ Replied)
    BY <1>4 DEF ExchangeInv
  <2>2. IsAsked' /\ asked' # Nobody
    BY <1>4, <2>1, AskedStays
  <2>3. CASE Waiting
    <3>1. Waiting'
      BY <2>3 DEF Waiting, IsRequest
    <3> QED BY <1>1, <1>2, <2>2, <3>1 DEF ExchangeInv, Nobody
  <2>4. CASE Unreplied
    <3>1. /\ Enabled' = Enabled /\ LeftToTheApplication' = LeftToTheApplication
          /\ InNoneOfTheGroups /\ leaving = {} => InNoneOfTheGroups' /\ leaving' = {}
      BY DEF Enabled, LeftToTheApplication, Foundation, InNoneOfTheGroups
    <3>2. NoneDue'
      BY <2>4, <3>1 DEF Unreplied, NoneDue
    <3>3. Unreplied'
      BY <2>4, <3>2 DEF Unreplied
    <3> QED BY <1>1, <1>2, <2>2, <3>3 DEF ExchangeInv, Nobody
  <2>5. CASE Replied
    <3>1. PICK a : /\ answers = <<a>> /\ IsAnswer(a)
                   /\ \/ wire = << >> /\ replies = <<a>> /\ HeardElsewhere
                      \/ wire = <<a>> /\ replies = << >> /\ HeardElsewhere
                      \/ wire = << >> /\ replies = << >> /\ IsHeard(a)
      BY <2>5 DEF Replied
    <3>2. IsAnswer(a)'
      BY <3>1, AnswerStays
    <3>3. (HeardElsewhere => HeardElsewhere') /\ (IsHeard(a) => IsHeard(a)')
      BY DEF HeardElsewhere, IsHeard, registry
    <3>4. Replied'
      BY <3>1, <3>2, <3>3 DEF Replied
    <3> QED BY <1>1, <1>2, <2>2, <3>4 DEF ExchangeInv, Nobody
  <2> QED BY <2>1, <2>3, <2>4, <2>5
<1> QED BY <1>3, <1>4

LEMMA AskMade ==
    ASSUME ExchangeInv, Ask
    PROVE  ExchangeInv'
<1>1. Registered /\ vals \in Values /\ Idle
  BY DEF ExchangeInv, Ask
<1>2. topic \in DOMAIN Requests
  BY <1>1 DEF Registered
<1>3. /\ UNCHANGED <<registry, vals, topic, replies, answers, heard>>
      /\ \E k \in DOMAIN Requests[topic] :
            LET q == Requests[topic][k]
            IN /\ \E secured :
                     wire' = zcl_SendCommand(vals, q.to, q.hdr, q.c, secured)
               /\ asked' = [src |-> q.to.src, to |-> q.to, hdr |-> q.hdr,
                            c |-> q.c, before |-> vals]
  BY DEF Ask
<1>4. PICK q, secured :
          /\ \E k \in DOMAIN Requests[topic] : q = Requests[topic][k]
          /\ wire' = zcl_SendCommand(vals, q.to, q.hdr, q.c, secured)
          /\ asked' = [src |-> q.to.src, to |-> q.to, hdr |-> q.hdr,
                       c |-> q.c, before |-> vals]
  BY <1>3
<1>5. /\ asked'.src = q.to.src /\ asked'.to = q.to /\ asked'.hdr = q.hdr
      /\ asked'.c = q.c /\ asked' # Nobody
  <2>1. "to" \in DOMAIN asked' /\ "to" \notin DOMAIN Nobody
    BY <1>4 DEF Nobody
  <2>2. asked' # Nobody
    BY <2>1
  <2> QED BY <1>4, <2>2
<1>6. IsAsked'
  BY <1>3, <1>4, <1>5 DEF IsAsked
<1>7. Registered' /\ vals' \in Values
  BY <1>1, <1>3, RegisteredStays
<1>8. (vals \in Values)'
  BY <1>7 DEF Values
<1>9. \E p : wire' = <<p>> /\ IsRequest(p)'
  <2> DEFINE data == zclBuildHdr(q.hdr)
                     \o (IF q.hdr.type = PROFILE /\ Known(q.hdr.cmd)
                         THEN Payload(q.hdr.cmd, q.c) ELSE << >>)
             p == [src |-> q.to.src, dst |-> q.to.dst, clusterId |-> q.to.clusterId,
                   unicast |-> q.to.unicast, secure |-> secured, hdr |-> q.hdr,
                   meant |-> q.c, data |-> data]
  <2>1. zcl_DeviceOperational(vals, q.to.src, q.to.clusterId, q.hdr.type, q.hdr.cmd)
    BY <1>1, <1>2, <1>4, AskerFree
  <2>2. wire' = <<p>>
    BY <1>4, <2>1 DEF zcl_SendCommand
  <2> HIDE DEF data
  <2>3. /\ p.src = q.to.src /\ p.dst = q.to.dst /\ p.clusterId = q.to.clusterId
        /\ p.unicast = q.to.unicast /\ p.hdr = q.hdr /\ p.meant = q.c
        /\ p.data = data
    OBVIOUS
  <2> HIDE DEF p
  <2>4. IsRequest(p)'
    BY <1>5, <2>3 DEF IsRequest, data
  <2> QED BY <2>2, <2>4
<1>10. Waiting'
  BY <1>1, <1>3, <1>9 DEF Waiting, Idle
<1> QED BY <1>5, <1>6, <1>7, <1>8, <1>10 DEF ExchangeInv, Nobody

LEMMA FrameTaken ==
    ASSUME ExchangeInv,
           \/ Ignore \/ RejectInsecure \/ ProcessFoundation
           \/ RejectFoundation \/ ProcessSpecific
    PROVE  ExchangeInv'
<1>1. wire # << >> /\ replies = << >>
  BY DEF Ignore, RejectInsecure, ProcessFoundation, RejectFoundation, ProcessSpecific
<1>2. asked # Nobody
  BY <1>1 DEF ExchangeInv, Idle
<1>3. /\ Registered /\ vals \in Values /\ IsAsked
      /\ Waiting \/ Unreplied \/ Replied
  BY <1>2 DEF ExchangeInv
<1>4. CASE Waiting
  BY <1>2, <1>3, <1>4, RequestHandled
<1>5. ~Unreplied
  BY <1>1 DEF Unreplied
<1>6. CASE Replied
  <2>1. PICK a : answers = <<a>> /\ IsAnswer(a) /\ wire = <<a>> /\ HeardElsewhere
    BY <1>1, <1>6 DEF Replied
  <2> QED BY <1>2, <1>3, <2>1, AnswerHandled
<1> QED BY <1>3, <1>4, <1>5, <1>6

LEMMA FinishMade ==
    ASSUME ExchangeInv, Finish
    PROVE  ExchangeInv'
<1>1. /\ replies # << >> /\ wire' = wire \o replies /\ replies' = << >>
      /\ UNCHANGED <<registry, vals, topic, asked, answers, heard>>
  BY DEF Finish
<1>2. asked # Nobody
  BY <1>1 DEF ExchangeInv, Idle
<1>3. /\ Registered /\ vals \in Values /\ IsAsked
      /\ Waiting \/ Unreplied \/ Replied
  BY <1>2 DEF ExchangeInv
<1>4. Replied
  BY <1>1, <1>3 DEF Waiting, Unreplied
<1>5. PICK a : /\ answers = <<a>> /\ IsAnswer(a)
               /\ wire = << >> /\ replies = <<a>> /\ HeardElsewhere
  BY <1>1, <1>4 DEF Replied
<1>6. wire' = <<a>>
  <2>1. << >> \o <<a>> = <<a>>
    OBVIOUS
  <2> QED BY <1>1, <1>5, <2>1
<1>7. IsAnswer(a)'
  BY <1>1, <1>5, AnswerStays
<1>8. HeardElsewhere'
  BY <1>1, <1>5 DEF HeardElsewhere
<1>9. Replied'
  BY <1>1, <1>5, <1>6, <1>7, <1>8 DEF Replied
<1>10. Registered' /\ IsAsked' /\ asked' # Nobody /\ vals' \in Values
  BY <1>1, <1>2, <1>3, RegisteredStays, AskedStays
<1>11. (vals \in Values)'
  BY <1>10 DEF Values
<1> QED BY <1>9, <1>10, <1>11 DEF ExchangeInv, Nobody

LEMMA InitialValues == InitVals \in Values
<1>1. \A s \in Seq(Byte) : s \in Seq(Nat)
  <2>1. \A x \in Byte : x \in Nat
    BY ByteIs
  <2> QED BY <2>1
<1> QED BY <1>1, ValuesAssumption DEF Values

(* Every exchange is a request, then at most one answer to it, each handled  *)
(* once: what is on the way, what is sent back and what was heard go         *)
(* together (zcl_ProcessMessageMSG and the senders).                         *)
THEOREM ExchangesGoOn == ZclSpec => []ExchangeInv
<1>1. ZclInit => ExchangeInv
  <2> SUFFICES ASSUME ZclInit PROVE ExchangeInv
    OBVIOUS
  <2>1. Registered
    BY DEF ZclInit, Registered
  <2>2. vals \in Values
    BY InitialValues DEF ZclInit
  <2>3. asked = Nobody /\ Idle
    BY DEF ZclInit, Idle
  <2> QED BY <2>1, <2>2, <2>3 DEF ExchangeInv
<1>2. ExchangeInv /\ [ZclNext]_zclVars => ExchangeInv'
  <2> SUFFICES ASSUME ExchangeInv, [ZclNext]_zclVars PROVE ExchangeInv'
    OBVIOUS
  <2>1. CASE Ask
    BY <2>1, AskMade
  <2>2. CASE Forget
    <3>1. Registered' /\ vals' \in Values /\ asked' = Nobody /\ Idle'
      BY <2>2, RegisteredStays DEF Forget, ExchangeInv, Idle
    <3>2. (vals \in Values)'
      BY <3>1 DEF Values
    <3> QED BY <3>1, <3>2 DEF ExchangeInv, Nobody
  <2>3. CASE \/ Ignore \/ RejectInsecure \/ ProcessFoundation
             \/ RejectFoundation \/ ProcessSpecific
    BY <2>3, FrameTaken
  <2>4. CASE Finish
    BY <2>4, FinishMade
  <2>5. CASE Proceed
    <3>1. leaving = {} => leaving' = {} /\ groups' = groups
      BY <2>5 DEF Proceed, WriteNV, LeaveGroups, zclGeneral_ScenesRestoreFromNV
    <3> QED BY <2>5, <3>1, NothingTold DEF Proceed
  <2>6. CASE Fail \/ Collapse
    <3>1. Registered' /\ vals' = InitVals /\ asked' = Nobody /\ Idle'
      BY <2>6, RegisteredStays DEF Fail, Collapse, ExchangeInv, Idle
    <3>2. (vals \in Values)'
      BY <3>1, InitialValues DEF Values
    <3> QED BY <3>1, <3>2 DEF ExchangeInv, Nobody
  <2>7. CASE UNCHANGED zclVars
    BY <2>7, NothingTold DEF zclVars, sceneVars
  <2> QED BY <2>1, <2>2, <2>3, <2>4, <2>5, <2>6, <2>7 DEF ZclNext
<1> QED BY <1>1, <1>2, PTL DEF ZclSpec

LEMMA OneAnswerAtMost ==
    ASSUME ExchangeInv, asked # Nobody
    PROVE  \/ answers = << >>
           \/ \E a : answers = <<a>> /\ IsAnswer(a)
BY DEF ExchangeInv, Waiting, Unreplied, Replied

LEMMA HowItSettles ==
    ASSUME ExchangeInv, Settled
    PROVE  \/ answers = << >> /\ NoneDue
           \/ \E a : answers = <<a>> /\ IsAnswer(a) /\ IsHeard(a)
<1>1. asked # Nobody /\ wire = << >> /\ replies = << >>
  BY DEF Settled
<1>2. Waiting \/ Unreplied \/ Replied
  BY <1>1 DEF ExchangeInv
<1>3. CASE Unreplied
  BY <1>3 DEF Unreplied
<1>4. CASE Replied
  BY <1>1, <1>4 DEF Replied
<1> QED BY <1>1, <1>2, <1>3, <1>4 DEF Waiting

(* A unicast command is answered once, whatever the endpoints have           *)
(* registered and whatever is written and restored in between: by its        *)
(* response or by a default response, never by both and never not at all     *)
(* but for the few that are left to the application                          *)
(* (zcl_ProcessMessageMSG, CMD_HAS_RSP, the returns of the handlers).        *)
THEOREM EveryCommandAnswered == ZclSpec => []AnsweredOnce
<1>1. ASSUME ExchangeInv PROVE AnsweredOnce
  <2> SUFFICES ASSUME asked # Nobody, asked.to.unicast
               PROVE  /\ Len(answers) <= 1
                      /\ \A k \in DOMAIN answers :
                            /\ answers[k].hdr.seq = asked.hdr.seq
                            /\ answers[k].hdr.disableDefaultRsp
                            /\ answers[k].dst = asked.src
                      /\ Settled => \/ Unanswered \/ asked.hdr.disableDefaultRsp
                                    \/ Len(answers) = 1
                      /\ asked.hdr.disableDefaultRsp =>
                            \A k \in DOMAIN answers :
                                /\ answers[k].hdr.type = PROFILE
                                /\ answers[k].hdr.cmd = ZCL_CMD.DEFAULT_RSP
                                => answers[k].meant.statusCode
                                   = ZCL_STATUS.FAILURE
    BY DEF AnsweredOnce
  <2>1. CASE answers = << >>
    <3>1. Len(answers) = 0 /\ DOMAIN answers = {}
      BY <2>1
    <3>2. ASSUME Settled PROVE Unanswered \/ asked.hdr.disableDefaultRsp
      <4>1. \A a : answers # <<a>>
        BY <2>1
      <4>2. NoneDue
        BY <1>1, <3>2, <4>1, HowItSettles
      <4> QED BY <4>2 DEF NoneDue, Unanswered
    <3> QED BY <3>1, <3>2
  <2>2. CASE \E a : answers = <<a>> /\ IsAnswer(a)
    <3>1. PICK a : answers = <<a>> /\ IsAnswer(a)
      BY <2>2
    <3>2. Len(answers) = 1 /\ DOMAIN answers = {1} /\ answers[1] = a
      BY <3>1
    <3>3. /\ a.hdr.seq = asked.hdr.seq /\ a.hdr.disableDefaultRsp
          /\ a.dst = asked.src
          /\ asked.hdr.disableDefaultRsp /\ a.hdr.type = PROFILE
             /\ a.hdr.cmd = ZCL_CMD.DEFAULT_RSP =>
                a.meant.statusCode = ZCL_STATUS.FAILURE
      BY <3>1 DEF IsAnswer
    <3> QED BY <3>2, <3>3
  <2> QED BY <1>1, <2>1, <2>2, OneAnswerAtMost
<1> QED BY <1>1, ExchangesGoOn, PTL

(* The answer to a command of the library is given to the task registered    *)
(* for the endpoint that asked, once and to no other, in whichever order it  *)
(* and the task for all endpoints were registered (TasksInOrder,             *)
(* zcl_addExternalFoundationHandler, zcl_HandleExternal).                    *)
THEOREM EveryAnswerHeard == ZclSpec => []AnswersAreHeard
<1>1. ASSUME ExchangeInv PROVE AnswersAreHeard
  <2>1. ASSUME Settled, answers # << >> PROVE IsHeard(answers[1])
    <3>1. PICK a : answers = <<a>> /\ IsHeard(a)
      BY <1>1, <2>1, HowItSettles
    <3>2. answers[1] = a
      BY <3>1
    <3> QED BY <3>1, <3>2
  <2> QED BY <2>1 DEF AnswersAreHeard, IsHeard
<1> QED BY <1>1, ExchangesGoOn, PTL

(* The list that answers a discovery is exact for every list of attributes   *)
(* and of commands that is registered in order and every number to start     *)
(* from and most numbers to list: the next ones of the cluster and the side  *)
(* asked, in order, none left out and none twice, and complete only if       *)
(* nothing is left (zclProcessInDiscAttrs, zclProcessInDiscCmd).             *)
THEOREM EveryDiscoveryExact == ZclSpec => []DiscoveryIsExact
<1>1. ASSUME ExchangeInv PROVE DiscoveryIsExact
  <2>1. ASSUME asked # Nobody, Foundation, OfAttributes \/ OfCommands, answers # << >>,
               answers[1].hdr.cmd = asked.hdr.cmd + 1
        PROVE  Exact(answers[1].meant)
    <3>1. PICK a : answers = <<a>> /\ IsAnswer(a)
      BY <1>1, <2>1, OneAnswerAtMost
    <3>2. answers[1] = a
      BY <3>1
    <3> QED BY <2>1, <3>1, <3>2 DEF IsAnswer
  <2> QED BY <2>1 DEF DiscoveryIsExact
<1> QED BY <1>1, ExchangesGoOn, PTL
=============================================================================
