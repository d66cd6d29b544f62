---------------------------- MODULE ZclZonesProofs ----------------------------
(***************************************************************************)
(* However the requests and the answers of any number of devices are lost, *)
(* repeated and interleaved, no two devices are told the same zone, and a  *)
(* device is refused for want of room only when every number is taken: for *)
(* every set of devices, every zone type of theirs and every highest zone  *)
(* number up to the code's 254.                                            *)
(***************************************************************************)
EXTENDS ZclZones, FiniteSetTheorems, WellFoundedInduction, TLAPS

--------------------------------------------------------------------------------
(* The frames that are ever on the air, and what the two sides read in them. *)
Request(d, seq) ==
    [src |-> d, dst |-> Gateway, clusterID |-> ZCL_CLUSTER_ID_SS_IAS_ZONE,
     data |-> <<9, seq, ENROLL_REQUEST,
                ZoneType[d] % 256, ZoneType[d] \div 256, 0, 0>>]
Notification(d, seq, manu) ==
    [src |-> d, dst |-> Gateway, clusterID |-> ZCL_CLUSTER_ID_SS_IAS_ZONE,
     data |-> IF manu = 0 THEN <<9, seq, CHANGE_NOTIFICATION, 1, 0, 0>>
              ELSE <<13, manu % 256, manu \div 256, seq, CHANGE_NOTIFICATION,
                     1, 0, 0>>]
Response(d, seq, code, id) ==
    [src |-> Gateway, dst |-> d, clusterID |-> ZCL_CLUSTER_ID_SS_IAS_ZONE,
     data |-> <<17, seq, ENROLL_RESPONSE, code, id>>]

IsRequest(msg) == \E d \in Devices, seq \in Nat : msg = Request(d, seq)
IsNotification(msg) ==
    \E d \in Devices, seq \in Nat, manu \in {0, 4660} :
        msg = Notification(d, seq, manu)
IsResponse(msg) ==
    \E d \in Devices, seq \in Nat,
       code \in {Granted, NOT_SUPPORTED, TOO_MANY_ZONES},
       id \in 0 .. NoFreeID : msg = Response(d, seq, code, id)

CodeOf(msg) == zcl_parsehdr(msg.data).data[1]
ZoneOf(msg) == zcl_parsehdr(msg.data).data[2]
Grants(msg) == msg.dst # Gateway /\ CodeOf(msg) = Granted

--------------------------------------------------------------------------------
(* The invariant.  A number is enrolled for a device once the table holds it *)
(* with the device's type: that happens before the answer leaves, so every   *)
(* grant on the air and every zone a device was told is enrolled; a number   *)
(* the table holds is never given again, so they are all apart.              *)
ZoneIDs == {zclSS_ZoneTable[k].zoneID : k \in DOMAIN zclSS_ZoneTable}
Enrolled(id, d) ==
    \E k \in DOMAIN zclSS_ZoneTable :
        zclSS_ZoneTable[k] = [zoneID |-> id, zoneType |-> ZoneType[d]]

ZoneTypes ==
    /\ zclSS_ZoneTable \in Seq([zoneID : 0 .. ZCL_SS_MAX_ZONE_ID - 1,
                                zoneType : Int])
    /\ nextAvailZoneID \in 0 .. ZCL_SS_MAX_ZONE_ID
    /\ requests \in [Devices -> Nat]
    /\ zone \in [Devices -> Int]
Frames ==
    \A msg \in air : IsRequest(msg) \/ IsNotification(msg) \/ IsResponse(msg)
IDsApart ==
    \A j, k \in DOMAIN zclSS_ZoneTable :
        zclSS_ZoneTable[j].zoneID = zclSS_ZoneTable[k].zoneID => j = k
GrantsEnrolled ==
    \A msg \in air : Grants(msg) => Enrolled(ZoneOf(msg), msg.dst)
ToldEnrolled == \A d \in Devices : zone[d] # NoZone => Enrolled(zone[d], d)
GrantsApart ==
    \A m, n \in air :
        Grants(m) /\ Grants(n) /\ m.dst # n.dst => ZoneOf(m) # ZoneOf(n)
GrantsUntold ==
    \A msg \in air, d \in Devices :
        Grants(msg) /\ d # msg.dst => zone[d] # ZoneOf(msg)
ToldApart ==
    \A d, e \in Devices : zone[d] # NoZone /\ zone[e] = zone[d] => d = e
ZonesInv ==
    /\ ZoneTypes /\ Frames
    /\ IDsApart /\ GrantsEnrolled /\ ToldEnrolled
    /\ GrantsApart /\ GrantsUntold /\ ToldApart
    /\ RefusedOnlyWhenFull

--------------------------------------------------------------------------------
(* What is sent is what is read.                                             *)
LEMMA Bits == /\ BitOf(9, 2) = 0 /\ BitOf(9, 3) = 1
              /\ BitOf(13, 2) = 1 /\ BitOf(17, 2) = 0
BY DEF BitOf

\* A zone type goes in two bytes.
LEMMA TwoBytes ==
    ASSUME NEW t \in Nat
    PROVE  t % 256 \in Int /\ t \div 256 \in Int
           /\ (t % 256) + 256 * (t \div 256) = t
OBVIOUS

LEMMA Maxima ==
    /\ ZCL_SS_MAX_ZONE_ID \in 1 .. 254
    /\ ZCL_SS_MAX_ZONES = ZCL_SS_MAX_ZONE_ID + 2
BY ZonesAssumption

LEMMA TypeInRange ==
    ASSUME NEW d \in Devices
    PROVE  ZoneType[d] \in Nat
<1>1. ZoneType[d] \in 0 .. 2^16 - 1
  BY ZonesAssumption
<1> QED BY <1>1

LEMMA RequestParsed ==
    ASSUME NEW d \in Devices, NEW seq \in Nat
    PROVE  LET msg == Request(d, seq)
               hdr == zcl_parsehdr(msg.data)
           IN /\ msg.src = d /\ msg.dst = Gateway
              /\ IsEnrollRequest(msg, hdr)
              /\ hdr.transseqnum = seq
              /\ hdr.data[1] + 256 * hdr.data[2] = ZoneType[d]
<1> DEFINE t == ZoneType[d]
           a == t % 256
           b == t \div 256
           data == <<9, seq, ENROLL_REQUEST, a, b, 0, 0>>
           hdr == zcl_parsehdr(data)
<1>1. a \in Int /\ b \in Int /\ a + 256 * b = t
  <2>1. t \in Nat
    BY TypeInRange
  <2> HIDE DEF t
  <2> QED BY <2>1, TwoBytes
<1> HIDE DEF t, a, b
<1>2. data \in Seq(Int) /\ Len(data) = 7
  BY <1>1 DEF ENROLL_REQUEST
<1>3. /\ hdr.type = 1 /\ hdr.manuspecific = 0 /\ hdr.direction = 1
      /\ hdr.transseqnum = seq /\ hdr.commandid = ENROLL_REQUEST
      /\ hdr.data = SubSeq(data, 4, 7)
  BY <1>2, Bits DEF zcl_parsehdr
<1>4. hdr.data[1] = a /\ hdr.data[2] = b
  BY <1>2, <1>3
<1>5. Request(d, seq) = [src |-> d, dst |-> Gateway,
                         clusterID |-> ZCL_CLUSTER_ID_SS_IAS_ZONE,
                         data |-> data]
  BY DEF Request, a, b, t
<1> HIDE DEF data, hdr
<1>6. IsEnrollRequest(Request(d, seq), hdr)
  BY <1>3, <1>5 DEF IsEnrollRequest, CLUSTER_SPECIFIC, ToClient
<1>7. hdr = zcl_parsehdr(Request(d, seq).data)
  BY <1>5 DEF hdr
<1> QED BY <1>1, <1>3, <1>4, <1>5, <1>6, <1>7 DEF t

\* A notification is no request, with a manufacturer's code or without.
LEMMA NotificationParsed ==
    ASSUME NEW d \in Devices, NEW seq \in Nat, NEW manu \in {0, 4660}
    PROVE  LET msg == Notification(d, seq, manu)
           IN msg.dst = Gateway /\ ~IsEnrollRequest(msg, zcl_parsehdr(msg.data))
<1> DEFINE msg == Notification(d, seq, manu)
<1>1. msg.dst = Gateway
  BY DEF Notification
<1>2. CASE manu = 0
  <2>1. msg.data = <<9, seq, CHANGE_NOTIFICATION, 1, 0, 0>>
    BY <1>2 DEF Notification
  <2>2. zcl_parsehdr(msg.data).commandid = CHANGE_NOTIFICATION
    BY <2>1, Bits DEF zcl_parsehdr
  <2> QED BY <1>1, <2>2
          DEF IsEnrollRequest, CHANGE_NOTIFICATION, ENROLL_REQUEST
<1>3. CASE manu = 4660
  <2>1. msg.data[1] = 13
    BY <1>3 DEF Notification
  <2>2. zcl_parsehdr(msg.data).manuspecific = 1
    BY <2>1, Bits DEF zcl_parsehdr
  <2> QED BY <1>1, <2>2 DEF IsEnrollRequest
<1> QED BY <1>2, <1>3

LEMMA ResponseParsed ==
    ASSUME NEW d, NEW seq \in Nat, NEW code \in Int, NEW id \in Int
    PROVE  LET msg == Response(d, seq, code, id)
           IN msg.dst = d /\ CodeOf(msg) = code /\ ZoneOf(msg) = id
<1> DEFINE data == <<17, seq, ENROLL_RESPONSE, code, id>>
<1>1. data \in Seq(Int) /\ Len(data) = 5
  BY DEF ENROLL_RESPONSE
<1>2. zcl_parsehdr(data).data = SubSeq(data, 4, 5)
  BY <1>1, Bits DEF zcl_parsehdr
<1>3. zcl_parsehdr(data).data[1] = code /\ zcl_parsehdr(data).data[2] = id
  BY <1>1, <1>2
<1>4. Response(d, seq, code, id).dst = d
      /\ Response(d, seq, code, id).data = data
  BY DEF Response
<1> QED BY <1>3, <1>4 DEF CodeOf, ZoneOf

LEMMA AnswerSent ==
    ASSUME NEW d \in Devices, NEW seq \in Nat, NEW code, NEW id
    PROVE  zclSS_IAS_Send_ZoneStatusEnrollResponseCmd(
               Request(d, seq), zcl_parsehdr(Request(d, seq).data), code, id)
             = Response(d, seq, code, id)
<1> DEFINE msg == Request(d, seq)
           hdr == zcl_parsehdr(msg.data)
<1>1. msg.src = d /\ msg.dst = Gateway /\ hdr.transseqnum = seq
  BY RequestParsed
<1> HIDE DEF msg, hdr
<1>2. zclSS_IAS_Send_ZoneStatusEnrollResponseCmd(msg, hdr, code, id)
        = Response(d, seq, code, id)
  BY <1>1 DEF zclSS_IAS_Send_ZoneStatusEnrollResponseCmd, SendCommand,
              BuildHdr, Response, CLUSTER_SPECIFIC, ToServer
<1> QED BY <1>2 DEF msg, hdr

--------------------------------------------------------------------------------
(* The search for a free number finds one exactly when there is one.         *)
LEMMA Wraps ==
    ASSUME NEW w \in Nat, w > 0, NEW a \in Nat
    PROVE  /\ a % w \in 0 .. w - 1
           /\ a < w => a % w = a
           /\ w <= a /\ a < 2 * w => a % w = a - w
OBVIOUS

LEMMA LeastExists ==
    ASSUME NEW S \in SUBSET Nat, S # {}
    PROVE  Min(S) \in S
<1>1. PICK m \in S : \A n \in S : ~(<<n, m>> \in OpToRel(<, Nat))
  BY NatLessThanWellFounded, WFMin
<1>2. \A n \in S : ~(n < m)
  BY <1>1 DEF OpToRel
<1>3. \A n \in S : m <= n
  BY <1>2
<1> QED BY <1>3 DEF Min

LEMMA IDsInRange ==
    ASSUME ZoneTypes
    PROVE  \A k \in DOMAIN zclSS_ZoneTable :
               zclSS_ZoneTable[k].zoneID \in 0 .. ZCL_SS_MAX_ZONE_ID - 1
<1> DEFINE Zone == [zoneID : 0 .. ZCL_SS_MAX_ZONE_ID - 1, zoneType : Int]
<1>1. zclSS_ZoneTable \in Seq(Zone)
  BY DEF ZoneTypes
<1>2. \A z \in Zone : z.zoneID \in 0 .. ZCL_SS_MAX_ZONE_ID - 1
  OBVIOUS
<1> HIDE DEF Zone
<1>3. \A k \in DOMAIN zclSS_ZoneTable : zclSS_ZoneTable[k] \in Zone
  BY <1>1
<1> QED BY <1>2, <1>3

LEMMA FreeID ==
    ASSUME ZoneTypes
    PROVE  LET id == zclSS_GetNextFreeZoneID
           IN /\ id # NoFreeID => id \in 0 .. ZCL_SS_MAX_ZONE_ID - 1
                                  /\ id \notin ZoneIDs
              /\ id = NoFreeID => ZoneIDs = 0 .. ZCL_SS_MAX_ZONE_ID - 1
<1> DEFINE M == ZCL_SS_MAX_ZONE_ID
           at(n) == Following(nextAvailZoneID, n)
           free == {n \in 0 .. M : zclSS_ZoneIDAvailable(at(n))}
<1>1. M \in Nat /\ M > 0 /\ nextAvailZoneID \in 0 .. M
  <2>1. M \in 1 .. 254
    BY Maxima
  <2>2. nextAvailZoneID \in 0 .. M
    BY DEF ZoneTypes
  <2> QED BY <2>1, <2>2
<1>2. \A n \in 0 .. M : at(n) \in 0 .. M
  BY <1>1, Wraps DEF Following
<1>3. ASSUME NEW id \in 0 .. M - 1
      PROVE  \E n \in 0 .. M : at(n) = id
  <2>1. CASE nextAvailZoneID <= id
    <3>1. id - nextAvailZoneID \in 0 .. M
      BY <1>1, <2>1
    <3>2. at(id - nextAvailZoneID) = id
      BY <1>1, <2>1, <3>1, Wraps DEF Following
    <3> QED BY <3>1, <3>2
  <2>2. CASE id < nextAvailZoneID
    <3> DEFINE n == id - nextAvailZoneID + M + 1
    <3>1. n \in 0 .. M
      BY <1>1, <2>2
    <3>2. nextAvailZoneID + n = id + (M + 1)
      BY <1>1
    <3>3. (id + (M + 1)) % (M + 1) = id
      BY <1>1, Wraps
    <3>4. at(n) = id
      BY <3>2, <3>3 DEF Following
    <3> QED BY <3>1, <3>4
  <2> QED BY <1>1, <2>1, <2>2
<1>4. \A id : zclSS_ZoneIDAvailable(id) <=> id < M /\ id \notin ZoneIDs
  BY DEF zclSS_ZoneIDAvailable, ZoneIDs
<1>5. ZoneIDs \subseteq 0 .. M - 1
  BY IDsInRange DEF ZoneIDs
<1>6. NoFreeID = M + 1
  BY DEF NoFreeID
<1>7. zclSS_GetNextFreeZoneID = IF free = {} THEN NoFreeID ELSE at(Min(free))
  BY DEF zclSS_GetNextFreeZoneID
<1>8. CASE free = {}
  <2>1. \A id \in 0 .. M - 1 : id \in ZoneIDs
    BY <1>1, <1>3, <1>4, <1>8
  <2> QED BY <1>5, <1>7, <1>8, <2>1
<1>9. CASE free # {}
  <2>1. free \in SUBSET Nat
    OBVIOUS
  <2>2. Min(free) \in free
    BY <1>9, <2>1, LeastExists
  <2>3. at(Min(free)) \in 0 .. M /\ zclSS_ZoneIDAvailable(at(Min(free)))
    BY <1>2, <2>2
  <2> QED BY <1>1, <1>4, <1>6, <1>7, <1>9, <2>3
<1> QED BY <1>8, <1>9

\* As the numbers of the table differ, it is never longer than they are many.
LEMMA Room ==
    ASSUME ZoneTypes, IDsApart
    PROVE  zclSS_CountAllZones < ZCL_SS_MAX_ZONES - 1
<1> DEFINE M == ZCL_SS_MAX_ZONE_ID
           f == [k \in DOMAIN zclSS_ZoneTable |-> zclSS_ZoneTable[k].zoneID]
<1>1. M \in 1 .. 254 /\ ZCL_SS_MAX_ZONES = M + 2
  BY Maxima
<1>2. DOMAIN zclSS_ZoneTable = 1 .. Len(zclSS_ZoneTable)
      /\ Len(zclSS_ZoneTable) \in Nat
  BY DEF ZoneTypes
<1>3. \A k \in DOMAIN zclSS_ZoneTable : zclSS_ZoneTable[k].zoneID \in 0 .. M - 1
  BY IDsInRange
<1>4. f \in Injection(1 .. Len(zclSS_ZoneTable), 0 .. M - 1)
  BY <1>2, <1>3 DEF IDsApart, Injection, IsInjective
<1>5. IsFiniteSet(0 .. M - 1) /\ Cardinality(0 .. M - 1) = M
  BY <1>1, FS_Interval
<1>6. Cardinality(1 .. Len(zclSS_ZoneTable)) = Len(zclSS_ZoneTable)
  <2> DEFINE n == Len(zclSS_ZoneTable)
  <2> HIDE DEF n
  <2>1. Cardinality(1 .. n) = IF 1 > n THEN 0 ELSE n - 1 + 1
    BY <1>2, FS_Interval DEF n
  <2>2. n \in Nat
    BY <1>2 DEF n
  <2>3. Cardinality(1 .. n) = n
    BY <2>1, <2>2
  <2> QED BY <2>3 DEF n
<1>7. Cardinality(1 .. Len(zclSS_ZoneTable)) <= Cardinality(0 .. M - 1)
  BY <1>4, <1>5, FS_Injection
<1>8. Len(zclSS_ZoneTable) <= M
  BY <1>5, <1>6, <1>7
<1>9. zclSS_CountAllZones <= M
  BY <1>1, <1>2, <1>8 DEF zclSS_CountAllZones
<1> QED BY <1>1, <1>2, <1>9 DEF zclSS_CountAllZones

--------------------------------------------------------------------------------
(* A step that takes no number.                                              *)
\* What AskToEnroll, Tell, Lose and every refusal do: the table stays, nobody is
\* told anything, and what is new on the air grants nothing, and refuses for
\* want of room only when there is none.
Harmless(msg) ==
    \/ IsRequest(msg) \/ IsNotification(msg)
    \/ /\ IsResponse(msg) /\ CodeOf(msg) # Granted
       /\ CodeOf(msg) = TOO_MANY_ZONES => ZoneIDs = 0 .. ZCL_SS_MAX_ZONE_ID - 1

LEMMA GatewayIsNoDevice == Gateway \notin Devices
BY ZonesAssumption

\* Only an answer grants, and it goes to a device.
LEMMA GrantIsAnswer ==
    ASSUME NEW msg
    PROVE  /\ IsRequest(msg) \/ IsNotification(msg) => msg.dst = Gateway
           /\ IsResponse(msg) =>
                /\ msg.dst \in Devices /\ msg.dst # Gateway
                /\ CodeOf(msg) \in {Granted, NOT_SUPPORTED, TOO_MANY_ZONES}
                /\ ZoneOf(msg) \in 0 .. NoFreeID
<1>1. ASSUME IsRequest(msg) PROVE msg.dst = Gateway
  <2>1. PICK d \in Devices, seq \in Nat : msg = Request(d, seq)
    BY <1>1 DEF IsRequest
  <2> QED BY <2>1, RequestParsed
<1>2. ASSUME IsNotification(msg) PROVE msg.dst = Gateway
  <2>1. PICK d \in Devices, seq \in Nat, manu \in {0, 4660} :
            msg = Notification(d, seq, manu)
    BY <1>2 DEF IsNotification
  <2> QED BY <2>1, NotificationParsed
<1>3. ASSUME IsResponse(msg)
      PROVE  /\ msg.dst \in Devices /\ msg.dst # Gateway
             /\ CodeOf(msg) \in {Granted, NOT_SUPPORTED, TOO_MANY_ZONES}
             /\ ZoneOf(msg) \in 0 .. NoFreeID
  <2>1. PICK d \in Devices, seq \in Nat,
             code \in {Granted, NOT_SUPPORTED, TOO_MANY_ZONES},
             id \in 0 .. NoFreeID : msg = Response(d, seq, code, id)
    BY <1>3 DEF IsResponse
  <2>2. code \in Int /\ id \in Int
    BY DEF Granted, NOT_SUPPORTED, TOO_MANY_ZONES
  <2>3. msg.dst = d /\ CodeOf(msg) = code /\ ZoneOf(msg) = id
    BY <2>1, <2>2, ResponseParsed
  <2> QED BY <2>3, GatewayIsNoDevice
<1> QED BY <1>1, <1>2, <1>3

LEMMA NoGrant ==
    ASSUME ZonesInv, requests' \in [Devices -> Nat],
           UNCHANGED <<zclSS_ZoneTable, nextAvailZoneID, zone>>,
           \A msg \in air' : msg \in air \/ Harmless(msg)
    PROVE  ZonesInv'
<1>1. ZoneTypes'
  BY DEF ZonesInv, ZoneTypes
<1>2. ZoneIDs' = ZoneIDs
  BY DEF ZoneIDs
<1>3. \A id, d : Enrolled(id, d)' <=> Enrolled(id, d)
  BY DEF Enrolled
<1>4. Frames'
  BY DEF ZonesInv, Frames, Harmless
<1>5. \A msg \in air' : Grants(msg) => msg \in air
  <2>1. ASSUME NEW msg, Harmless(msg) PROVE ~Grants(msg)
    BY <2>1, GrantIsAnswer DEF Harmless, Grants
  <2> QED BY <2>1
<1>6. IDsApart'
  BY DEF ZonesInv, IDsApart
<1>7. GrantsEnrolled'
  BY <1>3, <1>5 DEF ZonesInv, GrantsEnrolled
<1>8. ToldEnrolled'
  BY <1>3 DEF ZonesInv, ToldEnrolled
<1>9. GrantsApart'
  BY <1>5 DEF ZonesInv, GrantsApart
<1>10. GrantsUntold'
  BY <1>5 DEF ZonesInv, GrantsUntold
<1>11. ToldApart'
  BY DEF ZonesInv, ToldApart
<1>12. RefusedOnlyWhenFull'
  <2>1. ASSUME NEW msg \in air', msg.dst # Gateway,
               CodeOf(msg) = TOO_MANY_ZONES
        PROVE  ZoneIDs = 0 .. ZCL_SS_MAX_ZONE_ID - 1
    <3>1. CASE msg \in air
      BY <2>1, <3>1 DEF ZonesInv, RefusedOnlyWhenFull, CodeOf, ZoneIDs
    <3>2. CASE Harmless(msg)
      BY <2>1, <3>2, GrantIsAnswer DEF Harmless
    <3> QED BY <3>1, <3>2
  <2>2. \A msg \in air' : msg.dst # Gateway /\ CodeOf(msg) = TOO_MANY_ZONES =>
            ZoneIDs' = 0 .. ZCL_SS_MAX_ZONE_ID - 1
    BY <1>2, <2>1
  <2> QED BY <2>2 DEF RefusedOnlyWhenFull, CodeOf, ZoneIDs
<1> QED BY <1>1, <1>4, <1>6, <1>7, <1>8, <1>9, <1>10, <1>11, <1>12 DEF ZonesInv

LEMMA AskStep ==
    ASSUME ZonesInv, NEW d \in Devices, AskToEnroll(d)
    PROVE  ZonesInv'
<1>1. requests \in [Devices -> Nat]
  BY DEF ZonesInv, ZoneTypes
<1>2. requests' \in [Devices -> Nat] /\ requests[d] \in Nat
  BY <1>1 DEF AskToEnroll
<1> DEFINE seq == requests[d]
<1>3. SendCommand(d, Gateway, ZCL_CLUSTER_ID_SS_IAS_ZONE, CLUSTER_SPECIFIC,
          ToClient, 0, 0, seq, ENROLL_REQUEST,
          <<ZoneType[d] % 256, ZoneType[d] \div 256, 0, 0>>)
        = Request(d, seq)
  <2> DEFINE a == ZoneType[d] % 256
             b == ZoneType[d] \div 256
  <2> HIDE DEF a, b
  <2>1. SendCommand(d, Gateway, ZCL_CLUSTER_ID_SS_IAS_ZONE, CLUSTER_SPECIFIC,
            ToClient, 0, 0, seq, ENROLL_REQUEST, <<a, b, 0, 0>>)
          = [src |-> d, dst |-> Gateway,
             clusterID |-> ZCL_CLUSTER_ID_SS_IAS_ZONE,
             data |-> <<9, seq, ENROLL_REQUEST, a, b, 0, 0>>]
    BY DEF SendCommand, BuildHdr, CLUSTER_SPECIFIC, ToClient
  <2> QED BY <2>1 DEF Request, a, b
<1>4. air' = air \cup {Request(d, seq)}
  BY <1>3 DEF AskToEnroll
<1>5. IsRequest(Request(d, seq))
  BY <1>2 DEF IsRequest
<1> QED BY <1>2, <1>4, <1>5, NoGrant DEF AskToEnroll, Harmless

LEMMA TellStep ==
    ASSUME ZonesInv, NEW d \in Devices, Tell(d)
    PROVE  ZonesInv'
<1>1. requests \in [Devices -> Nat]
  BY DEF ZonesInv, ZoneTypes
<1>2. requests' \in [Devices -> Nat] /\ requests[d] \in Nat
  BY <1>1 DEF Tell
<1>3. PICK manu \in {0, 4660} :
          air' = air \cup
             {SendCommand(d, Gateway, ZCL_CLUSTER_ID_SS_IAS_ZONE,
                  CLUSTER_SPECIFIC, ToClient, 0, manu, requests[d],
                  CHANGE_NOTIFICATION, <<1, 0, 0>>)}
  BY DEF Tell
<1> DEFINE seq == requests[d]
<1>4. SendCommand(d, Gateway, ZCL_CLUSTER_ID_SS_IAS_ZONE, CLUSTER_SPECIFIC,
          ToClient, 0, manu, seq, CHANGE_NOTIFICATION, <<1, 0, 0>>)
        = Notification(d, seq, manu)
  <2>1. CASE manu = 0
    BY <2>1 DEF Notification, SendCommand, BuildHdr, CLUSTER_SPECIFIC, ToClient
  <2>2. CASE manu = 4660
    BY <2>2 DEF Notification, SendCommand, BuildHdr, CLUSTER_SPECIFIC, ToClient
  <2> QED BY <2>1, <2>2
<1>5. IsNotification(Notification(d, seq, manu))
  BY <1>2 DEF IsNotification
<1> QED BY <1>2, <1>3, <1>4, <1>5, NoGrant DEF Tell, Harmless

LEMMA LoseStep ==
    ASSUME ZonesInv, NEW msg \in air, Lose(msg)
    PROVE  ZonesInv'
<1>1. requests' \in [Devices -> Nat]
  BY DEF ZonesInv, ZoneTypes, Lose
<1> QED BY <1>1, NoGrant DEF Lose

--------------------------------------------------------------------------------
(* The gateway's step.                                                       *)
LEMMA RefusalStep ==
    ASSUME ZonesInv, requests' = requests,
           UNCHANGED <<zclSS_ZoneTable, nextAvailZoneID, zone>>,
           NEW d \in Devices, NEW seq \in Nat,
           NEW code \in {NOT_SUPPORTED, TOO_MANY_ZONES},
           NEW id \in 0 .. NoFreeID,
           air' \subseteq air \cup {Response(d, seq, code, id)},
           code = TOO_MANY_ZONES => ZoneIDs = 0 .. ZCL_SS_MAX_ZONE_ID - 1
    PROVE  ZonesInv'
<1> DEFINE ans == Response(d, seq, code, id)
<1>1. code \in Int /\ id \in Int /\ code # Granted
  BY DEF NOT_SUPPORTED, TOO_MANY_ZONES, Granted
<1>2. CodeOf(ans) = code
  BY <1>1, ResponseParsed
<1>3. IsResponse(ans)
  BY DEF IsResponse
<1>4. Harmless(ans)
  BY <1>1, <1>2, <1>3 DEF Harmless
<1>5. requests' \in [Devices -> Nat]
  BY DEF ZonesInv, ZoneTypes
<1> QED BY <1>4, <1>5, NoGrant

\* The number is new to the table, hence to every grant on the air and to
\* every zone that a device was told.
LEMMA GrantStep ==
    ASSUME ZonesInv, requests' = requests, zone' = zone,
           NEW d \in Devices, NEW seq \in Nat, NEW id,
           id = zclSS_GetNextFreeZoneID, id # NoFreeID,
           zclSS_ZoneTable' = Append(zclSS_ZoneTable,
                                     [zoneID |-> id, zoneType |-> ZoneType[d]]),
           nextAvailZoneID' = id,
           air' \subseteq air \cup {Response(d, seq, Granted, id)}
    PROVE  ZonesInv'
<1> DEFINE M == ZCL_SS_MAX_ZONE_ID
           z == [zoneID |-> id, zoneType |-> ZoneType[d]]
           Zone == [zoneID : 0 .. M - 1, zoneType : Int]
           len == Len(zclSS_ZoneTable)
           ans == Response(d, seq, Granted, id)
<1>1. id \in 0 .. M - 1 /\ id \notin ZoneIDs
  BY FreeID DEF ZonesInv
<1>2. M \in Nat
  <2>1. M \in 1 .. 254
    BY Maxima
  <2> QED BY <2>1
<1>3. z \in Zone
  BY <1>1, TypeInRange
<1>4. zclSS_ZoneTable \in Seq(Zone)
  BY DEF ZonesInv, ZoneTypes
<1>5. z.zoneID = id
  OBVIOUS
<1>6. ans.dst = d /\ CodeOf(ans) = Granted /\ ZoneOf(ans) = id
  BY <1>1, ResponseParsed DEF Granted
<1>7. IsResponse(ans)
  BY <1>1, <1>2 DEF IsResponse, NoFreeID
<1>8. \A msg \in air' : msg \in air \/ msg = ans
  OBVIOUS
<1>9. d # Gateway
  BY GatewayIsNoDevice
<1> HIDE DEF Zone, ans
<1>10. /\ zclSS_ZoneTable' \in Seq(Zone) /\ DOMAIN zclSS_ZoneTable = 1 .. len
       /\ len \in Nat
       /\ DOMAIN zclSS_ZoneTable' = 1 .. len + 1
       /\ \A k \in 1 .. len : zclSS_ZoneTable'[k] = zclSS_ZoneTable[k]
       /\ zclSS_ZoneTable'[len + 1] = z
  <2> HIDE DEF z
  <2> QED BY <1>3, <1>4 DEF z
<1> HIDE DEF len
<1>11. ZoneTypes'
  BY <1>1, <1>2, <1>10 DEF ZonesInv, ZoneTypes, Zone
<1>12. Frames'
  BY <1>7, <1>8 DEF ZonesInv, Frames
<1>13. \A k \in 1 .. len : zclSS_ZoneTable[k].zoneID # id
  BY <1>1, <1>10 DEF ZoneIDs
<1>14. IDsApart'
  <2>1. ASSUME NEW j \in 1 .. len + 1, NEW k \in 1 .. len + 1,
               zclSS_ZoneTable'[j].zoneID = zclSS_ZoneTable'[k].zoneID
        PROVE  j = k
    <3>1. CASE j \in 1 .. len /\ k \in 1 .. len
      BY <1>10, <2>1, <3>1 DEF ZonesInv, IDsApart
    <3>2. CASE j = len + 1 /\ k \in 1 .. len
      BY <1>5, <1>10, <1>13, <2>1, <3>2
    <3>3. CASE j \in 1 .. len /\ k = len + 1
      BY <1>5, <1>10, <1>13, <2>1, <3>3
    <3>4. CASE j = len + 1 /\ k = len + 1
      BY <3>4
    <3> QED BY <1>10, <3>1, <3>2, <3>3, <3>4
  <2> QED BY <1>10, <2>1 DEF IDsApart
<1>15. ASSUME NEW i, NEW e, Enrolled(i, e)
       PROVE  Enrolled(i, e)' /\ i # id
  <2>1. PICK k \in 1 .. len :
            zclSS_ZoneTable[k] = [zoneID |-> i, zoneType |-> ZoneType[e]]
    BY <1>10, <1>15 DEF Enrolled
  <2>2. zclSS_ZoneTable'[k] = [zoneID |-> i, zoneType |-> ZoneType[e]]
        /\ k \in DOMAIN zclSS_ZoneTable'
    BY <1>10, <2>1
  <2>3. zclSS_ZoneTable[k].zoneID = i
    BY <2>1
  <2> QED BY <1>13, <2>1, <2>2, <2>3 DEF Enrolled
<1>16. Enrolled(id, d)'
  <2>1. len + 1 \in DOMAIN zclSS_ZoneTable'
    BY <1>10
  <2> QED BY <1>10, <2>1 DEF Enrolled
<1>17. GrantsEnrolled'
  BY <1>6, <1>8, <1>15, <1>16 DEF ZonesInv, GrantsEnrolled
<1>18. ToldEnrolled'
  BY <1>15 DEF ZonesInv, ToldEnrolled
<1>19. \A msg \in air : Grants(msg) => ZoneOf(msg) # id
  BY <1>15 DEF ZonesInv, GrantsEnrolled
<1>20. \A e \in Devices : zone[e] # id
  <2>1. NoZone # id
    BY <1>1, <1>2 DEF NoZone
  <2> QED BY <1>15, <2>1 DEF ZonesInv, ToldEnrolled
<1>21. GrantsApart'
  BY <1>6, <1>8, <1>19 DEF ZonesInv, GrantsApart
<1>22. GrantsUntold'
  BY <1>6, <1>8, <1>20 DEF ZonesInv, GrantsUntold
<1>23. ToldApart'
  BY DEF ZonesInv, ToldApart
<1>24. RefusedOnlyWhenFull'
  <2>1. ASSUME NEW msg \in air', msg.dst # Gateway,
               CodeOf(msg) = TOO_MANY_ZONES
        PROVE  FALSE
    <3>1. msg \in air
      BY <1>6, <1>8, <2>1 DEF Granted, TOO_MANY_ZONES
    <3>2. ZoneIDs = 0 .. M - 1
      BY <2>1, <3>1 DEF ZonesInv, RefusedOnlyWhenFull, CodeOf, ZoneIDs
    <3> QED BY <1>1, <3>2
  <2> QED BY <2>1 DEF RefusedOnlyWhenFull, CodeOf
<1> QED BY <1>11, <1>12, <1>14, <1>17, <1>18, <1>21, <1>22, <1>23, <1>24
        DEF ZonesInv

LEMMA GatewayStep ==
    ASSUME ZonesInv, NEW msg \in air, zcl_proccessincomingmessage(msg)
    PROVE  ZonesInv'
<1> DEFINE hdr == zcl_parsehdr(msg.data)
<1>1. /\ msg.dst = Gateway
      /\ \/ IsEnrollRequest(msg, hdr)
            /\ zclss_processincmd_zonestatus_enrollrequest(msg, hdr)
         \/ /\ air' = air \ {msg}
            /\ UNCHANGED <<zclSS_ZoneTable, nextAvailZoneID>>
      /\ UNCHANGED <<requests, zone>>
  BY DEF zcl_proccessincomingmessage
<1>2. CASE air' = air \ {msg} /\ UNCHANGED <<zclSS_ZoneTable, nextAvailZoneID>>
  <2>1. requests' \in [Devices -> Nat]
    BY <1>1 DEF ZonesInv, ZoneTypes
  <2> QED BY <1>1, <1>2, <2>1, NoGrant
<1>3. CASE IsEnrollRequest(msg, hdr)
           /\ zclss_processincmd_zonestatus_enrollrequest(msg, hdr)
  <2>1. IsRequest(msg)
    <3>1. ~IsResponse(msg)
      BY <1>1, GrantIsAnswer
    <3>2. ~IsNotification(msg)
      BY <1>3, NotificationParsed DEF IsNotification
    <3> QED BY <3>1, <3>2 DEF ZonesInv, Frames
  <2>2. PICK d \in Devices, seq \in Nat : msg = Request(d, seq)
    BY <2>1 DEF IsRequest
  <2>3. hdr.data[1] + 256 * hdr.data[2] = ZoneType[d]
    BY <2>2, RequestParsed
  <2>4. \A code, n :
            zclSS_IAS_Send_ZoneStatusEnrollResponseCmd(msg, hdr, code, n)
            = Response(d, seq, code, n)
    BY <2>2, AnswerSent
  <2> DEFINE room == zclSS_CountAllZones < ZCL_SS_MAX_ZONES - 1
             id == zclSS_GetNextFreeZoneID
  <2>5. room
    BY Room DEF ZonesInv
  <2>6. \/ /\ id # NoFreeID
           /\ zclSS_ZoneTable' = Append(zclSS_ZoneTable,
                  [zoneID |-> id, zoneType |-> ZoneType[d]])
           /\ nextAvailZoneID' = id
           /\ air' = (air \ {msg}) \cup {Response(d, seq, Granted, id)}
        \/ /\ id = NoFreeID
           /\ air' = (air \ {msg}) \cup {Response(d, seq, TOO_MANY_ZONES, id)}
           /\ UNCHANGED <<zclSS_ZoneTable, nextAvailZoneID>>
        \/ /\ \E n \in Unset : air' = (air \ {msg})
                                      \cup {Response(d, seq, NOT_SUPPORTED, n)}
           /\ UNCHANGED <<zclSS_ZoneTable, nextAvailZoneID>>
    <3> HIDE DEF hdr, id, room
    <3> QED BY <1>3, <2>3, <2>4, <2>5
            DEF zclss_processincmd_zonestatus_enrollrequest, id, room
  <2>7. NoFreeID \in 0 .. NoFreeID /\ Unset \subseteq 0 .. NoFreeID
    BY Maxima DEF NoFreeID, Unset
  <2> HIDE DEF hdr, room
  <2>8. CASE /\ id # NoFreeID
             /\ zclSS_ZoneTable' = Append(zclSS_ZoneTable,
                    [zoneID |-> id, zoneType |-> ZoneType[d]])
             /\ nextAvailZoneID' = id
             /\ air' = (air \ {msg}) \cup {Response(d, seq, Granted, id)}
    BY <1>1, <2>8, GrantStep
  <2>9. CASE /\ id = NoFreeID
             /\ air' = (air \ {msg}) \cup {Response(d, seq, TOO_MANY_ZONES, id)}
             /\ UNCHANGED <<zclSS_ZoneTable, nextAvailZoneID>>
    <3>1. ZoneIDs = 0 .. ZCL_SS_MAX_ZONE_ID - 1
      BY <2>9, FreeID DEF ZonesInv
    <3> QED BY <1>1, <2>7, <2>9, <3>1, RefusalStep
  <2>10. CASE /\ \E n \in Unset : air' = (air \ {msg})
                                     \cup {Response(d, seq, NOT_SUPPORTED, n)}
              /\ UNCHANGED <<zclSS_ZoneTable, nextAvailZoneID>>
    <3>1. PICK n \in Unset : air' = (air \ {msg})
                                 \cup {Response(d, seq, NOT_SUPPORTED, n)}
      BY <2>10
    <3>2. NOT_SUPPORTED # TOO_MANY_ZONES
      BY DEF NOT_SUPPORTED, TOO_MANY_ZONES
    <3> QED BY <1>1, <2>7, <2>10, <3>1, <3>2, RefusalStep
  <2> QED BY <2>6, <2>8, <2>9, <2>10
<1> QED BY <1>1, <1>2, <1>3

--------------------------------------------------------------------------------
(* A device hears an answer.                                                 *)
LEMMA HearStep ==
    ASSUME ZonesInv, NEW msg \in air, Hear(msg)
    PROVE  ZonesInv'
<1> DEFINE d == msg.dst
<1>1. /\ d \in Devices /\ air' = air \ {msg}
      /\ zone' = IF CodeOf(msg) = Granted /\ zone[d] = NoZone
                 THEN [zone EXCEPT ![d] = ZoneOf(msg)] ELSE zone
      /\ UNCHANGED <<zclSS_ZoneTable, nextAvailZoneID, requests>>
  BY DEF Hear, CodeOf, ZoneOf
<1>2. zone \in [Devices -> Int] /\ requests' \in [Devices -> Nat]
  BY <1>1 DEF ZonesInv, ZoneTypes
<1>3. CASE ~(CodeOf(msg) = Granted /\ zone[d] = NoZone)
  BY <1>1, <1>2, <1>3, NoGrant
<1>4. CASE CodeOf(msg) = Granted /\ zone[d] = NoZone
  <2>1. Grants(msg)
    BY <1>1, <1>4, GatewayIsNoDevice DEF Grants
  <2> DEFINE id == ZoneOf(msg)
  <2>2. id \in Int
    <3>1. IsResponse(msg)
      BY <1>1, GrantIsAnswer, GatewayIsNoDevice DEF ZonesInv, Frames
    <3> QED BY <3>1, GrantIsAnswer
  <2> HIDE DEF d, id
  <2>3. zone' = [zone EXCEPT ![d] = id]
    BY <1>1, <1>4 DEF id
  <2>4. zone' \in [Devices -> Int]
    BY <1>2, <2>2, <2>3
  <2>5. zone'[d] = id /\ \A e \in Devices : e # d => zone'[e] = zone[e]
    BY <1>1, <1>2, <2>3
  <2>6. ZoneTypes'
    BY <1>1, <1>2, <2>4 DEF ZonesInv, ZoneTypes
  <2>7. Frames'
    BY <1>1 DEF ZonesInv, Frames
  <2>8. IDsApart'
    BY <1>1 DEF ZonesInv, IDsApart
  <2>9. \A i, e : Enrolled(i, e)' <=> Enrolled(i, e)
    BY <1>1 DEF Enrolled
  <2>10. GrantsEnrolled'
    BY <1>1, <2>9 DEF ZonesInv, GrantsEnrolled
  <2>11. Enrolled(id, d)
    BY <2>1 DEF ZonesInv, GrantsEnrolled, id, d
  <2>12. ToldEnrolled'
    BY <2>5, <2>9, <2>11 DEF ZonesInv, ToldEnrolled
  <2>13. GrantsApart'
    BY <1>1 DEF ZonesInv, GrantsApart
  <2>14. GrantsUntold'
    <3>1. ASSUME NEW m \in air', NEW e \in Devices, Grants(m), e # m.dst
          PROVE  zone'[e] # ZoneOf(m)
      <4>1. m \in air
        BY <1>1
      <4>2. CASE e = d
        BY <2>1, <2>5, <3>1, <4>1, <4>2 DEF ZonesInv, GrantsApart, d, id
      <4>3. CASE e # d
        BY <2>5, <3>1, <4>1, <4>3 DEF ZonesInv, GrantsUntold
      <4> QED BY <4>2, <4>3
    <3> QED BY <3>1 DEF GrantsUntold
  <2>15. \A e \in Devices : e # d => zone[e] # id
    BY <2>1 DEF ZonesInv, GrantsUntold, d, id
  <2>16. ToldApart'
    BY <2>5, <2>15 DEF ZonesInv, ToldApart
  <2>17. RefusedOnlyWhenFull'
    BY <1>1 DEF ZonesInv, RefusedOnlyWhenFull
  <2> QED BY <2>6, <2>7, <2>8, <2>10, <2>12, <2>13, <2>14, <2>16, <2>17
          DEF ZonesInv
<1> QED BY <1>3, <1>4

--------------------------------------------------------------------------------
LEMMA InitZonesInv == ASSUME ZonesInit PROVE ZonesInv
<1>1. ZoneTypes
  <2>1. ZCL_SS_MAX_ZONE_ID \in 1 .. 254
    BY Maxima
  <2>2. zclSS_ZoneTable \in Seq([zoneID : 0 .. ZCL_SS_MAX_ZONE_ID - 1,
                                 zoneType : Int])
    BY DEF ZonesInit
  <2>3. nextAvailZoneID \in 0 .. ZCL_SS_MAX_ZONE_ID
    BY <2>1 DEF ZonesInit
  <2>4. requests \in [Devices -> Nat] /\ zone \in [Devices -> Int]
    BY DEF ZonesInit, NoZone
  <2> QED BY <2>2, <2>3, <2>4 DEF ZoneTypes
<1>2. air = {} /\ \A d \in Devices : zone[d] = NoZone
  BY DEF ZonesInit
<1>3. DOMAIN zclSS_ZoneTable = {}
  BY DEF ZonesInit
<1>4. Frames /\ GrantsEnrolled /\ GrantsApart /\ GrantsUntold
      /\ RefusedOnlyWhenFull
  BY <1>2 DEF Frames, GrantsEnrolled, GrantsApart, GrantsUntold,
              RefusedOnlyWhenFull
<1>5. IDsApart /\ ToldEnrolled /\ ToldApart
  BY <1>2, <1>3 DEF IDsApart, ToldEnrolled, ToldApart
<1> QED BY <1>1, <1>4, <1>5 DEF ZonesInv

LEMMA NextZonesInv ==
    ASSUME ZonesInv, [ZonesNext]_zoneVars
    PROVE  ZonesInv'
<1>1. CASE UNCHANGED zoneVars
  <2>1. requests' \in [Devices -> Nat]
    BY <1>1 DEF zoneVars, ZonesInv, ZoneTypes
  <2> QED BY <1>1, <2>1, NoGrant DEF zoneVars
<1>2. CASE ZonesNext
  BY <1>2, AskStep, TellStep, GatewayStep, HearStep, LoseStep DEF ZonesNext
<1> QED BY <1>1, <1>2

LEMMA ZonesInvImplies ==
    ASSUME ZonesInv
    PROVE  NoSharedZone /\ RefusedOnlyWhenFull
BY DEF ZonesInv, ToldEnrolled, Enrolled, ToldApart, NoSharedZone

LEMMA ZonesInvHolds == ZonesSpec => []ZonesInv
BY InitZonesInv, NextZonesInv, PTL DEF ZonesSpec

(* zcl_ss.c, zclss_processincmd_zonestatus_enrollrequest: no two devices are *)
(* told the same zone, whichever of their requests and answers got through,  *)
(* and a zone that a device was told is in the table with its type.          *)
THEOREM ZonesAreOwn == ZonesSpec => []NoSharedZone
BY ZonesInvHolds, ZonesInvImplies, PTL

(* zcl_ss.c, zclSS_GetNextFreeZoneID: wherever the search for a free number  *)
(* starts, it fails only when every number is taken; a device is refused for *)
(* want of room in no other state.                                           *)
THEOREM RefusalMeansFull == ZonesSpec => []RefusedOnlyWhenFull
BY ZonesInvHolds, ZonesInvImplies, PTL
===============================================================================
