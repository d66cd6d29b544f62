------------------------------- MODULE ZclZones -------------------------------
(***************************************************************************)
(* The gateway's own cut of the cluster library (linux_example/zcl): it    *)
(* enrols the IAS zones.  A device asks to be enrolled, the gateway takes  *)
(* a zone number for it and answers; requests and answers can be lost, and *)
(* a device that hears nothing asks again.  A frame's data are its bytes;  *)
(* the devices are outside the repository.                                 *)
(***************************************************************************)
EXTENDS Integers, SequencesExt, FiniteSetsExt

CONSTANTS
    Devices,              \* the zones' devices
    ZoneType,             \* the zone type a device asks with
    ZCL_SS_MAX_ZONES,
    ZCL_SS_MAX_ZONE_ID,
    MaxRequests           \* bound: how often a device asks

Gateway == "gateway"
NoZone == -1

\* The two maxima are 256 and 254; a zone type has two bytes.
ASSUME ZonesAssumption ==
    /\ ZCL_SS_MAX_ZONE_ID \in 1 .. 254
    /\ ZCL_SS_MAX_ZONES = ZCL_SS_MAX_ZONE_ID + 2
    /\ ZoneType \in [Devices -> 0 .. 2^16 - 1]
    /\ Gateway \notin Devices

VARIABLES
    zclSS_ZoneTable,      \* the zones, oldest first: [zoneID, zoneType]
    nextAvailZoneID,      \* where the search for a free number starts
    air,                  \* the frames on the air
    requests,             \* device -> how often it has asked
    zone                  \* device -> the zone it was told, or NoZone
zoneVars == <<zclSS_ZoneTable, nextAvailZoneID, air, requests, zone>>

ZCL_CLUSTER_ID_SS_IAS_ZONE == 1280
CLUSTER_SPECIFIC == 1                            \* a frame type
ToServer == 0                                    \* directions
ToClient == 1
CHANGE_NOTIFICATION == 0                         \* of the zone server
ENROLL_REQUEST == 1
ENROLL_RESPONSE == 0                             \* of the zone client
Granted == 0                                     \* response codes
NOT_SUPPORTED == 1
TOO_MANY_ZONES == 3

zclSS_ZoneTypeSupported(t) ==
    t \in {0, 13, 21, 40, 42, 43, 44, 45, 271, 277, 541, 549, 550, 553}

--------------------------------------------------------------------------------
(* Frames.  BuildHdr and SendCommand are zclBuildHdr and zcl_SendCommand of  *)
(* this cut; those names are the library's.                                  *)
BitOf(byte, k) == (byte \div 2^k) % 2
BuildHdr(type, direction, disableDefaultRsp, manuCode, seq, cmd) ==
    <<type + (IF manuCode # 0 THEN 4 ELSE 0) + 8 * direction
      + 16 * disableDefaultRsp>>
    \o (IF manuCode # 0 THEN <<manuCode % 256, manuCode \div 256>> ELSE << >>)
    \o <<seq, cmd>>
SendCommand(src, dst, clusterID, type, dir, disable, manu, seq, cmd, pl) ==
    [src |-> src, dst |-> dst, clusterID |-> clusterID,
     data |-> BuildHdr(type, dir, disable, manu, seq, cmd) \o pl]

zcl_parsehdr(data) ==
    LET manu == BitOf(data[1], 2)
    IN [type |-> data[1] % 4, manuspecific |-> manu,
        direction |-> BitOf(data[1], 3),
        transseqnum |-> data[2 + 2 * manu], commandid |-> data[3 + 2 * manu],
        data |-> SubSeq(data, 4 + 2 * manu, Len(data))]

--------------------------------------------------------------------------------
(* Zone numbers.                                                             *)
zclSS_CountAllZones == Len(zclSS_ZoneTable) % 256
\* Mutant: the numbers of the table are not looked at.
zclSS_ZoneIDAvailableAll(id) == id < ZCL_SS_MAX_ZONE_ID
zclSS_ZoneIDAvailable(id) ==
    /\ id < ZCL_SS_MAX_ZONE_ID
    /\ \A k \in DOMAIN zclSS_ZoneTable : zclSS_ZoneTable[k].zoneID # id

\* From nextAvailZoneID on, and round to 0 after the last; the number behind
\* the last when there is none.
Following(id, n) == (id + n) % (ZCL_SS_MAX_ZONE_ID + 1)
NoFreeID == ZCL_SS_MAX_ZONE_ID + 1
\* Mutant: gives up when the number it starts from is taken.
zclSS_GetNextFreeZoneIDHere ==
    IF zclSS_ZoneIDAvailable(nextAvailZoneID) THEN nextAvailZoneID
    ELSE NoFreeID
zclSS_GetNextFreeZoneID ==
    LET free == {n \in 0 .. ZCL_SS_MAX_ZONE_ID :
                 zclSS_ZoneIDAvailable(Following(nextAvailZoneID, n))}
    IN IF free = {} THEN NoFreeID ELSE Following(nextAvailZoneID, Min(free))

--------------------------------------------------------------------------------
(* The gateway.                                                              *)
\* The zone number of an answer that grants none was never set.
Unset == {0, NoFreeID}
zclSS_IAS_Send_ZoneStatusEnrollResponseCmd(msg, hdr, code, id) ==
    SendCommand(msg.dst, msg.src, ZCL_CLUSTER_ID_SS_IAS_ZONE, CLUSTER_SPECIFIC,
                ToServer, 1, 0, hdr.transseqnum, ENROLL_RESPONSE, <<code, id>>)

\* The request is answered whatever becomes of it.
zclss_processincmd_zonestatus_enrollrequest(msg, hdr) ==
    LET type == hdr.data[1] + 256 * hdr.data[2]
        room == zclSS_CountAllZones < ZCL_SS_MAX_ZONES - 1
        id == zclSS_GetNextFreeZoneID
        Respond(code, n) ==
            air' = (air \ {msg}) \cup
                   {zclSS_IAS_Send_ZoneStatusEnrollResponseCmd(
                        msg, hdr, code, n)}
    IN \/ /\ zclSS_ZoneTypeSupported(type)
          /\ room /\ id # NoFreeID
          /\ zclSS_ZoneTable' = Append(zclSS_ZoneTable,
                                       [zoneID |-> id, zoneType |-> type])
          /\ nextAvailZoneID' = id
          /\ Respond(Granted, id)
       \/ /\ zclSS_ZoneTypeSupported(type)
          /\ ~(room /\ id # NoFreeID)
          /\ \E n \in IF room THEN {id} ELSE Unset : Respond(TOO_MANY_ZONES, n)
          /\ UNCHANGED <<zclSS_ZoneTable, nextAvailZoneID>>
       \/ /\ ~zclSS_ZoneTypeSupported(type)
          /\ \E n \in Unset : Respond(NOT_SUPPORTED, n)
          /\ UNCHANGED <<zclSS_ZoneTable, nextAvailZoneID>>

\* Only an enrolment request of a zone server has an effect.
IsEnrollRequest(msg, hdr) ==
    /\ msg.clusterID = ZCL_CLUSTER_ID_SS_IAS_ZONE
    /\ hdr.type = CLUSTER_SPECIFIC /\ hdr.manuspecific = 0
    /\ hdr.direction = ToClient
    /\ hdr.commandid = ENROLL_REQUEST
zcl_proccessincomingmessage(msg) ==
    LET hdr == zcl_parsehdr(msg.data)
    IN /\ msg.dst = Gateway
       /\ \/ /\ IsEnrollRequest(msg, hdr)
             /\ zclss_processincmd_zonestatus_enrollrequest(msg, hdr)
          \/ /\ ~IsEnrollRequest(msg, hdr)
             /\ air' = air \ {msg}
             /\ UNCHANGED <<zclSS_ZoneTable, nextAvailZoneID>>
       /\ UNCHANGED <<requests, zone>>

--------------------------------------------------------------------------------
(* The devices: one asks until it is told its zone, and tells of changes.    *)
AskToEnroll(d) ==
    /\ zone[d] = NoZone
    /\ requests[d] < MaxRequests
    /\ requests' = [requests EXCEPT ![d] = @ + 1]
    /\ air' = air \cup
          {SendCommand(d, Gateway, ZCL_CLUSTER_ID_SS_IAS_ZONE,
               CLUSTER_SPECIFIC, ToClient, 0, 0, requests[d], ENROLL_REQUEST,
               <<ZoneType[d] % 256, ZoneType[d] \div 256, 0, 0>>)}
    /\ UNCHANGED <<zclSS_ZoneTable, nextAvailZoneID, zone>>
Tell(d) ==
    /\ zone[d] # NoZone
    /\ requests[d] < MaxRequests
    /\ requests' = [requests EXCEPT ![d] = @ + 1]
    /\ \E manu \in {0, 4660} :
          air' = air \cup
             {SendCommand(d, Gateway, ZCL_CLUSTER_ID_SS_IAS_ZONE,
                  CLUSTER_SPECIFIC, ToClient, 0, manu, requests[d],
                  CHANGE_NOTIFICATION, <<1, 0, 0>>)}
    /\ UNCHANGED <<zclSS_ZoneTable, nextAvailZoneID, zone>>
Hear(msg) ==
    LET d == msg.dst
        hdr == zcl_parsehdr(msg.data)
    IN /\ d \in Devices
       /\ air' = air \ {msg}
       /\ zone' = IF hdr.data[1] = Granted /\ zone[d] = NoZone
                  THEN [zone EXCEPT ![d] = hdr.data[2]] ELSE zone
       /\ UNCHANGED <<zclSS_ZoneTable, nextAvailZoneID, requests>>
Lose(msg) ==
    /\ air' = air \ {msg}
    /\ UNCHANGED <<zclSS_ZoneTable, nextAvailZoneID, requests, zone>>

ZonesInit ==
    /\ zclSS_ZoneTable = << >>
    /\ nextAvailZoneID = 0
    /\ air = {}
    /\ requests = [d \in Devices |-> 0]
    /\ zone = [d \in Devices |-> NoZone]

ZonesNext ==
    \/ \E d \in Devices : AskToEnroll(d) \/ Tell(d)
    \/ \E msg \in air :
          zcl_proccessincomingmessage(msg) \/ Hear(msg) \/ Lose(msg)
ZonesSpec == ZonesInit /\ [][ZonesNext]_zoneVars

--------------------------------------------------------------------------------
(* No two devices are told the same zone, whichever of their answers got     *)
(* through, and a zone that was told is in the table with its device's type  *)
(* (zclss_processincmd_zonestatus_enrollrequest).                            *)
NoSharedZone ==
    \A d \in Devices : zone[d] # NoZone =>
        /\ \A e \in Devices \ {d} : zone[e] # zone[d]
        /\ \E k \in DOMAIN zclSS_ZoneTable :
              zclSS_ZoneTable[k] = [zoneID |-> zone[d],
                                    zoneType |-> ZoneType[d]]

(* A device is refused for want of room only when no number is left, however *)
(* the numbers were given out before (the search of zclSS_GetNextFreeZoneID  *)
(* starts where it last ended).  The last number is never given.             *)
RefusedOnlyWhenFull ==
    \A msg \in air :
        msg.dst # Gateway /\ zcl_parsehdr(msg.data).data[1] = TOO_MANY_ZONES =>
            {zclSS_ZoneTable[k].zoneID : k \in DOMAIN zclSS_ZoneTable}
                = 0 .. ZCL_SS_MAX_ZONE_ID - 1
===============================================================================
