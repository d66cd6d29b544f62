----------------------------- MODULE ZclAttributes -----------------------------
(***************************************************************************)
(* How the cluster library answers the commands that read, write and       *)
(* discover attributes, and those that discover commands, for the          *)
(* attributes and commands an endpoint has registered.  A message is the   *)
(* parsed command with its header, endpoint and cluster; an operator named *)
(* after a handler gives the response, and the values it leaves if it      *)
(* writes.                                                                 *)
(***************************************************************************)
EXTENDS ZclFrames, ZclRegistry

CONSTANTS
    Refused,       \* the values the application does not take
    Unauthorized   \* the attributes it lets nobody read or write

VARIABLE vals      \* <<clusterID, attrId>> -> value of the attribute

--------------------------------------------------------------------------------
(* Access control, bit by bit.                                               *)
READ == 0
WRITE == 1
AUTH_READ == 4
AUTH_WRITE == 5
CLIENT == 7
ACCESS_CONTROLEXT_MASK == 8     \* keeps read, write and reportable
Allows(a, bit) == Bit(a.accessControl, bit)

Key(a) == <<a.clusterID, a.attrId>>
Authorize(endpoint, a, bit) ==
    IF Allows(a, bit) /\ HasCallbacks(endpoint) /\ a.attrId \in Unauthorized
    THEN ZCL_STATUS.NOT_AUTHORIZED ELSE ZCL_STATUS.SUCCESS
zclAuthorizeRead(endpoint, a) == Authorize(endpoint, a, AUTH_READ)
zclAuthorizeWrite(endpoint, a) == Authorize(endpoint, a, AUTH_WRITE)

--------------------------------------------------------------------------------
(* Reading.                                                                  *)
\* An attribute without storage is read by the application's callback.
zclReadAttrDataUsingCB(endpoint, a, v) ==
    IF HasCallbacks(endpoint) THEN v[Key(a)] ELSE << >>
zclReadAttrData(a, v) == zclSerializeData(a.dataType, v[Key(a)])
zcl_ReadAttrData(endpoint, a, v) ==
    IF a.stored THEN zclReadAttrData(a, v)
    ELSE zclReadAttrDataUsingCB(endpoint, a, v)

zclProcessInReadCmd(msg) ==
    LET Status(id) ==
            LET k == zclFindAttrRec(msg.endPoint, msg.clusterId, id)
                a == Attributes(msg.endPoint)[k]
            IN IF k = NotFound
               THEN [attrID |-> id,
                     status |-> ZCL_STATUS.UNSUPPORTED_ATTRIBUTE]
               ELSE IF ~Allows(a, READ)
               THEN [attrID |-> id, status |-> ZCL_STATUS.WRITE_ONLY]
               ELSE IF zclAuthorizeRead(msg.endPoint, a) # ZCL_STATUS.SUCCESS
               THEN [attrID |-> id,
                     status |-> zclAuthorizeRead(msg.endPoint, a)]
               ELSE [attrID |-> id, status |-> ZCL_STATUS.SUCCESS,
                     dataType |-> a.dataType,
                     data |-> zcl_ReadAttrData(msg.endPoint, a, vals)]
    IN [k \in DOMAIN msg.attrCmd |-> Status(msg.attrCmd[k])]

--------------------------------------------------------------------------------
(* Writing one attribute: the status, and the values afterwards.             *)
Kept(v, status) == [status |-> status, vals |-> v]
Put(v, a, data) ==
    [status |-> ZCL_STATUS.SUCCESS,
     vals |-> [v EXCEPT ![Key(a)] = zclSerializeData(a.dataType, data)]]
Permission(endpoint, a) ==
    IF Allows(a, WRITE) THEN zclAuthorizeWrite(endpoint, a)
    ELSE ZCL_STATUS.READ_ONLY

zclWriteAttrData(endpoint, a, v, data) ==
    LET status == Permission(endpoint, a)
    IN IF status # ZCL_STATUS.SUCCESS THEN Kept(v, status)
       ELSE IF data \in Refused THEN Kept(v, ZCL_STATUS.INVALID_VALUE)
       ELSE Put(v, a, data)
zclWriteAttrDataUsingCB(endpoint, a, v, data) ==
    LET status == Permission(endpoint, a)
    IN IF status # ZCL_STATUS.SUCCESS THEN Kept(v, status)
       ELSE IF ~HasCallbacks(endpoint)
       THEN Kept(v, ZCL_STATUS.SOFTWARE_FAILURE)
       ELSE IF data \in Refused THEN Kept(v, ZCL_STATUS.INVALID_VALUE)
       ELSE Put(v, a, data)
Write(endpoint, a, v, data) ==
    IF a.stored THEN zclWriteAttrData(endpoint, a, v, data)
    ELSE zclWriteAttrDataUsingCB(endpoint, a, v, data)

SuccessRsp == <<[status |-> ZCL_STATUS.SUCCESS]>>
OrSuccess(rsp) == IF rsp = << >> THEN SuccessRsp ELSE rsp

\* One record after the other; those that cannot be written are reported.
zclProcessInWriteCmd(msg) ==
    LET Next(over, rec) ==
            LET k == zclFindAttrRec(msg.endPoint, msg.clusterId, rec.attrID)
                a == Attributes(msg.endPoint)[k]
                w == IF k = NotFound
                     THEN Kept(over.vals, ZCL_STATUS.UNSUPPORTED_ATTRIBUTE)
                     ELSE IF rec.dataType # a.dataType
                     THEN Kept(over.vals, ZCL_STATUS.INVALID_DATA_TYPE)
                     ELSE Write(msg.endPoint, a, over.vals, rec.attrData)
            IN [vals |-> w.vals,
                rsp |-> IF w.status = ZCL_STATUS.SUCCESS THEN over.rsp
                        ELSE Append(over.rsp, [status |-> w.status,
                                               attrID |-> rec.attrID])]
        done[k \in 0 .. Len(msg.attrCmd)] ==
            IF k = 0 THEN [vals |-> vals, rsp |-> << >>]
            ELSE Next(done[k - 1], msg.attrCmd[k])
        all == done[Len(msg.attrCmd)]
    IN [vals |-> all.vals, rsp |-> OrSuccess(all.rsp)]

--------------------------------------------------------------------------------
(* The undivided write keeps the old values to put them back.  They are to   *)
(* follow the saved records, but the length of the records is taken for that *)
(* of the statuses so far, which are none: the values go over the records.   *)
(* A record is 16 bytes, the attribute first and a pointer at 8.  What the   *)
(* requests write here is shorter than 8 bytes, so that no pointer is        *)
(* written over, and the allocated block is taken to have room behind it.    *)
RecSize == 16
hdrLen(statuses) == Len(statuses) * RecSize
Store(mem, at, bytes) ==
    [i \in DOMAIN mem |->
        IF i - at \in DOMAIN bytes THEN bytes[i - at] ELSE mem[i]]
Padded(length) == length + (length % 2)
Fresh(records) == [i \in 1 .. (records + 1) * RecSize |-> Beyond]

\* The old values of the first n records, whose values were saved at dataAt.
zclRevertWriteUndividedCmd(msg, v, mem, dataAt, n) ==
    LET Next(over, i) ==
            LET k == zclFindAttrRec(msg.endPoint, msg.clusterId,
                                    BUILD_UINT16(mem, (i - 1) * RecSize + 1))
                a == Attributes(msg.endPoint)[k]
                old == Value(a.dataType, mem, dataAt[i] + 1)
            IN IF over.stopped \/ k = NotFound
               THEN [over EXCEPT !.stopped = TRUE]
               ELSE [stopped |-> FALSE,
                     vals |-> IF a.stored THEN Put(over.vals, a, old).vals
                              ELSE zclWriteAttrDataUsingCB(msg.endPoint, a,
                                                 over.vals, old).vals]
        done[i \in 0 .. n] == IF i = 0 THEN [stopped |-> FALSE, vals |-> v]
                              ELSE Next(done[i - 1], i)
    IN done[n].vals

\* What forbids to write a record at all.
Obstacle(msg, rec) ==
    LET k == zclFindAttrRec(msg.endPoint, msg.clusterId, rec.attrID)
        a == Attributes(msg.endPoint)[k]
    IN IF k = NotFound THEN ZCL_STATUS.UNSUPPORTED_ATTRIBUTE
       ELSE IF rec.dataType # a.dataType THEN ZCL_STATUS.INVALID_DATA_TYPE
       ELSE IF ~Allows(a, WRITE) THEN ZCL_STATUS.READ_ONLY
       ELSE IF Allows(a, AUTH_WRITE) THEN ZCL_STATUS.NOT_AUTHORIZED
       ELSE ZCL_STATUS.SUCCESS

\* The writes, each after its value was saved, up to the first that fails.
WriteOver(msg) ==
    LET Next(over, rec) ==
            LET a == Attributes(msg.endPoint)[zclFindAttrRec(
                         msg.endPoint, msg.clusterId, rec.attrID)]
                old == zcl_ReadAttrData(msg.endPoint, a, over.vals)
                at == over.next
                w == Write(msg.endPoint, a, over.vals, rec.attrData)
            IN IF over.status # ZCL_STATUS.SUCCESS THEN over
               ELSE [status |-> w.status, vals |-> w.vals,
                     attrID |-> rec.attrID,
                     dataAt |-> Append(over.dataAt, at),
                     next |-> at + Padded(Len(old)),
                     mem |-> Store(Store(over.mem, Len(over.dataAt) * RecSize,
                                         Uint16(rec.attrID)),
                                   at, old)]
        done[k \in 0 .. Len(msg.attrCmd)] ==
            IF k = 0
            THEN [status |-> ZCL_STATUS.SUCCESS, vals |-> vals, attrID |-> 0,
                  dataAt |-> << >>, next |-> hdrLen(<< >>),
                  mem |-> Fresh(Len(msg.attrCmd))]
            ELSE Next(done[k - 1], msg.attrCmd[k])
    IN done[Len(msg.attrCmd)]

\* What is reported and kept once the writes have ended: all of them or, but
\* for the one that failed, none.  Mutant first: what was written stays.
AllOrNothingKept(msg, over) ==
    [vals |-> over.vals,
     rsp |-> IF over.status = ZCL_STATUS.SUCCESS THEN SuccessRsp
             ELSE <<[status |-> over.status, attrID |-> over.attrID]>>]
AllOrNothing(msg, over) ==
    IF over.status = ZCL_STATUS.SUCCESS
    THEN [vals |-> over.vals, rsp |-> SuccessRsp]
    ELSE [vals |-> zclRevertWriteUndividedCmd(msg, over.vals, over.mem,
                       over.dataAt, Len(over.dataAt) - 1),
          rsp |-> <<[status |-> over.status, attrID |-> over.attrID]>>]
zclProcessInWriteUndividedCmd(msg) ==
    LET bad == SelectInSeq(msg.attrCmd,
                   LAMBDA rec : Obstacle(msg, rec) # ZCL_STATUS.SUCCESS)
    IN IF bad = 0 THEN AllOrNothing(msg, WriteOver(msg))
       ELSE [vals |-> vals, rsp |-> <<[
                status |-> Obstacle(msg, msg.attrCmd[bad]),
                attrID |-> msg.attrCmd[bad].attrID]>>]

--------------------------------------------------------------------------------
(* Discovering attributes: those from startAttr on, in the order of the      *)
(* list, and whether there are more.                                         *)
Direction(a) == Flag(Allows(a, CLIENT))
zclFindNextAttrRec(msg, id) ==
    SelectInSeq(Attributes(msg.endPoint),
        LAMBDA a : /\ a.clusterID = msg.clusterId
                   /\ a.attrId >= id
                   /\ Direction(a) = msg.hdr.direction)

\* Mutant: looks for the next attribute from the one it has found.
NextAttrAgain(a) == a.attrId
NextAttr(a) == (a.attrId + 1) % 65536
zclProcessInDiscAttrs(msg) ==
    LET attrs == Attributes(msg.endPoint)
        found[n \in 0 .. msg.attrCmd.maxAttrIDs] ==
            [id \in Word |->
                LET k == zclFindNextAttrRec(msg, id)
                IN IF n = 0 \/ k = NotFound THEN << >>
                   ELSE <<attrs[k]>> \o found[n - 1][NextAttr(attrs[k])]]
    IN found[msg.attrCmd.maxAttrIDs][msg.attrCmd.startAttr]
DiscComplete(msg, found) ==
    Flag(found # << >> =>
         zclFindNextAttrRec(msg, NextAttr(Last(found))) = NotFound)

zclProcessInDiscAttrsCmd(msg) ==
    LET found == zclProcessInDiscAttrs(msg)
    IN [discComplete |-> DiscComplete(msg, found),
        attrList |-> [k \in DOMAIN found |->
            [attrID |-> found[k].attrId, dataType |-> found[k].dataType]]]
zclProcessInDiscAttrsExtCmd(msg) ==
    LET found == zclProcessInDiscAttrs(msg)
    IN [discComplete |-> DiscComplete(msg, found),
        attrList |-> [k \in DOMAIN found |->
            [attrID |-> found[k].attrId, attrDataType |-> found[k].dataType,
             attrAccessControl |->
                 found[k].accessControl % ACCESS_CONTROLEXT_MASK]]]

(* Discovering commands: by the side that sends or receives them.            *)
SERVER_GENERATED == 0
CLIENT_GENERATED == 1
SERVER_RECEIVED == 2
CLIENT_RECEIVED == 3
Wanted(msg) ==
    CASE msg.hdr.cmd = ZCL_CMD.DISCOVER_CMDS_RECEIVED ->
            IF msg.hdr.direction = 1 THEN CLIENT_RECEIVED ELSE SERVER_RECEIVED
      [] msg.hdr.cmd = ZCL_CMD.DISCOVER_CMDS_GEN ->
            IF msg.hdr.direction = 1 THEN CLIENT_GENERATED
            ELSE SERVER_GENERATED
zclFindNextCmdRec(msg, id) ==
    SelectInSeq(Commands(msg.endPoint),
        LAMBDA c : /\ c.clusterID = msg.clusterId
                   /\ c.cmdID >= id
                   /\ Bit(c.flag, Wanted(msg)))

NextCmd(id) == (id + 1) % 256
\* When there is nothing to find the number of commands in the response is
\* never set: Leftovers are the lists it may then be sent with.
zclProcessInDiscCmd(msg, Leftovers) ==
    LET cmds == Commands(msg.endPoint)
        found[n \in 0 .. msg.attrCmd.maxCmdID] ==
            [id \in Byte |->
                LET k == zclFindNextCmdRec(msg, id)
                IN IF n = 0 \/ k = NotFound THEN << >>
                   ELSE <<cmds[k].cmdID>> \o found[n - 1][NextCmd(cmds[k].cmdID)]]
        ids == found[msg.attrCmd.maxCmdID][msg.attrCmd.startCmdID]
        after == IF ids = << >> THEN msg.attrCmd.startCmdID
                 ELSE NextCmd(Last(ids))
        complete == Flag(zclFindNextCmdRec(msg, after) = NotFound)
    IN {[discComplete |-> complete, cmdIDs |-> list] :
        list \in IF ids = << >> THEN Leftovers ELSE {ids}}
===============================================================================
