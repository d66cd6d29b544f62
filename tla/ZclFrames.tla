------------------------------- MODULE ZclFrames -------------------------------
(***************************************************************************)
(* The frames of the Zigbee cluster library, as TI's zcl.c writes and      *)
(* reads them: the header, and the payload of every command that belongs   *)
(* to no cluster in particular.  A frame is a sequence of bytes, for a     *)
(* parser finds each record by the lengths, types, status and direction it *)
(* has read before.  A command is the structure the sender fills and the   *)
(* receiver gets, with its list of records.                                *)
(***************************************************************************)
EXTENDS Integers, SequencesExt

--------------------------------------------------------------------------------
(* Identifiers.                                                              *)
ZCL_CMD ==
    [READ |-> 0, READ_RSP |-> 1, WRITE |-> 2, WRITE_UNDIVIDED |-> 3,
     WRITE_RSP |-> 4, WRITE_NO_RSP |-> 5, CONFIG_REPORT |-> 6,
     CONFIG_REPORT_RSP |-> 7, READ_REPORT_CFG |-> 8, READ_REPORT_CFG_RSP |-> 9,
     REPORT |-> 10, DEFAULT_RSP |-> 11, DISCOVER_ATTRS |-> 12,
     DISCOVER_ATTRS_RSP |-> 13, DISCOVER_CMDS_RECEIVED |-> 17,
     DISCOVER_CMDS_RECEIVED_RSP |-> 18, DISCOVER_CMDS_GEN |-> 19,
     DISCOVER_CMDS_GEN_RSP |-> 20, DISCOVER_ATTRS_EXT |-> 21,
     DISCOVER_ATTRS_EXT_RSP |-> 22]

ZCL_STATUS ==
    [SUCCESS |-> 0, FAILURE |-> 1, NOT_AUTHORIZED |-> 126,
     UNSUP_CLUSTER_COMMAND |-> 129, UNSUP_GENERAL_COMMAND |-> 130,
     UNSUP_MANU_CLUSTER_COMMAND |-> 131, UNSUP_MANU_GENERAL_COMMAND |-> 132,
     INVALID_FIELD |-> 133, UNSUPPORTED_ATTRIBUTE |-> 134,
     INVALID_VALUE |-> 135, READ_ONLY |-> 136, INSUFFICIENT_SPACE |-> 137,
     DUPLICATE_EXISTS |-> 138, NOT_FOUND |-> 139, INVALID_DATA_TYPE |-> 141,
     WRITE_ONLY |-> 143, SOFTWARE_FAILURE |-> 193, CMD_HAS_RSP |-> 255]

SEND_REPORTS == 0    \* ZCL_SEND_ATTR_REPORTS

--------------------------------------------------------------------------------
(* Data types, by the length of their values.                                *)
Byte == 0 .. 2^8 - 1
Word == 0 .. 2^16 - 1
BOOLEAN8 == \h10
UINT8 == \h20
UINT16 == \h21
CHAR_STR == \h42
Strings == {\h41, CHAR_STR}
LongStrings == {\h43, \h44}

TypesOfLength ==
    [n \in 1 .. 16 |->
        CASE n = 1 -> {\h08, BOOLEAN8, \h18, \h28, UINT8, \h30}
          [] n = 2 -> {\h09, \h19, UINT16, \h29, \h31, \h38, \hE8, \hE9}
          [] n = 3 -> {\h0A, \h1A, \h22, \h2A}
          [] n = 4 -> {\h0B, \h1B, \h23, \h2B, \h39, \hE0, \hE1, \hE2, \hEA}
          [] n = 5 -> {\h24, \h2C}
          [] n = 6 -> {\h25, \h2D}
          [] n = 7 -> {\h26, \h2E}
          [] n = 8 -> {\h27, \h2F, \h3A, \hF0}
          [] n = 16 -> {\hF1}
          [] OTHER -> {}]
\* Any other type has no length: a value of it has no bytes.
zclGetDataTypeLength(type) ==
    LET n == {k \in 1 .. 16 : type \in TypesOfLength[k]}
    IN IF n = {} THEN 0 ELSE CHOOSE k \in n : TRUE

zclAnalogDataType(type) ==
    type \in (\h20 .. \h2F) \cup (\h38 .. \h3A) \cup (\hE0 .. \hE2)

\* What a parser reads after the last byte of the packet.
Beyond == 0
At(buf, i) == IF i \in DOMAIN buf THEN buf[i] ELSE Beyond
LO_UINT16(x) == x % 256
HI_UINT16(x) == x \div 256
Uint16(x) == <<LO_UINT16(x), HI_UINT16(x)>>
BUILD_UINT16(buf, i) == At(buf, i) + 256 * At(buf, i + 1)

\* The length of the value that starts at i.
zclGetAttrDataLength(type, buf, i) ==
    IF type \in LongStrings THEN BUILD_UINT16(buf, i) + 2
    ELSE IF type \in Strings THEN At(buf, i) + 1
    ELSE zclGetDataTypeLength(type)

Bytes(buf, i, n) == [k \in 1 .. n |-> At(buf, i + k - 1)]
\* Values are kept as they go on the air, the lowest byte first.
zclSerializeData(type, data) ==
    Bytes(data, 1, zclGetAttrDataLength(type, data, 1))
Value(type, buf, i) == Bytes(buf, i, zclGetAttrDataLength(type, buf, i))

--------------------------------------------------------------------------------
(* The header.                                                               *)
Flag(b) == IF b THEN 1 ELSE 0
Bit(byte, k) == (byte \div 2^k) % 2 = 1

zclBuildHdr(hdr) ==
    <<hdr.type + 4 * Flag(hdr.manuCode # 0) + 8 * hdr.direction
      + 16 * Flag(hdr.disableDefaultRsp)>>
    \o (IF hdr.manuCode # 0 THEN Uint16(hdr.manuCode) ELSE << >>)
    \o <<hdr.seq, hdr.cmd>>
zclCalcHdrSize(hdr) == IF hdr.manuCode # 0 THEN 5 ELSE 3

zclParseHdr(buf) ==
    LET manu == Bit(buf[1], 2)
        rest == IF manu THEN 4 ELSE 2
    IN [type |-> buf[1] % 4, manuCode |-> IF manu THEN BUILD_UINT16(buf, 2) ELSE 0,
        direction |-> Flag(Bit(buf[1], 3)), disableDefaultRsp |-> Bit(buf[1], 4),
        seq |-> At(buf, rest), cmd |-> At(buf, rest + 1)]

--------------------------------------------------------------------------------
(* Lists of records.  A parser goes through the payload twice: to count the  *)
(* records, until it is at or past the end, and to read that many into the   *)
(* block it allocates.  What it reads is what the parsers below say, as long *)
(* as the block is long enough and its own: see Corrupts.                    *)
Pack(list, Record(_)) == FlattenSeq([i \in DOMAIN list |-> Record(list[i])])

Places(n, Size(_)) ==
    LET at[k \in 1 .. n] ==
            IF k = 1 THEN 1 ELSE LET i == at[k - 1] IN i + Size(i)
    IN at
Count(buf, Size(_)) ==
    LET places == Places(Len(buf), Size)
    IN Cardinality({k \in 1 .. Len(buf) : places[k] <= Len(buf)})
Unpack(n, Size(_), Record(_)) ==
    LET places == Places(n, Size) IN [k \in 1 .. n |-> Record(places[k])]

--------------------------------------------------------------------------------
(* Read, and its response.                                                   *)
zcl_SendRead(attrs) == Pack(attrs, Uint16)
zclParseInReadCmd(buf) == [k \in 1 .. Len(buf) \div 2 |-> BUILD_UINT16(buf, 2 * k - 1)]

zcl_SendReadRsp(list) ==
    LET Record(r) == Uint16(r.attrID) \o <<r.status>>
            \o IF r.status = ZCL_STATUS.SUCCESS
               THEN <<r.dataType>> \o zclSerializeData(r.dataType, r.data) ELSE << >>
    IN Pack(list, Record)
zclParseInReadRspCmd(buf) ==
    LET ok(i) == At(buf, i + 2) = ZCL_STATUS.SUCCESS
        type(i) == At(buf, i + 3)
        Size(i) == IF ok(i) THEN 4 + zclGetAttrDataLength(type(i), buf, i + 4) ELSE 3
        Record(i) ==
            IF ok(i) THEN [attrID |-> BUILD_UINT16(buf, i), status |-> At(buf, i + 2),
                           dataType |-> type(i), data |-> Value(type(i), buf, i + 4)]
            ELSE [attrID |-> BUILD_UINT16(buf, i), status |-> At(buf, i + 2)]
    IN Unpack(Count(buf, Size), Size, Record)

(* The three kinds of write, and their response: it is cut to its status     *)
(* when that is success.                                                     *)
zcl_SendWriteRequest(list) ==
    LET Record(r) == Uint16(r.attrID) \o <<r.dataType>>
                     \o zclSerializeData(r.dataType, r.attrData)
    IN Pack(list, Record)
\* Mutant: the length of a string without the byte that gives it.
zclParseInWriteCmdBare(buf) ==
    LET length(i) == IF At(buf, i + 2) \in Strings THEN At(buf, i + 3)
                     ELSE zclGetAttrDataLength(At(buf, i + 2), buf, i + 3)
        Size(i) == 3 + length(i)
        Record(i) == [attrID |-> BUILD_UINT16(buf, i), dataType |-> At(buf, i + 2),
                      attrData |-> Bytes(buf, i + 3, length(i))]
    IN Unpack(Count(buf, Size), Size, Record)
zclParseInWriteCmd(buf) ==
    LET Size(i) == 3 + zclGetAttrDataLength(At(buf, i + 2), buf, i + 3)
        Record(i) == [attrID |-> BUILD_UINT16(buf, i), dataType |-> At(buf, i + 2),
                      attrData |-> Value(At(buf, i + 2), buf, i + 3)]
    IN Unpack(Count(buf, Size), Size, Record)

zcl_SendWriteRsp(list) ==
    LET Record(r) == <<r.status>> \o Uint16(r.attrID)
    IN IF Len(list) = 1 /\ list[1].status = ZCL_STATUS.SUCCESS THEN <<list[1].status>>
       ELSE Pack(list, Record)
zclParseInWriteRspCmd(buf) ==
    LET Size(i) == 3
        Record(i) == [status |-> At(buf, i), attrID |-> BUILD_UINT16(buf, i + 1)]
    IN IF Len(buf) = 1 THEN <<[status |-> buf[1]]>>
       ELSE Unpack(Count(buf, Size), Size, Record)

--------------------------------------------------------------------------------
(* Reports: configuring them, its response, asking for the configuration,    *)
(* its response, and a report.                                               *)
Change(r) == IF zclAnalogDataType(r.dataType)
             THEN zclSerializeData(r.dataType, r.reportableChange) ELSE << >>
Interval(r) ==
    IF r.direction = SEND_REPORTS
    THEN <<r.dataType>> \o Uint16(r.minReportInt) \o Uint16(r.maxReportInt) \o Change(r)
    ELSE Uint16(r.timeoutPeriod)
\* The configuration whose type or period is at i.
IntervalSize(buf, i, direction) ==
    IF direction # SEND_REPORTS THEN 2
    ELSE IF zclAnalogDataType(At(buf, i)) THEN 5 + zclGetDataTypeLength(At(buf, i))
    ELSE 5
IntervalAt(buf, i, direction) ==
    IF direction # SEND_REPORTS THEN [timeoutPeriod |-> BUILD_UINT16(buf, i)]
    ELSE [dataType |-> At(buf, i), minReportInt |-> BUILD_UINT16(buf, i + 1),
          maxReportInt |-> BUILD_UINT16(buf, i + 3),
          reportableChange |-> IF zclAnalogDataType(At(buf, i))
                               THEN Value(At(buf, i), buf, i + 5) ELSE << >>]
Merge(r, s) == [f \in DOMAIN r \cup DOMAIN s |-> IF f \in DOMAIN r THEN r[f] ELSE s[f]]

zcl_SendConfigReportCmd(list) ==
    LET Record(r) == <<r.direction>> \o Uint16(r.attrID) \o Interval(r)
    IN Pack(list, Record)
\* As it counts, it takes a discrete attribute's record for a byte longer.
zclParseInConfigReportCmd(buf) ==
    LET Discrete(i) == At(buf, i) = SEND_REPORTS /\ ~zclAnalogDataType(At(buf, i + 3))
        Size(i) == 3 + IntervalSize(buf, i + 3, At(buf, i))
        Counted(i) == Size(i) + (IF Discrete(i) THEN 1 ELSE 0)
        Record(i) == Merge([direction |-> At(buf, i), attrID |-> BUILD_UINT16(buf, i + 1)],
                           IntervalAt(buf, i + 3, At(buf, i)))
    IN Unpack(Count(buf, Counted), Size, Record)

zcl_SendConfigReportRspCmd(list) ==
    LET Record(r) == <<r.status, r.direction>> \o Uint16(r.attrID)
    IN IF Len(list) = 1 /\ list[1].status = ZCL_STATUS.SUCCESS THEN <<list[1].status>>
       ELSE Pack(list, Record)
zclParseInConfigReportRspCmd(buf) ==
    LET Record(i) == [status |-> At(buf, i), direction |-> At(buf, i + 1),
                      attrID |-> BUILD_UINT16(buf, i + 2)]
    IN [k \in 1 .. Len(buf) \div 4 |-> Record(4 * k - 3)]

zcl_SendReadReportCfgCmd(list) ==
    LET Record(r) == <<r.direction>> \o Uint16(r.attrID) IN Pack(list, Record)
zclParseInReadReportCfgCmd(buf) ==
    LET Record(i) == [direction |-> At(buf, i), attrID |-> BUILD_UINT16(buf, i + 1)]
    IN [k \in 1 .. Len(buf) \div 3 |-> Record(3 * k - 2)]

zcl_SendReadReportCfgRspCmd(list) ==
    LET Record(r) == <<r.status, r.direction>> \o Uint16(r.attrID)
                     \o IF r.status = ZCL_STATUS.SUCCESS THEN Interval(r) ELSE << >>
    IN Pack(list, Record)
zclParseInReadReportCfgRspCmd(buf) ==
    LET ok(i) == At(buf, i) = ZCL_STATUS.SUCCESS
        Size(i) == 4 + IF ok(i) THEN IntervalSize(buf, i + 4, At(buf, i + 1)) ELSE 0
        Record(i) ==
            Merge([status |-> At(buf, i), direction |-> At(buf, i + 1),
                   attrID |-> BUILD_UINT16(buf, i + 2)],
                  IF ok(i) THEN IntervalAt(buf, i + 4, At(buf, i + 1)) ELSE << >>)
    IN Unpack(Count(buf, Size), Size, Record)

zcl_SendReportCmd(list) ==
    LET Record(r) == Uint16(r.attrID) \o <<r.dataType>>
                     \o zclSerializeData(r.dataType, r.attrData)
    IN Pack(list, Record)
zclParseInReportCmd(buf) ==
    LET Size(i) == 3 + zclGetAttrDataLength(At(buf, i + 2), buf, i + 3)
        Record(i) == [attrID |-> BUILD_UINT16(buf, i), dataType |-> At(buf, i + 2),
                      attrData |-> Value(At(buf, i + 2), buf, i + 3)]
    IN Unpack(Count(buf, Size), Size, Record)

--------------------------------------------------------------------------------
(* The default response, and discovery.                                      *)
zcl_SendDefaultRspCmd(rsp) == <<rsp.commandID, rsp.statusCode>>
zclParseInDefaultRspCmd(buf) == [commandID |-> At(buf, 1), statusCode |-> At(buf, 2)]

zcl_SendDiscoverAttrsCmd(c) == Uint16(c.startAttr) \o <<c.maxAttrIDs>>
zcl_SendDiscoverAttrsExt(c) == Uint16(c.startAttr) \o <<c.maxAttrIDs>>
zclParseInDiscAttrsCmd(buf) ==
    [startAttr |-> BUILD_UINT16(buf, 1), maxAttrIDs |-> At(buf, 3)]

zcl_SendDiscoverAttrsRspCmd(rsp) ==
    LET Record(r) == Uint16(r.attrID) \o <<r.dataType>>
    IN <<rsp.discComplete>> \o Pack(rsp.attrList, Record)
zclParseInDiscAttrsRspCmd(buf) ==
    LET Record(i) == [attrID |-> BUILD_UINT16(buf, i), dataType |-> At(buf, i + 2)]
    IN [discComplete |-> At(buf, 1),
        attrList |-> [k \in 1 .. (Len(buf) - 1) \div 3 |-> Record(3 * k - 1)]]

zcl_SendDiscoverAttrsExtRsp(rsp) ==
    LET Record(r) == Uint16(r.attrID) \o <<r.attrDataType, r.attrAccessControl>>
    IN <<rsp.discComplete>> \o Pack(rsp.attrList, Record)
zclParseInDiscAttrsExtRspCmd(buf) ==
    LET Record(i) == [attrID |-> BUILD_UINT16(buf, i), attrDataType |-> At(buf, i + 2),
                      attrAccessControl |-> At(buf, i + 3)]
    IN [discComplete |-> At(buf, 1),
        attrList |-> [k \in 1 .. (Len(buf) - 1) \div 4 |-> Record(4 * k - 2)]]

zcl_SendDiscoverCmdsCmd(c) == <<c.startCmdID, c.maxCmdID>>
zclParseInDiscCmdsCmd(buf) == [startCmdID |-> At(buf, 1), maxCmdID |-> At(buf, 2)]
zcl_SendDiscoverCmdsRspCmd(rsp) == <<rsp.discComplete>> \o rsp.cmdIDs
\* The numbers go where pCmdID points, and that is never set: only an empty
\* list is ever read.
zclParseInDiscCmdsRspCmd(buf) == [discComplete |-> At(buf, 1), cmdIDs |-> << >>]
UnsetPointer(cmd, buf) ==
    /\ cmd \in {ZCL_CMD.DISCOVER_CMDS_RECEIVED_RSP, ZCL_CMD.DISCOVER_CMDS_GEN_RSP}
    /\ Len(buf) > 1

--------------------------------------------------------------------------------
(* By the command: how its structure is sent, and how it is parsed.          *)
Payload(cmd, c) ==
    CASE cmd = ZCL_CMD.READ -> zcl_SendRead(c)
      [] cmd = ZCL_CMD.READ_RSP -> zcl_SendReadRsp(c)
      [] cmd \in {ZCL_CMD.WRITE, ZCL_CMD.WRITE_UNDIVIDED, ZCL_CMD.WRITE_NO_RSP} ->
            zcl_SendWriteRequest(c)
      [] cmd = ZCL_CMD.WRITE_RSP -> zcl_SendWriteRsp(c)
      [] cmd = ZCL_CMD.CONFIG_REPORT -> zcl_SendConfigReportCmd(c)
      [] cmd = ZCL_CMD.CONFIG_REPORT_RSP -> zcl_SendConfigReportRspCmd(c)
      [] cmd = ZCL_CMD.READ_REPORT_CFG -> zcl_SendReadReportCfgCmd(c)
      [] cmd = ZCL_CMD.READ_REPORT_CFG_RSP -> zcl_SendReadReportCfgRspCmd(c)
      [] cmd = ZCL_CMD.REPORT -> zcl_SendReportCmd(c)
      [] cmd = ZCL_CMD.DEFAULT_RSP -> zcl_SendDefaultRspCmd(c)
      [] cmd = ZCL_CMD.DISCOVER_ATTRS -> zcl_SendDiscoverAttrsCmd(c)
      [] cmd = ZCL_CMD.DISCOVER_ATTRS_RSP -> zcl_SendDiscoverAttrsRspCmd(c)
      [] cmd \in {ZCL_CMD.DISCOVER_CMDS_RECEIVED, ZCL_CMD.DISCOVER_CMDS_GEN} ->
            zcl_SendDiscoverCmdsCmd(c)
      [] cmd \in {ZCL_CMD.DISCOVER_CMDS_RECEIVED_RSP, ZCL_CMD.DISCOVER_CMDS_GEN_RSP} ->
            zcl_SendDiscoverCmdsRspCmd(c)
      [] cmd = ZCL_CMD.DISCOVER_ATTRS_EXT -> zcl_SendDiscoverAttrsExt(c)
      [] cmd = ZCL_CMD.DISCOVER_ATTRS_EXT_RSP -> zcl_SendDiscoverAttrsExtRsp(c)

\* zclCmdTable knows every command but those with structures.
Known(cmd) == cmd \in {ZCL_CMD[c] : c \in DOMAIN ZCL_CMD}
zclParseCmd(cmd, buf) ==
    CASE cmd = ZCL_CMD.READ -> zclParseInReadCmd(buf)
      [] cmd = ZCL_CMD.READ_RSP -> zclParseInReadRspCmd(buf)
      [] cmd \in {ZCL_CMD.WRITE, ZCL_CMD.WRITE_UNDIVIDED, ZCL_CMD.WRITE_NO_RSP} ->
            zclParseInWriteCmd(buf)
      [] cmd = ZCL_CMD.WRITE_RSP -> zclParseInWriteRspCmd(buf)
      [] cmd = ZCL_CMD.CONFIG_REPORT -> zclParseInConfigReportCmd(buf)
      [] cmd = ZCL_CMD.CONFIG_REPORT_RSP -> zclParseInConfigReportRspCmd(buf)
      [] cmd = ZCL_CMD.READ_REPORT_CFG -> zclParseInReadReportCfgCmd(buf)
      [] cmd = ZCL_CMD.READ_REPORT_CFG_RSP -> zclParseInReadReportCfgRspCmd(buf)
      [] cmd = ZCL_CMD.REPORT -> zclParseInReportCmd(buf)
      [] cmd = ZCL_CMD.DEFAULT_RSP -> zclParseInDefaultRspCmd(buf)
      [] cmd \in {ZCL_CMD.DISCOVER_ATTRS, ZCL_CMD.DISCOVER_ATTRS_EXT} ->
            zclParseInDiscAttrsCmd(buf)
      [] cmd = ZCL_CMD.DISCOVER_ATTRS_RSP -> zclParseInDiscAttrsRspCmd(buf)
      [] cmd \in {ZCL_CMD.DISCOVER_CMDS_RECEIVED, ZCL_CMD.DISCOVER_CMDS_GEN} ->
            zclParseInDiscCmdsCmd(buf)
      [] cmd \in {ZCL_CMD.DISCOVER_CMDS_RECEIVED_RSP, ZCL_CMD.DISCOVER_CMDS_GEN_RSP} ->
            zclParseInDiscCmdsRspCmd(buf)
      [] cmd = ZCL_CMD.DISCOVER_ATTRS_EXT_RSP -> zclParseInDiscAttrsExtRspCmd(buf)

--------------------------------------------------------------------------------
(* The block a command is read into.  The commands whose records point to    *)
(* their values have them behind the last record, hdrLen bytes after the     *)
(* block's first; hdrLen is a byte.  The lengths are those of a host of 64   *)
(* bits.                                                                     *)
ListAt == 8              \* where the list begins in the structure
RecordLength(cmd) ==
    CASE cmd \in {ZCL_CMD.READ_RSP, ZCL_CMD.WRITE, ZCL_CMD.WRITE_UNDIVIDED,
                  ZCL_CMD.WRITE_NO_RSP, ZCL_CMD.REPORT} -> 16
      [] cmd \in {ZCL_CMD.CONFIG_REPORT, ZCL_CMD.READ_REPORT_CFG_RSP} -> 24
      [] OTHER -> 0      \* no value, or no list
hdrLenOf(cmd, n) == (ListAt + n * RecordLength(cmd)) % 2^8
\* From 16 records on, or 11 of a configuration, the values are copied over
\* the records, and the records past the end of the block.
Wrapped(cmd, buf) ==
    /\ RecordLength(cmd) # 0
    /\ LET n == Len(zclParseCmd(cmd, buf))
       IN hdrLenOf(cmd, n) # ListAt + n * RecordLength(cmd)
\* To parse this destroys what else is in memory.
Corrupts(cmd, buf) == UnsetPointer(cmd, buf) \/ Wrapped(cmd, buf)
\* A list of a write's statuses gets three bytes a record and needs four, and
\* the records an undivided write saves get none (see ZclAttributes): whether
\* anything else lies there is up to the allocator.
MayCorrupt(cmd, buf) ==
    \/ Corrupts(cmd, buf)
    \/ cmd = ZCL_CMD.WRITE_RSP /\ Len(buf) > 1
    \/ cmd = ZCL_CMD.WRITE_UNDIVIDED
===============================================================================
