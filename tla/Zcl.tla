---------------------------------- MODULE Zcl ----------------------------------
(***************************************************************************)
(* The cluster library at work (zcl.c, zcl_general.c): a frame comes in,   *)
(* is parsed, checked, handled by the library, by a plugin or by an        *)
(* application's task, and answered.  The endpoints talk to each other;    *)
(* one of them has attributes, groups and scenes.  Every handler runs to   *)
(* its end before the next frame is taken, but the writes it makes to      *)
(* non-volatile memory are steps of their own, for the power may fail      *)
(* between them.                                                           *)
(***************************************************************************)
EXTENDS ZclAttributes, ZclScenes

CONSTANTS
    Requests,         \* what the applications send, by topic
    Described,        \* the endpoints the stack knows
    WithCallbacks,    \* those that have registered with zcl_general
    Registers,        \* and, by topic, what may be registered when it runs
    InitVals,         \* the attributes' values when it starts
    Transitions,      \* what the application may store in a scene
    Leftovers         \* see zclProcessInDiscCmd

VARIABLES
    topic,            \* which requests are sent
    wire,             \* the frames on the way
    replies,          \* those the handler sends when its writes are made
    asked,            \* history: the last request, and the values before it
    answers,          \* history: the frames its receiver sent back
    heard,            \* history: what the asker's applications were given
    crash             \* history: the table before and after the last handler,
                      \* how often it was saved, and what the power's last
                      \* failure has interrupted
zclVars == <<registry, vals, sceneVars, topic, wire, replies, asked, answers,
             heard, crash>>

--------------------------------------------------------------------------------
BASIC == 0               \* clusters
IDENTIFY == 3
GROUPS == 4
SCENES == 5
MULTISTATE_VALUE_BASIC == 20
DEVICE_ENABLED == 18     \* ATTRID_BASIC_DEVICE_ENABLED
IDENTIFY_TIME == 0       \* ATTRID_IDENTIFY_TIME
PROFILE == 0             \* frame types
SPECIFIC == 1

--------------------------------------------------------------------------------
(* What is sent and what is registered.                                      *)
FrameHeader == [type : {PROFILE, SPECIFIC}, manuCode : Word,
                direction : {0, 1}, disableDefaultRsp : BOOLEAN,
                seq : Byte, cmd : Byte]
\* The last number is no attribute's and no command's.
zclAttrRec_t ==
    [clusterID : Nat, attrId : Word \ {65535}, dataType : Byte,
     accessControl : Byte, stored : BOOLEAN]
zclCommandRec_t ==
    [clusterID : Nat, cmdID : Byte \ {255}, flag : 0 .. 15]

\* A request is bytes, with the numbers of a discovery as long as they are.
ASSUME RequestsAssumption ==
    \A t \in DOMAIN Requests : \A k \in DOMAIN Requests[t] :
        LET q == Requests[t][k]
            cmd == q.hdr.cmd
        IN /\ q.hdr \in FrameHeader
           /\ q.to.src \in Described \cap Nat
           /\ q.to.src \notin {q.to.dst, AF_BROADCAST_ENDPOINT}
           /\ q.to.unicast \in BOOLEAN
           /\ q.hdr.type = PROFILE /\ Known(cmd) =>
                 /\ Payload(cmd, q.c) \in Seq(Byte)
                 /\ cmd \in {ZCL_CMD.DISCOVER_ATTRS, ZCL_CMD.DISCOVER_ATTRS_EXT}
                    => q.c \in [startAttr : Word, maxAttrIDs : Byte]
                 /\ cmd \in {ZCL_CMD.DISCOVER_CMDS_RECEIVED,
                             ZCL_CMD.DISCOVER_CMDS_GEN}
                    => q.c \in [startCmdID : Byte, maxCmdID : Byte]

\* The lists are in the order of their numbers, every attribute has a value,
\* and the list of tasks is one that registering makes.
ASSUME RegistersAssumption ==
    \A t \in DOMAIN Requests : \A r \in Registers[t] :
        /\ r.attrList \in Seq([endpoint : Nat, attrs : Seq(zclAttrRec_t),
                               callbacks : BOOLEAN])
        /\ r.gpCmdList \in Seq([endpoint : Nat, pCmdRecs : Seq(zclCommandRec_t)])
        /\ r.clusterOptionList \in
               Seq([endpoint : Nat,
                    options : Seq([clusterID : Nat, secured : BOOLEAN])])
        /\ r.externalEndPointHandlerList \in zclExternalFoundationHandlerList
        /\ \A e \in DOMAIN r.attrList :
              LET attrs == r.attrList[e].attrs
              IN /\ \A i, j \in DOMAIN attrs :
                       i < j /\ attrs[i].clusterID = attrs[j].clusterID
                       => attrs[i].attrId <= attrs[j].attrId
                 /\ \A i \in DOMAIN attrs :
                       /\ Key(attrs[i]) \in DOMAIN InitVals
                       /\ Key(attrs[i]) = <<BASIC, DEVICE_ENABLED>> =>
                             attrs[i].dataType = BOOLEAN8
        /\ \A e \in DOMAIN r.gpCmdList :
              LET cmds == r.gpCmdList[e].pCmdRecs
              IN \A i, j \in DOMAIN cmds :
                    i < j /\ cmds[i].clusterID = cmds[j].clusterID
                    => cmds[i].cmdID <= cmds[j].cmdID

\* Those who ask cannot be disabled and secure no cluster.
ASSUME AskersAssumption ==
    \A t \in DOMAIN Requests :
        \A k \in DOMAIN Requests[t], r \in Registers[t] :
            LET src == Requests[t][k].to.src
            IN /\ \A e \in DOMAIN r.attrList :
                     r.attrList[e].endpoint = src =>
                         \A a \in Range(r.attrList[e].attrs) :
                             Key(a) # <<BASIC, DEVICE_ENABLED>>
               /\ \A e \in DOMAIN r.clusterOptionList :
                     r.clusterOptionList[e].endpoint # src

ASSUME ValuesAssumption ==
    /\ InitVals \in [DOMAIN InitVals -> Seq(Byte)]
    /\ Leftovers \subseteq Seq(Byte)

--------------------------------------------------------------------------------
(* Sending.                                                                  *)
\* A disabled device sends and takes no more than reads and writes.
zcl_DeviceOperational(v, ep, cluster, type, cmd) ==
    LET k == zclFindAttrRec(ep, BASIC, DEVICE_ENABLED)
        a == Attributes(ep)[k]
    IN \/ type = PROFILE /\ cmd <= ZCL_CMD.WRITE_NO_RSP
       \/ cluster = IDENTIFY
       \/ k # NotFound /\ a.stored => zclReadAttrData(a, v) = <<1>>

\* The frame of a command, if the device may send it: its payload is bytes for
\* a command of the library, and the command itself for one of a cluster.
zcl_SendCommand(v, to, hdr, c, secured) ==
    LET profile == hdr.type = PROFILE /\ Known(hdr.cmd)
    IN IF ~zcl_DeviceOperational(v, to.src, to.clusterId, hdr.type, hdr.cmd)
       THEN << >>
       ELSE <<[src |-> to.src, dst |-> to.dst, clusterId |-> to.clusterId,
               unicast |-> to.unicast, secure |-> secured, hdr |-> hdr,
               meant |-> c,
               data |-> zclBuildHdr(hdr)
                        \o (IF profile THEN Payload(hdr.cmd, c) ELSE << >>)]>>

\* An answer is secured if its cluster is or the frame it answers was.
Back(msg) == [src |-> msg.endPoint, dst |-> msg.src, unicast |-> TRUE,
              clusterId |-> msg.clusterId]
Secured(msg) ==
    zclGetClusterOption(msg.endPoint, msg.clusterId) \/ msg.secure
AnswerHdr(msg, type, manuCode, cmd) ==
    [type |-> type, manuCode |-> manuCode, direction |-> 1 - msg.hdr.direction,
     disableDefaultRsp |-> TRUE, seq |-> msg.hdr.seq, cmd |-> cmd]
Send(v, msg, cmd, c) ==
    zcl_SendCommand(v, Back(msg), AnswerHdr(msg, PROFILE, 0, cmd), c,
                    Secured(msg))
\* A cluster's response has its command's number, a query's to identify has 0.
SendSpecific(msg, rsp) ==
    LET cmd == IF msg.clusterId = IDENTIFY THEN 0 ELSE msg.hdr.cmd
    IN zcl_SendCommand(vals, Back(msg), AnswerHdr(msg, SPECIFIC, 0, cmd), rsp,
                       Secured(msg))
zcl_SendDefaultRsp(v, msg, status, secured) ==
    zcl_SendCommand(v, Back(msg),
        AnswerHdr(msg, PROFILE, msg.hdr.manuCode, ZCL_CMD.DEFAULT_RSP),
        [commandID |-> msg.hdr.cmd, statusCode |-> status], secured)

DefaultRsp(v, msg, status) ==
    IF msg.unicast /\ ~msg.hdr.disableDefaultRsp
    THEN zcl_SendDefaultRsp(v, msg, status, Secured(msg)) ELSE << >>

--------------------------------------------------------------------------------
(* The frame that is handled next.                                           *)
HdrLen(p) == zclCalcHdrSize(p.hdr)
PayloadOf(p) == SubSeq(p.data, HdrLen(p) + 1, Len(p.data))
Msg(p) ==
    LET hdr == zclParseHdr(p.data)
        payload == PayloadOf(p)
        known == hdr.type = PROFILE /\ hdr.manuCode = 0 /\ Known(hdr.cmd)
    IN [endPoint |-> p.dst, src |-> p.src, clusterId |-> p.clusterId,
        unicast |-> p.unicast, secure |-> p.secure, hdr |-> hdr,
        attrCmd |-> IF hdr.type = SPECIFIC THEN p.meant
                    ELSE IF known THEN zclParseCmd(hdr.cmd, payload)
                    ELSE << >>]

Handles(p) ==
    /\ p.dst \in Described
    /\ zcl_DeviceOperational(vals, p.dst, p.clusterId, p.hdr.type, p.hdr.cmd)
\* Only the frames of clusters that a plugin handles have to be secured.
IsDefaultRsp(msg) ==
    /\ msg.hdr.type = PROFILE /\ msg.hdr.manuCode = 0
    /\ msg.hdr.cmd = ZCL_CMD.DEFAULT_RSP
NotSecure(msg) ==
    /\ zclFindPlugin(msg.clusterId) # NoPlugin
    /\ ~IsDefaultRsp(msg)
    /\ zclGetClusterOption(msg.endPoint, msg.clusterId) /\ ~msg.secure

\* Takes the frame: the values, the scenes' outcome, what is sent back and
\* which application is given it.
Handled(v, r, sent, given) ==
    /\ wire' = Tail(wire)
    /\ vals' = v
    /\ Carry(r)
    /\ replies' = sent
    /\ answers' = IF Head(wire).src = asked.src THEN answers \o sent
                  ELSE answers
    /\ heard' = heard \o given
    /\ crash' = [old |-> zclGenSceneTable, new |-> r.work.table,
                 saves |-> Len(r.work.saves), kind |-> "none"]
    /\ UNCHANGED <<registry, topic, asked>>
Quiet == Result(Now, ZSuccess, << >>)

Ignore ==
    /\ wire # << >> /\ ~Busy /\ replies = << >>
    /\ ~Handles(Head(wire))
    /\ Handled(vals, Quiet, << >>, << >>)

\* The answer to a frame that ought to have been secured is sent unsecured.
RejectInsecure ==
    /\ wire # << >> /\ ~Busy /\ replies = << >>
    /\ Handles(Head(wire))
    /\ \E msg \in {Msg(Head(wire))} :
          /\ NotSecure(msg)
          /\ Handled(vals, Quiet,
                 IF msg.unicast
                 THEN zcl_SendDefaultRsp(vals, msg, ZFailure, FALSE)
                 ELSE << >>,
                 << >>)

--------------------------------------------------------------------------------
(* Commands of the library itself.                                           *)
\* Mutant: the undivided write counts as a command without an answer.
HasRspMissing(cmd) ==
    cmd \in {ZCL_CMD.READ, ZCL_CMD.WRITE, ZCL_CMD.CONFIG_REPORT,
             ZCL_CMD.READ_REPORT_CFG, ZCL_CMD.DISCOVER_ATTRS,
             ZCL_CMD.DISCOVER_CMDS_RECEIVED, ZCL_CMD.DISCOVER_CMDS_GEN,
             ZCL_CMD.DISCOVER_ATTRS_EXT, ZCL_CMD.DEFAULT_RSP}
\* CMD_HAS_RSP(cmd).
HasRsp(cmd) ==
    cmd \in {ZCL_CMD.READ, ZCL_CMD.WRITE, ZCL_CMD.WRITE_UNDIVIDED,
             ZCL_CMD.CONFIG_REPORT, ZCL_CMD.READ_REPORT_CFG,
             ZCL_CMD.DISCOVER_ATTRS, ZCL_CMD.DISCOVER_CMDS_RECEIVED,
             ZCL_CMD.DISCOVER_CMDS_GEN, ZCL_CMD.DISCOVER_ATTRS_EXT,
             ZCL_CMD.DEFAULT_RSP}

\* The response of a command the library answers: [cmd, c], and the values.
Reply(v, cmd, c) == [vals |-> v, sent |-> <<[cmd |-> cmd, c |-> c]>>]
zclProcessCmd(msg) ==
    LET cmd == msg.hdr.cmd
        written == {IF cmd = ZCL_CMD.WRITE_UNDIVIDED
                    THEN zclProcessInWriteUndividedCmd(msg)
                    ELSE zclProcessInWriteCmd(msg)}
        list == zclProcessInDiscCmd(msg, Leftovers)
    IN CASE cmd = ZCL_CMD.READ ->
                {Reply(vals, ZCL_CMD.READ_RSP, zclProcessInReadCmd(msg))}
         [] cmd \in {ZCL_CMD.WRITE, ZCL_CMD.WRITE_UNDIVIDED} ->
                {Reply(w.vals, ZCL_CMD.WRITE_RSP, w.rsp) : w \in written}
         [] cmd = ZCL_CMD.WRITE_NO_RSP ->
                {[vals |-> w.vals, sent |-> << >>] : w \in written}
         [] cmd = ZCL_CMD.DISCOVER_ATTRS ->
                {Reply(vals, ZCL_CMD.DISCOVER_ATTRS_RSP,
                       zclProcessInDiscAttrsCmd(msg))}
         [] cmd = ZCL_CMD.DISCOVER_ATTRS_EXT ->
                {Reply(vals, ZCL_CMD.DISCOVER_ATTRS_EXT_RSP,
                       zclProcessInDiscAttrsExtCmd(msg))}
         [] cmd \in {ZCL_CMD.DISCOVER_CMDS_RECEIVED,
                     ZCL_CMD.DISCOVER_CMDS_GEN} ->
                {Reply(vals, cmd + 1, c) : c \in list}
         [] OTHER -> {[vals |-> vals, sent |-> << >>]}

\* Any other goes to a task, if there is one for the endpoint.
External(cmd) ==
    cmd \notin {ZCL_CMD.READ, ZCL_CMD.WRITE, ZCL_CMD.WRITE_UNDIVIDED,
                ZCL_CMD.WRITE_NO_RSP, ZCL_CMD.DISCOVER_ATTRS,
                ZCL_CMD.DISCOVER_CMDS_RECEIVED, ZCL_CMD.DISCOVER_CMDS_GEN,
                ZCL_CMD.DISCOVER_ATTRS_EXT}
Given(task, msg) ==
    [task |-> task, endPoint |-> msg.endPoint, cmd |-> msg.hdr.cmd]
zcl_HandleExternal(msg) ==
    LET task == zcl_getExternalFoundationHandler(msg.endPoint)
    IN IF task = NoTask THEN << >> ELSE <<Given(task, msg)>>

\* A frame that zclCmdTable has a parser for.
Parsed(msg) ==
    /\ ~NotSecure(msg)
    /\ msg.hdr.type = PROFILE /\ msg.hdr.manuCode = 0 /\ Known(msg.hdr.cmd)

ProcessFoundation ==
    /\ wire # << >> /\ ~Busy /\ replies = << >>
    /\ Handles(Head(wire))
    /\ \E msg \in {Msg(Head(wire))} :
          LET cmd == msg.hdr.cmd IN
          /\ Parsed(msg) /\ ~Corrupts(cmd, PayloadOf(Head(wire)))
          /\ \E r \in zclProcessCmd(msg) :
                Handled(r.vals, Quiet,
                    FlattenSeq([k \in DOMAIN r.sent |->
                        Send(r.vals, msg, r.sent[k].cmd, r.sent[k].c)])
                    \o (IF HasRsp(cmd) THEN << >>
                        ELSE DefaultRsp(r.vals, msg, ZCL_STATUS.SUCCESS)),
                    IF External(cmd) THEN zcl_HandleExternal(msg) ELSE << >>)

RejectFoundation ==
    /\ wire # << >> /\ ~Busy /\ replies = << >>
    /\ Handles(Head(wire))
    /\ \E msg \in {Msg(Head(wire))} :
          /\ ~NotSecure(msg)
          /\ msg.hdr.type = PROFILE
          /\ \/ msg.hdr.manuCode # 0
             \/ ~Known(msg.hdr.cmd)
          /\ Handled(vals, Quiet,
                 DefaultRsp(vals, msg,
                     IF msg.hdr.manuCode # 0
                     THEN ZCL_STATUS.UNSUP_MANU_GENERAL_COMMAND
                     ELSE ZCL_STATUS.UNSUP_GENERAL_COMMAND),
                 << >>)

--------------------------------------------------------------------------------
(* Commands of a cluster: the plugin of the general clusters.  Its outcome,  *)
(* and the values it leaves.                                                 *)
IdentifyTime(ep) ==
    LET k == zclFindAttrRec(ep, IDENTIFY, IDENTIFY_TIME)
    IN IF k = NotFound THEN 0
       ELSE BUILD_UINT16(zcl_ReadAttrData(ep, Attributes(ep)[k], vals), 1)

zclGeneral_ProcessInBasic(msg) ==
    Result(Now, IF msg.hdr.cmd = 0 THEN ZSuccess ELSE ZFailure, << >>)
\* To identify is left to the application; so are the other commands.
zclGeneral_ProcessInIdentity(msg) ==
    LET timeout == IdentifyTime(msg.endPoint)
    IN IF msg.hdr.cmd = 1 /\ timeout > 0
       THEN Result(Now, CMD_HAS_RSP, <<[timeout |-> timeout]>>)
       ELSE Result(Now, IF msg.hdr.cmd \in {0, 1, 2, 3, 64} THEN ZSuccess
                        ELSE ZFailure, << >>)

\* As a client it gives the responses it knows to the application; the basic
\* cluster has none, and all that comes is taken.
ClientKnows(cluster, cmd) ==
    \/ cluster = BASIC
    \/ cluster = IDENTIFY /\ cmd = 0
    \/ cluster = GROUPS /\ cmd \in {GROUP.ADD, GROUP.VIEW, GROUP.REMOVE,
                                    GROUP.GET_MEMBERSHIP}
    \/ cluster = SCENES /\ cmd \in {SCENE.ADD, SCENE.VIEW, SCENE.REMOVE,
                                    SCENE.REMOVE_ALL, SCENE.STORE,
                                    SCENE.GET_MEMBERSHIP}
zclGeneral_ProcessInClient(msg) ==
    Result(Now, IF ClientKnows(msg.clusterId, msg.hdr.cmd) THEN ZSuccess
                ELSE ZFailure, << >>)

zclGeneral_HdlInSpecificCommands(msg) ==
    LET cluster == msg.clusterId
    IN IF msg.endPoint \notin WithCallbacks
       THEN {Result(Now, ZFailure, << >>)}
       ELSE IF msg.hdr.direction = 1 THEN {zclGeneral_ProcessInClient(msg)}
       ELSE CASE cluster = BASIC -> {zclGeneral_ProcessInBasic(msg)}
              [] cluster = IDENTIFY -> {zclGeneral_ProcessInIdentity(msg)}
              [] cluster = GROUPS ->
                    {zclGeneral_ProcessInGroupsServer(msg,
                         IdentifyTime(msg.endPoint) > 0)}
              [] cluster = SCENES ->
                    {zclGeneral_ProcessInScenesServer(msg, change) :
                     change \in Transitions \cup {Unchanged}}
              [] OTHER -> {Result(Now, ZFailure, << >>)}
zclGeneral_HdlIncoming(msg) ==
    IF msg.hdr.manuCode # 0 THEN {Result(Now, ZFailure, << >>)}
    ELSE zclGeneral_HdlInSpecificCommands(msg)

\* What the default response says.
StatusOf(msg, stat) ==
    IF stat # ZFailure THEN stat
    ELSE IF msg.hdr.manuCode # 0
    THEN ZCL_STATUS.UNSUP_MANU_CLUSTER_COMMAND
    ELSE ZCL_STATUS.UNSUP_CLUSTER_COMMAND
ProcessSpecific ==
    /\ wire # << >> /\ ~Busy /\ replies = << >>
    /\ Handles(Head(wire))
    /\ \E msg \in {Msg(Head(wire))} :
          LET plugin == zclFindPlugin(msg.clusterId) # NoPlugin IN
          /\ ~NotSecure(msg)
          /\ msg.hdr.type = SPECIFIC
          /\ \E r \in IF plugin THEN zclGeneral_HdlIncoming(msg)
                      ELSE {Result(Now, ZFailure, << >>)} :
                Handled(vals, r,
                    FlattenSeq([k \in DOMAIN r.rsp |->
                                SendSpecific(msg, r.rsp[k])])
                    \o (IF r.stat = CMD_HAS_RSP THEN << >>
                        ELSE DefaultRsp(vals, msg, StatusOf(msg, r.stat))),
                    IF /\ msg.hdr.direction = 1 /\ r.stat = ZSuccess
                       /\ msg.clusterId # BASIC
                    THEN <<Given("general", msg)>> ELSE << >>)

--------------------------------------------------------------------------------
(* The applications, and the handler's end.                                  *)
Nobody == [src |-> 0]
Unharmed(kind) == [old |-> zclGenSceneTable, new |-> zclGenSceneTable,
                   saves |-> 0, kind |-> kind]
ZclInit ==
    /\ topic \in DOMAIN Requests
    /\ \E r \in Registers[topic] :
          /\ attrList = r.attrList /\ gpCmdList = r.gpCmdList
          /\ clusterOptionList = r.clusterOptionList
          /\ plugins = r.plugins
          /\ externalEndPointHandlerList = r.externalEndPointHandlerList
    /\ vals = InitVals
    /\ ScenesInit
    /\ wire = << >> /\ replies = << >>
    /\ asked = Nobody /\ answers = << >> /\ heard = << >>
    /\ crash = [old |-> << >>, new |-> << >>, saves |-> 0, kind |-> "none"]

Ask ==
    /\ wire = << >> /\ ~Busy /\ replies = << >>
    /\ asked = Nobody
    /\ \E k \in DOMAIN Requests[topic] :
          LET q == Requests[topic][k]
          IN /\ wire' = zcl_SendCommand(vals, q.to, q.hdr, q.c,
                            \/ zclGetClusterOption(q.to.src, q.to.clusterId)
                            \/ q.secure)
             /\ asked' = [src |-> q.to.src, to |-> q.to, hdr |-> q.hdr,
                          c |-> q.c, before |-> vals]
    /\ crash' = Unharmed("none")
    /\ UNCHANGED <<registry, vals, sceneVars, topic, replies, answers, heard>>

\* No step of the code: the history begins anew before the next request.
Forget ==
    /\ wire = << >> /\ ~Busy /\ replies = << >>
    /\ asked # Nobody
    /\ asked' = Nobody /\ answers' = << >> /\ heard' = << >>
    /\ crash' = Unharmed("none")
    /\ UNCHANGED <<registry, vals, sceneVars, topic, wire, replies>>

Finish ==
    /\ replies # << >> /\ ~Busy
    /\ wire' = wire \o replies
    /\ replies' = << >>
    /\ UNCHANGED <<registry, vals, sceneVars, topic, asked, answers, heard,
                   crash>>

\* One write, one group left, or one scene restored.
Proceed ==
    /\ WriteNV \/ LeaveGroups \/ zclGeneral_ScenesRestoreFromNV
    /\ UNCHANGED <<registry, vals, topic, wire, replies, asked, answers, heard,
                   crash>>

\* The power fails: what the handler was to send is never sent.
Fail ==
    /\ Restart
    /\ vals' = InitVals
    /\ wire' = << >> /\ replies' = << >>
    /\ asked' = Nobody /\ answers' = << >> /\ heard' = << >>
    /\ crash' =
         IF Busy /\ crash.kind # "none"
         THEN [crash EXCEPT !.kind = "restoring"]
         ELSE IF Busy THEN [crash EXCEPT !.kind = "handling"]
         ELSE Unharmed("idle")
    /\ UNCHANGED <<registry, topic>>

\* The parser destroys what is in memory, and the program ends by it: how it
\* may go on without what it has lost is not modelled.
Collapse ==
    /\ wire # << >> /\ ~Busy /\ replies = << >>
    /\ Handles(Head(wire))
    /\ \E msg \in {Msg(Head(wire))} :
          Parsed(msg) /\ MayCorrupt(msg.hdr.cmd, PayloadOf(Head(wire)))
    /\ Fail

ZclNext ==
    \/ Ask \/ Forget \/ Ignore \/ RejectInsecure
    \/ ProcessFoundation \/ RejectFoundation \/ ProcessSpecific
    \/ Finish \/ Proceed \/ Fail \/ Collapse
ZclSpec == ZclInit /\ [][ZclNext]_zclVars

--------------------------------------------------------------------------------
(* What the commands promise each other.                                     *)
Settled == asked # Nobody /\ wire = << >> /\ replies = << >> /\ ~Busy
Foundation == asked.hdr.type = PROFILE /\ asked.hdr.manuCode = 0

\* What the code leaves without an answer although it was asked for one.
Enabled == <<BASIC, DEVICE_ENABLED>> \notin DOMAIN vals
           \/ vals[<<BASIC, DEVICE_ENABLED>>] = <<1>>
LeftToTheApplication ==
    Foundation /\ asked.hdr.cmd \in {ZCL_CMD.CONFIG_REPORT,
                                     ZCL_CMD.READ_REPORT_CFG,
                                     ZCL_CMD.DEFAULT_RSP}
InNoneOfTheGroups ==
    /\ asked.hdr.type = SPECIFIC /\ asked.to.clusterId = GROUPS
    /\ asked.hdr.cmd = GROUP.GET_MEMBERSHIP
    /\ asked.c.groupList # {} /\ asked.c.groupList \cap groups = {}
Unanswered ==
    \/ asked.to.dst \notin Described
    \/ ~Enabled
    \/ LeftToTheApplication
    \/ InNoneOfTheGroups

(* A unicast command is answered once, by its response or by a default       *)
(* response but never by both, with its own sequence number and so that the  *)
(* answer is not answered in turn; only a few are not answered, and one that *)
(* wants no default response gets none that says success                     *)
(* (zcl_ProcessMessageMSG, CMD_HAS_RSP, the returns of the handlers).  So it  *)
(* is unless the program ends by the frame or the power fails.               *)
AnsweredOnce ==
    asked # Nobody /\ asked.to.unicast =>
        /\ Len(answers) <= 1
        /\ \A k \in DOMAIN answers :
              /\ answers[k].hdr.seq = asked.hdr.seq
              /\ answers[k].hdr.disableDefaultRsp
              /\ answers[k].dst = asked.src
        /\ Settled => \/ Unanswered \/ asked.hdr.disableDefaultRsp
                      \/ Len(answers) = 1
        /\ asked.hdr.disableDefaultRsp =>
              \A k \in DOMAIN answers :
                  /\ answers[k].hdr.type = PROFILE
                  /\ answers[k].hdr.cmd = ZCL_CMD.DEFAULT_RSP
                  => answers[k].meant.statusCode = ZCL_STATUS.FAILURE

\* A discrete attribute's configuration is counted as if it were longer, so
\* that what follows is counted from the wrong byte.
Miscounted(p) ==
    /\ p.hdr.cmd = ZCL_CMD.CONFIG_REPORT
    /\ \E k \in 1 .. Len(p.meant) - 1 :
          /\ p.meant[k].direction = SEND_REPORTS
          /\ ~zclAnalogDataType(p.meant[k].dataType)
\* A single success is sent as one byte, which only a write's response is
\* read back from.
CutShort(p) ==
    /\ p.hdr.cmd = ZCL_CMD.CONFIG_REPORT_RSP
    /\ Len(p.meant) = 1 /\ p.meant[1].status = ZCL_STATUS.SUCCESS

\* What is before the values is longer than hdrLen can tell.
TooMany(p) ==
    /\ RecordLength(p.hdr.cmd) # 0
    /\ ListAt + Len(p.meant) * RecordLength(p.hdr.cmd) >= 2^8

(* A frame of the library is read as it was meant: every record, its type,   *)
(* its value and its length, by the parser that goes with the command        *)
(* (zclParseHdr, zclCmdTable's parsers, zclBuildHdr and the senders), up to  *)
(* the longest list whose length hdrLen can tell.  A list of commands is     *)
(* never read (UnsetPointer).                                                *)
ParsedAsSent ==
    \A k \in DOMAIN wire :
        LET p == wire[k]
            cmd == p.hdr.cmd
        IN p.hdr.type = PROFILE =>
            /\ zclParseHdr(p.data) = p.hdr
            /\ \/ p.hdr.manuCode # 0 \/ ~Known(cmd)
               \/ Miscounted(p) \/ CutShort(p)
               \/ UnsetPointer(cmd, PayloadOf(p))
               \/ TooMany(p) /\ Wrapped(cmd, PayloadOf(p))
               \/ Msg(p).attrCmd = p.meant

(* The answer to a command of the library comes to the task that is          *)
(* registered for the endpoint that asked, once, even if another task has    *)
(* registered for all endpoints, before it or after                          *)
(* (zcl_addExternalFoundationHandler, zcl_HandleExternal).  A default        *)
(* response to a manufacturer's command is rejected by its receiver.  A list *)
(* of commands, or of more values than there is room for, never comes to a   *)
(* task: the program ends before (Collapse).                                 *)
AnswersAreHeard ==
    Settled /\ answers # << >> =>
        LET p == answers[1]
            own == {h \in Range(externalEndPointHandlerList) :
                    h.zcl_ExternalEndPoint = asked.src}
            here == {k \in DOMAIN heard : heard[k].endPoint = asked.src}
        IN p.hdr.type = PROFILE /\ p.hdr.manuCode = 0 =>
           /\ Cardinality(here) <= 1
           /\ \A h \in own :
                 {heard[k] : k \in here} = {[task |-> h.zcl_ExternalTaskID,
                                            endPoint |-> asked.src,
                                            cmd |-> p.hdr.cmd]}

\* The values after these records were written.
After(recs) ==
    [key \in DOMAIN vals |->
        LET own == {k \in DOMAIN recs :
                    <<asked.to.clusterId, recs[k].attrID>> = key}
        IN IF own = {} THEN asked.before[key]
           ELSE LET rec == recs[Max(own)]
                IN zclSerializeData(rec.dataType, rec.attrData)]
\* The old value of the first record lies over its attribute (hdrLen), so
\* that the values can be put back only if the two begin alike.
Overlaid(rsp) ==
    LET rec == asked.c[1]
        old == asked.before[<<asked.to.clusterId, rec.attrID>>]
        n == Min({2, Len(old)})
    IN /\ rsp[1].attrID # rec.attrID
       /\ SubSeq(old, 1, n) # SubSeq(Uint16(rec.attrID), 1, n)

(* A write changes the attributes it reports no error for to what was        *)
(* written last, and no others; an undivided write changes all of them or,   *)
(* when the application refuses a value after others were written, none,     *)
(* unless the saved value has destroyed its own record                       *)
(* (zclProcessInWriteCmd, zclProcessInWriteUndividedCmd,                     *)
(* zclRevertWriteUndividedCmd).                                              *)
WritesAsReported ==
    /\ Settled /\ Foundation /\ answers # << >>
    /\ asked.hdr.cmd \in {ZCL_CMD.WRITE, ZCL_CMD.WRITE_UNDIVIDED}
    /\ answers[1].hdr.cmd = ZCL_CMD.WRITE_RSP
    => LET rsp == answers[1].meant
           failed == SelectSeq(rsp,
                               LAMBDA r : r.status # ZCL_STATUS.SUCCESS)
           ids == {failed[k].attrID : k \in DOMAIN failed}
       IN IF asked.hdr.cmd = ZCL_CMD.WRITE \/ failed = << >>
          THEN vals = After(SelectSeq(asked.c, LAMBDA r : r.attrID \notin ids))
          ELSE Overlaid(rsp) \/ vals = asked.before

\* A discovery: what it is asked for, and what the endpoint has to offer.
OfAttributes == asked.hdr.cmd \in {ZCL_CMD.DISCOVER_ATTRS,
                                   ZCL_CMD.DISCOVER_ATTRS_EXT}
OfCommands == asked.hdr.cmd \in {ZCL_CMD.DISCOVER_CMDS_RECEIVED,
                                 ZCL_CMD.DISCOVER_CMDS_GEN}
Most == IF OfAttributes THEN asked.c.maxAttrIDs ELSE asked.c.maxCmdID
Offered ==
    IF OfAttributes
    THEN {a.attrId : a \in {b \in Range(Attributes(asked.to.dst)) :
              /\ b.clusterID = asked.to.clusterId
              /\ b.attrId >= asked.c.startAttr
              /\ Direction(b) = asked.hdr.direction}}
    ELSE {c.cmdID : c \in {d \in Range(Commands(asked.to.dst)) :
              /\ d.clusterID = asked.to.clusterId
              /\ d.cmdID >= asked.c.startCmdID
              /\ Bit(d.flag, Wanted(asked))}}
IDs(rsp) ==
    IF OfAttributes
    THEN [k \in DOMAIN rsp.attrList |-> rsp.attrList[k].attrID]
    ELSE rsp.cmdIDs
Exact(rsp) ==
    LET ids == IDs(rsp)
        n == Min({Most, Cardinality(Offered)})
    IN Most > 0 /\ (OfAttributes \/ n > 0)
       => /\ Len(ids) = n /\ Range(ids) \subseteq Offered
          /\ \A k \in 2 .. n : ids[k - 1] < ids[k]
          /\ \A id \in Offered \ Range(ids) : n > 0 => ids[n] < id
          /\ rsp.discComplete = Flag(n = Cardinality(Offered))

(* Discovery lists what the endpoint has of the cluster and the side that    *)
(* was asked, from the first number asked for on, each once and as many as   *)
(* were asked for, and says that it is complete only if nothing is left      *)
(* (zclProcessInDiscAttrs, zclProcessInDiscCmd).  A list that was asked to   *)
(* be empty is always complete, and nothing can be said of a list of         *)
(* commands when there are none: its length is not set.                      *)
DiscoveryIsExact ==
    /\ asked # Nobody /\ Foundation /\ (OfAttributes \/ OfCommands)
    /\ answers # << >> /\ answers[1].hdr.cmd = asked.hdr.cmd + 1
    => Exact(answers[1].meant)

(* What is left of the scenes when the power has failed and they are         *)
(* restored.  Between two commands nothing is lost but what is behind the    *)
(* table's end.  A command that adds or changes one scene has happened or    *)
(* has not.  One that takes scenes out or saves more than once can leave any *)
(* of the old and new ones, and so can a failure during the restoring, which *)
(* writes the table it reads; but no scene is ever invented                  *)
(* (zclGeneral_ScenesWriteNV, zclGeneral_ScenesRestoreFromNV).               *)
RestoredAsSaved ==
    LET Fitting(table) ==
            SubSeq(table, 1, Min({Len(table), ZCL_GEN_MAX_SCENES}))
        whole == crash.saves <= 1 /\ Len(crash.new) >= Len(crash.old)
    IN ~Busy =>
        /\ crash.kind = "idle" => zclGenSceneTable = Fitting(crash.new)
        /\ crash.kind = "handling" /\ whole =>
              zclGenSceneTable \in {Fitting(crash.old), Fitting(crash.new)}
        /\ crash.kind # "none" =>
              Range(zclGenSceneTable) \subseteq
                  Range(crash.old) \cup Range(crash.new)

(* No scene outlives its group, whichever way the group is left and whatever *)
(* the power's failures have restored (zclGeneral_ProcessInGroupsServer,     *)
(* zclGeneral_RemoveAllScenes).                                              *)
BelongToGroups ==
    ~Busy => \A k \in DOMAIN zclGenSceneTable :
                Valid(zclGenSceneTable[k].groupID)
===============================================================================
