--------------------------------- MODULE MCZcl ---------------------------------
(***************************************************************************)
(* A device with attributes, groups and scenes at endpoint 1, an endpoint  *)
(* without either (2), one that does not exist (3) and a client (4); and   *)
(* beside them, with a topic of its own, the gateway that enrols zones.    *)
(***************************************************************************)
EXTENDS Zcl, ZclZones, TLC

CONSTANTS d1, d2, d3
MCDevices == {d1, d2, d3}
MCZoneType == [d \in MCDevices |-> IF d = d3 THEN 99 ELSE 21]

--------------------------------------------------------------------------------
(* What endpoint 1 has.  The value of 85 begins like its number, that of 28  *)
(* does not.                                                                 *)
Attr(cluster, id, type, access, stored) ==
    [clusterID |-> cluster, attrId |-> id, dataType |-> type,
     accessControl |-> access, stored |-> stored]
Attrs == <<
    Attr(BASIC, 16, CHAR_STR, 3, TRUE),
    Attr(BASIC, DEVICE_ENABLED, BOOLEAN8, 3, TRUE),
    Attr(BASIC, 20, UINT8, 51, TRUE),
    Attr(IDENTIFY, IDENTIFY_TIME, UINT16, 3, TRUE),
    Attr(MULTISTATE_VALUE_BASIC, 28, CHAR_STR, 3, TRUE),
    Attr(MULTISTATE_VALUE_BASIC, 74, UINT16, 1, TRUE),
    Attr(MULTISTATE_VALUE_BASIC, 81, BOOLEAN8, 3, FALSE),
    Attr(MULTISTATE_VALUE_BASIC, 85, UINT16, 3, TRUE),
    Attr(MULTISTATE_VALUE_BASIC, 87, UINT8, 130, TRUE)>>
MCInitVals ==
    (<<BASIC, 16>> :> <<1, 65>>) @@ (<<BASIC, DEVICE_ENABLED>> :> <<1>>)
    @@ (<<BASIC, 20>> :> <<7>>) @@ (<<IDENTIFY, IDENTIFY_TIME>> :> <<0, 0>>)
    @@ (<<MULTISTATE_VALUE_BASIC, 28>> :> <<0>>)
    @@ (<<MULTISTATE_VALUE_BASIC, 74>> :> <<3, 1>>)
    @@ (<<MULTISTATE_VALUE_BASIC, 81>> :> <<0>>)
    @@ (<<MULTISTATE_VALUE_BASIC, 85>> :> <<85, 0>>)
    @@ (<<MULTISTATE_VALUE_BASIC, 87>> :> <<4>>)
MCRefused == {<<9, 9>>, <<9>>}
MCUnauthorized == {20}
Cmds == [k \in 1 .. 3 |-> [clusterID |-> SCENES, cmdID |-> k - 1, flag |-> 4]]
        \o <<[clusterID |-> SCENES, cmdID |-> 64, flag |-> 2]>>

\* The tasks registered in either order, or one for all only; the identify
\* cluster secured or not.
Register(tasks, secured) ==
    [attrList |-> zcl_registerReadWriteCB(
                      zcl_registerAttrList(<< >>, 1, Attrs), 1),
     gpCmdList |-> zcl_registerCmdList(<< >>, 1, Cmds),
     clusterOptionList |-> zcl_registerClusterOptionList(<< >>, 1,
         <<[clusterID |-> IDENTIFY, secured |-> secured]>>),
     plugins |-> zcl_registerPlugin(<< >>, BASIC, MULTISTATE_VALUE_BASIC,
                                    "zclGeneral_HdlIncoming"),
     externalEndPointHandlerList |-> tasks]
MCRegisters ==
    [library |->
        {Register(zcl_registerForMsg(
             zcl_registerForMsgExt(<< >>, "client", 4), "all"), TRUE),
         Register(zcl_registerForMsgExt(
             zcl_registerForMsg(<< >>, "all"), "client", 4), FALSE),
         Register(zcl_registerForMsg(<< >>, "all"), FALSE)},
     scenes |-> {Register(<< >>, FALSE)},
     zones |-> {Register(<< >>, FALSE)}]

--------------------------------------------------------------------------------
(* What the client sends.                                                    *)
Request(dst, cluster, type, manu, disable, unicast, secure, cmd, c) ==
    [to |-> [src |-> 4, dst |-> dst, clusterId |-> cluster,
             unicast |-> unicast],
     hdr |-> [type |-> type, manuCode |-> manu, direction |-> 0,
              disableDefaultRsp |-> disable, seq |-> 7, cmd |-> cmd],
     c |-> c, secure |-> secure]
Lib(cluster, cmd, c) ==
    Request(1, cluster, PROFILE, 0, FALSE, TRUE, FALSE, cmd, c)
Scene(cmd, c) == Request(1, SCENES, SPECIFIC, 0, FALSE, TRUE, FALSE, cmd, c)
Group(cmd, g) == Request(1, GROUPS, SPECIFIC, 0, FALSE, TRUE, FALSE, cmd,
                         [groupID |-> g, groupList |-> {g} \ {NoGroup}])
W(id, type, data) == [attrID |-> id, dataType |-> type, attrData |-> data]
Multi == MULTISTATE_VALUE_BASIC
Listed(set) == FoldSet(LAMBDA x, list : Append(list, x), << >>, set)
Gathered(sets) == FlattenSeq([k \in DOMAIN sets |-> Listed(sets[k])])

Writes == Gathered(<<
    {Lib(BASIC, ZCL_CMD.WRITE, c) : c \in {
        <<W(DEVICE_ENABLED, BOOLEAN8, <<0>>)>>,
        <<W(DEVICE_ENABLED, BOOLEAN8, <<1>>), W(16, CHAR_STR, <<2, 66, 67>>)>>,
        <<W(16, UINT8, <<5>>), W(20, UINT8, <<5>>)>>}},
    {Lib(IDENTIFY, ZCL_CMD.WRITE, <<W(IDENTIFY_TIME, UINT16, <<5, 0>>)>>)},
    {Lib(Multi, cmd, c) : cmd \in {ZCL_CMD.WRITE, ZCL_CMD.WRITE_UNDIVIDED},
                          c \in {
        <<W(85, UINT16, <<2, 0>>)>>,
        <<W(85, UINT16, <<85, 0>>), W(28, CHAR_STR, <<1, 66>>)>>,
        <<W(85, UINT16, <<2, 0>>), W(81, BOOLEAN8, <<9>>)>>,
        <<W(81, BOOLEAN8, <<1>>), W(28, CHAR_STR, <<0>>),
          W(85, UINT16, <<9, 9>>)>>,
        <<W(81, BOOLEAN8, <<0>>), W(74, UINT16, <<1, 1>>)>>,
        <<W(28, CHAR_STR, <<1, 66>>), W(99, UINT8, <<1>>)>>}},
    {Lib(BASIC, ZCL_CMD.WRITE_NO_RSP, <<W(16, CHAR_STR, <<1, 65>>)>>),
     Lib(BASIC, ZCL_CMD.WRITE_NO_RSP, <<W(DEVICE_ENABLED, BOOLEAN8, <<0>>)>>)},
    {Request(1, BASIC, PROFILE, 0, TRUE, unicast, FALSE, cmd,
             <<W(16, CHAR_STR, <<1, 65>>)>>) :
     unicast \in BOOLEAN, cmd \in {ZCL_CMD.WRITE_NO_RSP, ZCL_CMD.REPORT}}>>)

Config(direction, id, type, change) ==
    IF direction = SEND_REPORTS
    THEN [direction |-> direction, attrID |-> id, dataType |-> type,
          minReportInt |-> 1, maxReportInt |-> 300, reportableChange |-> change]
    ELSE [direction |-> direction, attrID |-> id, timeoutPeriod |-> 600]
Status(status, config) == [status |-> status] @@ config
Reports == <<
    Lib(Multi, ZCL_CMD.CONFIG_REPORT,
        <<Config(0, 85, UINT16, <<1, 0>>), Config(1, 81, 0, << >>),
          Config(0, 81, BOOLEAN8, << >>)>>),
    Lib(Multi, ZCL_CMD.CONFIG_REPORT,
        <<Config(0, 81, BOOLEAN8, << >>), Config(0, 85, UINT16, <<1, 0>>)>>),
    Lib(Multi, ZCL_CMD.CONFIG_REPORT_RSP,
        <<[status |-> 0, direction |-> 0, attrID |-> 85]>>),
    Lib(Multi, ZCL_CMD.CONFIG_REPORT_RSP,
        <<[status |-> 134, direction |-> 0, attrID |-> 85],
          [status |-> 0, direction |-> 1, attrID |-> 81]>>),
    Lib(Multi, ZCL_CMD.READ_REPORT_CFG,
        <<[direction |-> 0, attrID |-> 85], [direction |-> 1, attrID |-> 81]>>),
    Lib(Multi, ZCL_CMD.READ_REPORT_CFG_RSP,
        <<Status(0, Config(0, 81, BOOLEAN8, << >>)),
          [status |-> 134, direction |-> 0, attrID |-> 3],
          Status(0, Config(0, 85, UINT16, <<1, 0>>)),
          Status(0, Config(1, 81, 0, << >>))>>),
    Lib(Multi, ZCL_CMD.REPORT,
        <<W(28, CHAR_STR, <<2, 66, 67>>), W(85, UINT16, <<1, 2>>)>>)>>

\* Lists as long as their block allows, and one longer.
Repeated(n, rec) == [k \in 1 .. n |-> rec]
Longest == Gathered(<<
    {Lib(BASIC, ZCL_CMD.WRITE, Repeated(n, W(20, UINT8, <<5>>))) : n \in {15, 16}},
    {Lib(BASIC, ZCL_CMD.READ, Repeated(n, DEVICE_ENABLED)) : n \in {15, 16}},
    {Lib(Multi, ZCL_CMD.CONFIG_REPORT, Repeated(n, Config(1, 81, 0, << >>))) :
        n \in {10, 11}}>>)

Discoveries == Gathered(<<
    {Lib(Multi, cmd, [startAttr |-> a, maxAttrIDs |-> n]) :
        cmd \in {ZCL_CMD.DISCOVER_ATTRS, ZCL_CMD.DISCOVER_ATTRS_EXT},
        a \in {0, 75, 85, 86}, n \in {0, 2, 9}},
    {Lib(SCENES, cmd, [startCmdID |-> a, maxCmdID |-> n]) :
        cmd \in {ZCL_CMD.DISCOVER_CMDS_RECEIVED, ZCL_CMD.DISCOVER_CMDS_GEN},
        a \in {0, 1}, n \in {1, 5}}>>)

Others == Gathered(<<
    {Lib(BASIC, ZCL_CMD.READ, <<DEVICE_ENABLED, 99, 20, 16>>),
     Lib(Multi, ZCL_CMD.READ, <<28, 74, 81, 87>>),
     Lib(BASIC, 15, << >>)},
    {Lib(BASIC, ZCL_CMD.DEFAULT_RSP, [commandID |-> 1, statusCode |-> 0])},
    {Request(1, IDENTIFY, PROFILE, 0, FALSE, TRUE, secure, ZCL_CMD.READ,
             <<IDENTIFY_TIME>>) : secure \in BOOLEAN},
    {Request(dst, BASIC, PROFILE, 0, FALSE, TRUE, FALSE, ZCL_CMD.READ, <<16>>) :
        dst \in {2, 3}},
    {Request(1, BASIC, type, 4660, FALSE, TRUE, FALSE, 0, << >>) :
        type \in {PROFILE, SPECIFIC}},
    {Request(1, cluster, SPECIFIC, 0, disable, unicast, FALSE, cmd, << >>) :
        cluster \in {BASIC, IDENTIFY, Multi, 1280},
        disable \in BOOLEAN, unicast \in BOOLEAN, cmd \in {0, 1, 9}}>>)

AddScene(g, i, t) == [groupID |-> g, ID |-> i, transTime |-> t, tenths |-> 1]
Copy(all, i, to) == [all |-> all, groupIDFrom |-> 1, ID |-> i,
                     groupIDTo |-> 2, IDTo |-> to]
SceneRequests == Gathered(<<
    {Scene(SCENE.ADD, AddScene(1, i, 2)) : i \in {1, 2}},
    {Scene(cmd, AddScene(g, 1, 2)) : g \in {0, 1},
        cmd \in {SCENE.ENHANCED_ADD, SCENE.STORE}},
    {Scene(cmd, AddScene(1, 1, 0)) :
        cmd \in {SCENE.VIEW, SCENE.REMOVE, SCENE.REMOVE_ALL, SCENE.RECALL,
                 SCENE.GET_MEMBERSHIP, SCENE.ENHANCED_VIEW, 7}},
    {Scene(SCENE.COPY, c) : c \in {Copy(TRUE, 0, 0), Copy(FALSE, 1, 2)}},
    {Group(cmd, 1) : cmd \in {GROUP.ADD, GROUP.VIEW, GROUP.REMOVE,
                              GROUP.GET_MEMBERSHIP}},
    {Group(GROUP.ADD, 2), Group(GROUP.REMOVE_ALL, 0),
     Group(GROUP.GET_MEMBERSHIP, 0), Group(GROUP.ADD_IF_IDENTIFYING, 2)}>>)

MCRequests == [library |-> Writes \o Reports \o Longest \o Discoveries
                          \o Others,
               scenes |-> SceneRequests,
               zones |-> << >>]
MCTransitions == {3}
MCLeftovers == {<< >>, <<0, 64>>}

--------------------------------------------------------------------------------
Init == ZclInit /\ ZonesInit
Next == \/ ZclNext /\ UNCHANGED zoneVars
        \/ topic = "zones" /\ ZonesNext /\ UNCHANGED zclVars
Spec == Init /\ [][Next]_<<zclVars, zoneVars>>
===============================================================================
