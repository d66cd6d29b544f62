--------------------------------- MODULE MtZdo ---------------------------------
(***************************************************************************)
(* The Zigbee device object commands of the MT interface,                  *)
(* framework/mt/Zdo: requests, responses, and the dispatch of what the     *)
(* radio sends.                                                            *)
(***************************************************************************)
EXTENDS Layout

\* The command identifiers, the second byte of a message.
Ids == [MT_ZDO_NWK_ADDR_REQ |-> \h00, MT_ZDO_IEEE_ADDR_REQ |-> \h01,
        MT_ZDO_NODE_DESC_REQ |-> \h02, MT_ZDO_POWER_DESC_REQ |-> \h03,
        MT_ZDO_SIMPLE_DESC_REQ |-> \h04, MT_ZDO_ACTIVE_EP_REQ |-> \h05,
        MT_ZDO_MATCH_DESC_REQ |-> \h06, MT_ZDO_COMPLEX_DESC_REQ |-> \h07,
        MT_ZDO_USER_DESC_REQ |-> \h08, MT_ZDO_DEVICE_ANNCE |-> \h0A,
        MT_ZDO_USER_DESC_SET |-> \h0B, MT_ZDO_SERVER_DISC_REQ |-> \h0C,
        MT_ZDO_END_DEVICE_BIND_REQ |-> \h20, MT_ZDO_BIND_REQ |-> \h21,
        MT_ZDO_UNBIND_REQ |-> \h22, MT_ZDO_SET_LINK_KEY |-> \h23,
        MT_ZDO_REMOVE_LINK_KEY |-> \h24, MT_ZDO_GET_LINK_KEY |-> \h25,
        MT_ZDO_NWK_DISCOVERY_REQ |-> \h26, MT_ZDO_JOIN_REQ |-> \h27,
        MT_ZDO_MGMT_NWK_DISC_REQ |-> \h30, MT_ZDO_MGMT_LQI_REQ |-> \h31,
        MT_ZDO_MGMT_RTG_REQ |-> \h32, MT_ZDO_MGMT_BIND_REQ |-> \h33,
        MT_ZDO_MGMT_LEAVE_REQ |-> \h34, MT_ZDO_MGMT_DIRECT_JOIN_REQ |-> \h35,
        MT_ZDO_MGMT_PERMIT_JOIN_REQ |-> \h36,
        MT_ZDO_MGMT_NWK_UPDATE_REQ |-> \h37, MT_ZDO_MSG_CB_REGISTER |-> \h3E,
        MT_ZDO_MSG_CB_REMOVE |-> \h3F, MT_ZDO_STARTUP_FROM_APP |-> \h40,
        MT_ZDO_AUTO_FIND_DESTINATION |-> \h41, MT_ZDO_NWK_ADDR_RSP |-> \h80,
        MT_ZDO_IEEE_ADDR_RSP |-> \h81, MT_ZDO_NODE_DESC_RSP |-> \h82,
        MT_ZDO_POWER_DESC_RSP |-> \h83, MT_ZDO_SIMPLE_DESC_RSP |-> \h84,
        MT_ZDO_ACTIVE_EP_RSP |-> \h85, MT_ZDO_MATCH_DESC_RSP |-> \h86,
        MT_ZDO_COMPLEX_DESC_RSP |-> \h90, MT_ZDO_USER_DESC_RSP |-> \h91,
        MT_ZDO_USER_DESC_CONF |-> \h94, MT_ZDO_SERVER_DISC_RSP |-> \h95,
        MT_ZDO_END_DEVICE_BIND_RSP |-> \hA0, MT_ZDO_BIND_RSP |-> \hA1,
        MT_ZDO_UNBIND_RSP |-> \hA2, MT_ZDO_MGMT_NWK_DISC_RSP |-> \hB0,
        MT_ZDO_MGMT_LQI_RSP |-> \hB1, MT_ZDO_MGMT_RTG_RSP |-> \hB2,
        MT_ZDO_MGMT_BIND_RSP |-> \hB3, MT_ZDO_MGMT_LEAVE_RSP |-> \hB4,
        MT_ZDO_MGMT_DIRECT_JOIN_RSP |-> \hB5,
        MT_ZDO_MGMT_PERMIT_JOIN_RSP |-> \hB6, MT_ZDO_STATE_CHANGE_IND |-> \hC0,
        MT_ZDO_END_DEVICE_ANNCE_IND |-> \hC1,
        MT_ZDO_MATCH_DESC_RSP_SENT |-> \hC2, MT_ZDO_STATUS_ERROR_RSP |-> \hC3,
        MT_ZDO_SRC_RTG_IND |-> \hC4, MT_ZDO_BEACON_NOTIFY_IND |-> \hC5,
        MT_ZDO_JOIN_CNF |-> \hC6, MT_ZDO_NWK_DISCOVERY_CNF |-> \hC7,
        MT_ZDO_CONCENTRATOR_IND_CB |-> \hC8, MT_ZDO_LEAVE_IND |-> \hC9,
        MT_ZDO_MSG_CB_INCOMING |-> \hFF]

--------------------------------------------------------------------------------
(* The structures the application and the framework exchange.                *)
NetworkListItemFormat_t == <<<<"PanID", 8>>, <<"LogicalChannel", 1>>,
    <<"StackProf_ZigVer", 1>>, <<"BeacOrd_SupFramOrd", 1>>,
    <<"PermitJoin", 1>>>>
NeighborLqiListItemFormat_t == <<<<"ExtendedPanID", 8>>,
    <<"ExtendedAddress", 8>>, <<"NetworkAddress", 2>>,
    <<"DevTyp_RxOnWhenIdle_Relat", 1>>, <<"PermitJoining", 1>>, <<"Depth", 1>>,
    <<"LQI", 1>>>>
RoutingTableListItemFormat_t == <<<<"DstAddr", 2>>, <<"Status", 1>>,
    <<"NextHop", 2>>>>
BindingTableListItemFormat_t == <<<<"SrcIEEEAddr", 8>>, <<"SrcEndpoint", 1>>,
    <<"ClusterID", 1>>, <<"DstAddrMode", 1>>, <<"DstIEEEAddr", 8>>,
    <<"DstEndpoint", 1>>>>
BeaconListItemFormat_t == <<<<"SrcAddr", 2>>, <<"PanId", 2>>,
    <<"LogicalChannel", 1>>, <<"PermitJoining", 1>>, <<"RouterCap", 1>>,
    <<"DevCap", 1>>, <<"ProtocolVer", 1>>, <<"StackProf", 1>>, <<"Lqi", 1>>,
    <<"Depth", 1>>, <<"UpdateId", 1>>, <<"ExtendedPanId", 8>>>>
NwkAddrReqFormat_t == <<Array("IEEEAddress", 8), U8("ReqType"),
    U8("StartIndex")>>
IeeeAddrReqFormat_t == <<U16("ShortAddr"), U8("ReqType"), U8("StartIndex")>>
NodeDescReqFormat_t == <<U16("DstAddr"), U16("NwkAddrOfInterest")>>
PowerDescReqFormat_t == <<U16("DstAddr"), U16("NwkAddrOfInterest")>>
SimpleDescReqFormat_t == <<U16("DstAddr"), U16("NwkAddrOfInterest"),
    U8("Endpoint")>>
ActiveEpReqFormat_t == <<U16("DstAddr"), U16("NwkAddrOfInterest")>>
MatchDescReqFormat_t == <<U16("DstAddr"), U16("NwkAddrOfInterest"),
    U16("ProfileID"), U8("NumInClusters"), List("InClusterList", Num(2), 16),
    U8("NumOutClusters"), List("OutClusterList", Num(2), 16)>>
ComplexDescReqFormat_t == <<U16("DstAddr"), U16("NwkAddrOfInterest")>>
UserDescReqFormat_t == <<U16("DstAddr"), U16("NwkAddrOfInterest")>>
DeviceAnnceFormat_t == <<U16("NWKAddr"), Array("IEEEAddr", 8),
    U8("Capabilities")>>
UserDescSetFormat_t == <<U16("DstAddr"), U16("NwkAddrOfInterest"), U8("Len"),
    List("UserDescriptor", Num(1), 16)>>
ServerDiscReqFormat_t == <<U16("ServerMask")>>
EndDeviceBindReqFormat_t == <<U16("DstAddr"), U16("LocalCoordinator"),
    Array("CoordinatorIEEE", 8), U8("EndPoint"), U16("ProfileID"),
    U8("NumInClusters"), List("InClusterList", Num(2), 16),
    U8("NumOutClusters"), List("OutClusterList", Num(2), 16)>>
BindReqFormat_t == <<U16("DstAddr"), Array("SrcAddress", 8), U8("SrcEndpoint"),
    U16("ClusterID"), U8("DstAddrMode"), Array("DstAddress", 8),
    U8("DstEndpoint")>>
UnbindReqFormat_t == <<U16("DstAddr"), Array("SrcAddress", 8),
    U8("SrcEndpoint"), U16("ClusterID"), U8("DstAddrMode"),
    Array("DstAddress", 8), U8("DstEndpoint")>>
MgmtNwkDiscReqFormat_t == <<U16("DstAddr"), Array("ScanChannels", 4),
    U8("ScanDuration"), U8("StartIndex")>>
MgmtLqiReqFormat_t == <<U16("DstAddr"), U8("StartIndex")>>
MgmtRtgReqFormat_t == <<U16("DstAddr"), U8("StartIndex")>>
MgmtBindReqFormat_t == <<U16("DstAddr"), U8("StartIndex")>>
MgmtLeaveReqFormat_t == <<U16("DstAddr"), Array("DeviceAddr", 8),
    U8("RemoveChildre_Rejoin")>>
MgmtDirectJoinReqFormat_t == <<U16("DstAddr"), Array("DeviceAddr", 8),
    U8("CapInfo")>>
MgmtPermitJoinReqFormat_t == <<U8("AddrMode"), U16("DstAddr"), U8("Duration"),
    U8("TCSignificance")>>
MgmtNwkUpdateReqFormat_t == <<U16("DstAddr"), U8("DstAddrMode"),
    Array("ChannelMask", 4), U8("ScanDuration"), U8("ScanCount"),
    U16("NwkManagerAddr")>>
StartupFromAppFormat_t == <<U16("StartDelay")>>
AutoFindDestinationFormat_t == <<U8("Endpoint")>>
SetLinkKeyFormat_t == <<U16("ShortAddr"), Array("IEEEaddr", 8),
    Array("LinkKeyData", 16)>>
RemoveLinkKeyFormat_t == <<Array("IEEEaddr", 8)>>
GetLinkKeyFormat_t == <<Array("IEEEaddr", 8)>>
GetLinkKeySrspFormat_t == <<U8("Status"), U64("IEEEAddr"),
    Array("LinkKeyData", 16)>>
NwkDiscoveryReqFormat_t == <<Array("ScanChannels", 4), U8("ScanDuration")>>
JoinReqFormat_t == <<U8("LogicalChannel"), U16("PanID"),
    Array("ExtendedPanID", 8), U16("ChosenParent"), U8("ParentDepth"),
    U8("StackProfile")>>
MsgCbRegisterFormat_t == <<U16("ClusterID")>>
MsgCbRemoveFormat_t == <<U16("ClusterID")>>
NwkAddrRspFormat_t == <<U8("Status"), U64("IEEEAddr"), U16("NwkAddr"),
    U8("StartIndex"), U8("NumAssocDev"), List("AssocDevList", Num(2), 70)>>
IeeeAddrRspFormat_t == <<U8("Status"), U64("IEEEAddr"), U16("NwkAddr"),
    U8("StartIndex"), U8("NumAssocDev"), List("AssocDevList", Num(2), 70)>>
NodeDescRspFormat_t == <<U16("SrcAddr"), U8("Status"), U16("NwkAddr"),
    U8("LoTy_ComDescAv_UsrDesAv"), U8("APSFlg_FrqBnd"), U8("MACCapFlg"),
    U16("ManufacturerCode"), U8("MaxBufferSize"), U16("MaxTransferSize"),
    U16("ServerMask"), U16("MaxOutTransferSize"),
    U8("DescriptorCapabilities")>>
PowerDescRspFormat_t == <<U16("SrcAddr"), U8("Status"), U16("NwkAddr"),
    U8("CurrntPwrMode_AvalPwrSrcs"), U8("CurrntPwrSrc_CurrntPwrSrcLvl")>>
SimpleDescRspFormat_t == <<U16("SrcAddr"), U8("Status"), U16("NwkAddr"),
    U8("Len"), U8("Endpoint"), U16("ProfileID"), U16("DeviceID"),
    U8("DeviceVersion"), U8("NumInClusters"),
    List("InClusterList", Num(2), 16), U8("NumOutClusters"),
    List("OutClusterList", Num(2), 16)>>
ActiveEpRspFormat_t == <<U16("SrcAddr"), U8("Status"), U16("NwkAddr"),
    U8("ActiveEPCount"), List("ActiveEPList", Num(1), 77)>>
MatchDescRspFormat_t == <<U16("SrcAddr"), U8("Status"), U16("NwkAddr"),
    U8("MatchLength"), List("MatchList", Num(1), 77)>>
ComplexDescRspFormat_t == <<U16("SrcAddr"), U8("Status"), U16("NwkAddr"),
    U8("ComplexLength"), List("ComplexList", Num(1), 77)>>
UserDescRspFormat_t == <<U16("SrcAddr"), U8("Status"), U16("NwkAddr"),
    U8("Len"), List("CUserDescriptor", Num(1), 77)>>
UserDescConfFormat_t == <<U16("SrcAddr"), U8("Status"), U16("NwkAddr")>>
ServerDiscRspFormat_t == <<U16("SrcAddr"), U8("Status"), U16("ServerMask")>>
EndDeviceBindRspFormat_t == <<U16("SrcAddr"), U8("Status")>>
BindRspFormat_t == <<U16("SrcAddr"), U8("Status")>>
UnbindRspFormat_t == <<U16("SrcAddr"), U8("Status")>>
MgmtNwkDiscRspFormat_t == <<U16("SrcAddr"), U8("Status"), U8("NetworkCount"),
    U8("StartIndex"), U8("NetworkListCount"),
    List("NetworkList", NetworkListItemFormat_t, 72)>>
MgmtLqiRspFormat_t == <<U16("SrcAddr"), U8("Status"),
    U8("NeighborTableEntries"), U8("StartIndex"), U8("NeighborLqiListCount"),
    List("NeighborLqiList", NeighborLqiListItemFormat_t, 66)>>
MgmtRtgRspFormat_t == <<U16("SrcAddr"), U8("Status"),
    U8("RoutingTableEntries"), U8("StartIndex"), U8("RoutingTableListCount"),
    List("RoutingTableList", RoutingTableListItemFormat_t, 75)>>
MgmtBindRspFormat_t == <<U16("SrcAddr"), U8("Status"),
    U8("BindingTableEntries"), U8("StartIndex"), U8("BindingTableListCount"),
    List("BindingTableList", BindingTableListItemFormat_t, 75)>>
MgmtLeaveRspFormat_t == <<U16("SrcAddr"), U8("Status")>>
MgmtDirectJoinRspFormat_t == <<U16("SrcAddr"), U8("Status")>>
MgmtPermitJoinRspFormat_t == <<U16("SrcAddr"), U8("Status")>>
EndDeviceAnnceIndFormat_t == <<U16("SrcAddr"), U16("NwkAddr"), U64("IEEEAddr"),
    U8("Capabilities")>>
MatchDescRspSentFormat_t == <<U16("NwkAddr"), U8("NumInClusters"),
    List("InClusterList", Num(2), 16), U8("NumOutClusters"),
    List("OutClusterList", Num(2), 16)>>
StatusErrorRspFormat_t == <<U16("SrcAddr"), U8("Status")>>
SrcRtgIndFormat_t == <<U16("DstAddr"), U8("RelayCount"),
    List("RelayList", Num(2), 255)>>
BeaconNotifyIndFormat_t == <<U8("BeaconCount"),
    List("BeaconList", BeaconListItemFormat_t, 21)>>
JoinCnfFormat_t == <<U8("Status"), U16("DevAddr"), U16("ParentAddr")>>
NwkDiscoveryCnfFormat_t == <<U8("Status")>>
LeaveIndFormat_t == <<U16("SrcAddr"), U64("ExtAddr"), U8("Request"),
    U8("Remove"), U8("Rejoin")>>
MsgCbIncomingFormat_t == <<U16("SrcAddr"), U8("WasBroadcast"),
    U16("ClusterID"), U8("SecurityUse"), U8("SeqNum"), U16("MacDstAddr"),
    U8("Status"), U64("ExtAddr"), U16("NwkAddr"), U8("NotUsed")>>

--------------------------------------------------------------------------------
(* Requests: what each function writes of its structure, how many bytes it   *)
(* declares, and which command it sends them as.                             *)
zdoNwkAddrReq == SReq("MT_ZDO_NWK_ADDR_REQ", NwkAddrReqFormat_t,
         <<Copy("IEEEAddress", 8), Byte("ReqType"),
           Byte("StartIndex")>>, 10, << >>)
zdoIeeeAddrReq == SReq("MT_ZDO_IEEE_ADDR_REQ", IeeeAddrReqFormat_t,
         <<Word("ShortAddr"), Byte("ReqType"), Byte("StartIndex")>>, 4, << >>)
zdoNodeDescReq == SReq("MT_ZDO_NODE_DESC_REQ", NodeDescReqFormat_t,
         <<Word("DstAddr"), Word("NwkAddrOfInterest")>>, 4, << >>)
zdoPowerDescReq == SReq("MT_ZDO_POWER_DESC_REQ", PowerDescReqFormat_t,
         <<Word("DstAddr"), Word("NwkAddrOfInterest")>>, 4, << >>)
zdoSimpleDescReq == SReq("MT_ZDO_SIMPLE_DESC_REQ", SimpleDescReqFormat_t,
         <<Word("DstAddr"), Word("NwkAddrOfInterest"),
           Byte("Endpoint")>>, 5, << >>)
zdoActiveEpReq == SReq("MT_ZDO_ACTIVE_EP_REQ", ActiveEpReqFormat_t,
         <<Word("DstAddr"), Word("NwkAddrOfInterest")>>, 4, << >>)
zdoMatchDescReq == SReq("MT_ZDO_MATCH_DESC_REQ", MatchDescReqFormat_t,
         <<Word("DstAddr"), Word("NwkAddrOfInterest"), Word("ProfileID"),
           Byte("NumInClusters"),
           Loop("InClusterList", Num(2), "NumInClusters"),
           Byte("NumOutClusters"),
           Loop("OutClusterList", Num(2), "NumOutClusters")>>,
         8, [NumInClusters |-> 2, NumOutClusters |-> 2])
zdoComplexDescReq == SReq("MT_ZDO_COMPLEX_DESC_REQ", ComplexDescReqFormat_t,
         <<Word("DstAddr"), Word("NwkAddrOfInterest")>>, 4, << >>)
zdoUserDescReq == SReq("MT_ZDO_USER_DESC_REQ", UserDescReqFormat_t,
         <<Word("DstAddr"), Word("NwkAddrOfInterest")>>, 4, << >>)
zdoDeviceAnnce == SReq("MT_ZDO_DEVICE_ANNCE", DeviceAnnceFormat_t,
         <<Word("NWKAddr"), Copy("IEEEAddr", 8),
           Byte("Capabilities")>>, 11, << >>)
zdoUserDescSet == SReq("MT_ZDO_USER_DESC_SET", UserDescSetFormat_t,
         <<Word("DstAddr"), Word("NwkAddrOfInterest"), Byte("Len"),
           Loop("UserDescriptor", Num(1), "Len")>>, 5, [Len |-> 1])
zdoServerDiscReq == SReq("MT_ZDO_SERVER_DISC_REQ", ServerDiscReqFormat_t,
         <<Word("ServerMask")>>, 2, << >>)
zdoEndDeviceBindReq ==
    SReq("MT_ZDO_END_DEVICE_BIND_REQ", EndDeviceBindReqFormat_t,
         <<Word("DstAddr"), Word("LocalCoordinator"),
           Copy("CoordinatorIEEE", 8), Byte("EndPoint"), Word("ProfileID"),
           Byte("NumInClusters"),
           Loop("InClusterList", Num(2), "NumInClusters"),
           Byte("NumOutClusters"),
           Loop("OutClusterList", Num(2), "NumOutClusters")>>,
         17, [NumInClusters |-> 2, NumOutClusters |-> 2])
zdoBindReq == SReq("MT_ZDO_BIND_REQ", BindReqFormat_t,
         <<Word("DstAddr"), Copy("SrcAddress", 8), Byte("SrcEndpoint"),
           Word("ClusterID"), Byte("DstAddrMode"),
           Loop("DstAddress", Num(1), "addrmd"),
           Loop("DstEndpoint", Num(1), "endP")>>,
         14, [addrmd |-> 1, endP |-> 1])
zdoUnbindReq == SReq("MT_ZDO_UNBIND_REQ", UnbindReqFormat_t,
         <<Word("DstAddr"), Copy("SrcAddress", 8), Byte("SrcEndpoint"),
           Word("ClusterID"), Byte("DstAddrMode"),
           Loop("DstAddress", Num(1), "addrmd"),
           Loop("DstEndpoint", Num(1), "endP")>>, 16, << >>)
zdoMgmtNwkDiscReq == SReq("MT_ZDO_MGMT_NWK_DISC_REQ", MgmtNwkDiscReqFormat_t,
         <<Word("DstAddr"), Copy("ScanChannels", 4), Byte("ScanDuration"),
           Byte("StartIndex")>>, 8, << >>)
zdoMgmtLqiReq == SReq("MT_ZDO_MGMT_LQI_REQ", MgmtLqiReqFormat_t,
         <<Word("DstAddr"), Byte("StartIndex")>>, 3, << >>)
zdoMgmtRtgReq == SReq("MT_ZDO_MGMT_RTG_REQ", MgmtRtgReqFormat_t,
         <<Word("DstAddr"), Byte("StartIndex")>>, 3, << >>)
zdoMgmtBindReq == SReq("MT_ZDO_MGMT_BIND_REQ", MgmtBindReqFormat_t,
         <<Word("DstAddr"), Byte("StartIndex")>>, 3, << >>)
zdoMgmtLeaveReq == SReq("MT_ZDO_MGMT_LEAVE_REQ", MgmtLeaveReqFormat_t,
         <<Word("DstAddr"), Copy("DeviceAddr", 8),
           Byte("RemoveChildre_Rejoin")>>, 11, << >>)
zdoMgmtDirectJoinReq ==
    SReq("MT_ZDO_MGMT_DIRECT_JOIN_REQ", MgmtDirectJoinReqFormat_t,
         <<Word("DstAddr"), Copy("DeviceAddr", 8),
           Byte("CapInfo")>>, 11, << >>)
zdoMgmtPermitJoinReq ==
    SReq("MT_ZDO_MGMT_PERMIT_JOIN_REQ", MgmtPermitJoinReqFormat_t,
         <<Byte("AddrMode"), Word("DstAddr"), Byte("Duration"),
           Byte("TCSignificance")>>, 5, << >>)
zdoMgmtNwkUpdateReq ==
    SReq("MT_ZDO_MGMT_NWK_UPDATE_REQ", MgmtNwkUpdateReqFormat_t,
         <<Word("DstAddr"), Byte("DstAddrMode"), Copy("ChannelMask", 4),
           Byte("ScanDuration"), Byte("ScanCount"),
           Word("NwkManagerAddr")>>, 11, << >>)
zdoStartupFromApp == SReq("MT_ZDO_STARTUP_FROM_APP", StartupFromAppFormat_t,
         <<Word("StartDelay")>>, 2, << >>)
zdoAutoFindDestination ==
    SReq("MT_ZDO_AUTO_FIND_DESTINATION", AutoFindDestinationFormat_t,
         <<Byte("Endpoint")>>, 1, << >>)
zdoSetLinkKey == SReq("MT_ZDO_SET_LINK_KEY", SetLinkKeyFormat_t,
         <<Word("ShortAddr"), Copy("IEEEaddr", 8),
           Copy("LinkKeyData", 16)>>, 26, << >>)
zdoRemoveLinkKey == SReq("MT_ZDO_REMOVE_LINK_KEY", RemoveLinkKeyFormat_t,
         <<Copy("IEEEaddr", 8)>>, 8, << >>)
zdoGetLinkKey == SReq("MT_ZDO_GET_LINK_KEY", GetLinkKeyFormat_t,
         <<Copy("IEEEaddr", 8)>>, 8, << >>)
zdoNwkDiscoveryReq == SReq("MT_ZDO_NWK_DISCOVERY_REQ", NwkDiscoveryReqFormat_t,
         <<Copy("ScanChannels", 4), Byte("ScanDuration")>>, 5, << >>)
zdoJoinReq == SReq("MT_ZDO_JOIN_REQ", JoinReqFormat_t,
         <<Byte("LogicalChannel"), Word("PanID"), Copy("ExtendedPanID", 8),
           Word("ChosenParent"), Byte("ParentDepth"),
           Byte("StackProfile")>>, 15, << >>)
zdoMsgCbRegister == SReq("MT_ZDO_MSG_CB_REGISTER", MsgCbRegisterFormat_t,
         <<Word("ClusterID")>>, 2, << >>)
zdoMsgCbRemove == SReq("MT_ZDO_MSG_CB_REMOVE", MsgCbRemoveFormat_t,
         <<Word("ClusterID")>>, 2, << >>)
zdoInit == SReq("MT_ZDO_STARTUP_FROM_APP", StartupFromAppFormat_t,
         <<Word("StartDelay")>>, 2, << >>)

--------------------------------------------------------------------------------
(* Responses and indications: what each function reads into its structure    *)
(* and which callback gets it.                                               *)
processGetLinkKey == Response("pfnZdoGetLinkKey", GetLinkKeySrspFormat_t,
    <<Byte("Status"), Quad("IEEEAddr"), Copy("LinkKeyData", 16)>>)
processNwkAddrRsp == Response("pfnZdoNwkAddrRsp", NwkAddrRspFormat_t,
    <<Byte("Status"), Quad("IEEEAddr"), Word("NwkAddr"), Byte("StartIndex"),
      Byte("NumAssocDev")>>
    \o IfLonger(13, <<Loop("AssocDevList", Num(2), "NumAssocDev")>>))
processIeeeAddrRsp == Response("pfnZdoIeeeAddrRsp", IeeeAddrRspFormat_t,
    <<Byte("Status"), Quad("IEEEAddr"), Word("NwkAddr"), Byte("StartIndex"),
      Byte("NumAssocDev"), ResetUnless("StartIndex", "NumAssocDev")>>
    \o IfLonger(13, <<Loop("AssocDevList", Num(2), "NumAssocDev")>>))
processNodeDescRsp == Response("pfnZdoNodeDescRsp", NodeDescRspFormat_t,
    <<Word("SrcAddr"), Byte("Status"), Word("NwkAddr"),
      Byte("LoTy_ComDescAv_UsrDesAv"), Byte("APSFlg_FrqBnd"),
      Byte("MACCapFlg"), Word("ManufacturerCode"), Byte("MaxBufferSize"),
      Word("MaxTransferSize"), Word("ServerMask"), Word("MaxOutTransferSize"),
      Byte("DescriptorCapabilities")>>)
processPowerDescRsp == Response("pfnZdoPowerDescRsp", PowerDescRspFormat_t,
    <<Word("SrcAddr"), Byte("Status"), Word("NwkAddr"),
      Byte("CurrntPwrMode_AvalPwrSrcs"),
      Byte("CurrntPwrSrc_CurrntPwrSrcLvl")>>)
processSimpleDescRsp == Response("pfnZdoSimpleDescRsp", SimpleDescRspFormat_t,
    <<Word("SrcAddr"), Byte("Status"), Word("NwkAddr"), Byte("Len")>>
    \o IfLonger(6, <<Byte("Endpoint"), Word("ProfileID"), Word("DeviceID"),
          Byte("DeviceVersion"), Byte("NumInClusters"),
          Loop("InClusterList", Num(2), "NumInClusters"),
          Byte("NumOutClusters"),
          Loop("OutClusterList", Num(2), "NumOutClusters")>>))
processActiveEpRsp == Response("pfnZdoActiveEpRsp", ActiveEpRspFormat_t,
    <<Word("SrcAddr"), Byte("Status"), Word("NwkAddr"), Byte("ActiveEPCount")>>
    \o IfLonger(6, <<Loop("ActiveEPList", Num(1), "ActiveEPCount")>>))
processMatchDescRsp == Response("pfnZdoMatchDescRsp", MatchDescRspFormat_t,
    <<Word("SrcAddr"), Byte("Status"), Word("NwkAddr"), Byte("MatchLength")>>
    \o IfLonger(6, <<Loop("MatchList", Num(1), "MatchLength")>>))
processComplexDescRsp ==
    Response("pfnZdoComplexDescRsp", ComplexDescRspFormat_t,
    <<Word("SrcAddr"), Byte("Status"), Word("NwkAddr"), Byte("ComplexLength")>>
    \o IfLonger(6, <<Loop("ComplexList", Num(1), "ComplexLength")>>))
processUserDescRsp == Response("pfnZdoUserDescRsp", UserDescRspFormat_t,
    <<Word("SrcAddr"), Byte("Status"), Word("NwkAddr"), Byte("Len")>>
    \o IfLonger(6, <<Loop("CUserDescriptor", Num(1), "Len")>>))
processUserDescConf == Response("pfnZdoUserDescConf", UserDescConfFormat_t,
    <<Word("SrcAddr"), Byte("Status"), Word("NwkAddr")>>)
processServerDiscRsp == Response("pfnZdoServerDiscRsp", ServerDiscRspFormat_t,
    <<Word("SrcAddr"), Byte("Status"), Word("ServerMask")>>)
processEndDeviceBindRsp ==
    Response("pfnZdoEndDeviceBindRsp", EndDeviceBindRspFormat_t,
    <<Word("SrcAddr"), Byte("Status")>>)
processBindRsp == Response("pfnZdoBindRsp", BindRspFormat_t,
    <<Word("SrcAddr"), Byte("Status")>>)
processUnbindRsp == Response("pfnZdoUnbindRsp", UnbindRspFormat_t,
    <<Word("SrcAddr"), Byte("Status")>>)
processMgmtNwkDiscRsp ==
    Response("pfnZdoMgmtNwkDiscRsp", MgmtNwkDiscRspFormat_t,
    <<Word("SrcAddr"), Byte("Status"), Byte("NetworkCount"),
      Byte("StartIndex"), Byte("NetworkListCount")>>
    \o IfLonger(6, <<Loop("NetworkList", <<<<"PanID", 8>>,
          <<"LogicalChannel", 1>>, <<"StackProf_ZigVer", 1>>,
          <<"BeacOrd_SupFramOrd", 1>>,
          <<"PermitJoin", 1>>>>, "NetworkListCount")>>))
processMgmtLqiRsp == Response("pfnZdoMgmtLqiRsp", MgmtLqiRspFormat_t,
    <<Word("SrcAddr"), Byte("Status"), Byte("NeighborTableEntries"),
      Byte("StartIndex"), Byte("NeighborLqiListCount")>>
    \o IfLonger(6, <<Loop("NeighborLqiList", <<<<"ExtendedPanID", 8>>,
          <<"ExtendedAddress", 8>>, <<"NetworkAddress", 2>>,
          <<"DevTyp_RxOnWhenIdle_Relat", 1>>, <<"PermitJoining", 1>>,
          <<"Depth", 1>>, <<"LQI", 1>>>>, "NeighborLqiListCount")>>))
processMgmtRtgRsp == Response("pfnZdoMgmtRtgRsp", MgmtRtgRspFormat_t,
    <<Word("SrcAddr"), Byte("Status"), Byte("RoutingTableEntries"),
      Byte("StartIndex"), Byte("RoutingTableListCount")>>
    \o IfLonger(6, <<Loop("RoutingTableList", <<<<"DstAddr", 2>>,
          <<"Status", 1>>, <<"NextHop", 2>>>>, "RoutingTableListCount")>>))
processMgmtBindRsp == Response("pfnZdoMgmtBindRsp", MgmtBindRspFormat_t,
    <<Word("SrcAddr"), Byte("Status"), Byte("BindingTableEntries"),
      Byte("StartIndex"), Byte("BindingTableListCount")>>
    \o IfLonger(6, <<LostLoop("BindingTableList", <<<<"SrcIEEEAddr", 8>>,
          <<"SrcEndpoint", 1>>, <<"ClusterID", 1>>, <<"DstAddrMode", 1>>,
          <<"DstIEEEAddr", 8>>,
          <<"DstEndpoint", 1>>>>, "BindingTableListCount")>>))
processMgmtLeaveRsp == Response("pfnZdoMgmtLeaveRsp", MgmtLeaveRspFormat_t,
    <<Word("SrcAddr"), Byte("Status")>>)
processMgmtDirectJoinRsp ==
    Response("pfnZdoMgmtDirectJoinRsp", MgmtDirectJoinRspFormat_t,
    <<Word("SrcAddr"), Byte("Status")>>)
processMgmtPermitJoinRsp ==
    Response("pfnZdoMgmtPermitJoinRsp", MgmtPermitJoinRspFormat_t,
    <<Word("SrcAddr"), Byte("Status")>>)
processEndDeviceAnnceInd ==
    Response("pfnZdoEndDeviceAnnceInd", EndDeviceAnnceIndFormat_t,
    <<Word("SrcAddr"), Word("NwkAddr"), Quad("IEEEAddr"),
      Byte("Capabilities")>>)
processMatchDescRspSent ==
    Response("pfnZdoMatchDescRspSent", MatchDescRspSentFormat_t,
    <<Word("NwkAddr"), Byte("NumInClusters"),
      Loop("InClusterList", Num(2), "NumInClusters"), Byte("NumOutClusters"),
      Loop("OutClusterList", Num(2), "NumOutClusters")>>)
processStatusErrorRsp ==
    Response("pfnZdoStatusErrorRsp", StatusErrorRspFormat_t,
    <<Word("SrcAddr"), Byte("Status")>>)
processSrcRtgInd == Response("pfnZdoSrcRtgInd", SrcRtgIndFormat_t,
    <<Word("DstAddr"), Byte("RelayCount"),
      Loop("RelayList", Num(2), "RelayCount")>>)
processBeaconNotifyInd ==
    Response("pfnZdoBeaconNotifyInd", BeaconNotifyIndFormat_t,
    <<Byte("BeaconCount")>>
    \o IfLonger(1, <<Loop("BeaconList", <<<<"SrcAddr", 2>>, <<"PanId", 2>>,
          <<"LogicalChannel", 1>>, <<"PermitJoining", 1>>, <<"RouterCap", 1>>,
          <<"DevCap", 1>>, <<"ProtocolVer", 1>>, <<"StackProf", 1>>,
          <<"Lqi", 1>>, <<"Depth", 1>>, <<"UpdateId", 1>>,
          <<"ExtendedPanId", 8>>>>, "BeaconCount")>>))
\* Mutant: an address read as one byte.
processJoinCnfShort == Response("pfnZdoJoinCnf", JoinCnfFormat_t,
    <<Byte("Status"), Byte("DevAddr"), Word("ParentAddr")>>)
processJoinCnf == Response("pfnZdoJoinCnf", JoinCnfFormat_t,
    <<Byte("Status"), Word("DevAddr"), Word("ParentAddr")>>)
processNwkDiscoveryCnf ==
    Response("pfnZdoNwkDiscoveryCnf", NwkDiscoveryCnfFormat_t,
    <<Byte("Status")>>)
processLeaveInd == Response("pfnZdoLeaveInd", LeaveIndFormat_t,
    <<Word("SrcAddr"), Quad("ExtAddr"), Byte("Request"), Byte("Remove"),
      Byte("Rejoin")>>)
processMsgCbIncoming == Response("pfnZdoMsgCbIncoming", MsgCbIncomingFormat_t,
    <<Word("SrcAddr"), Byte("WasBroadcast"), Word("ClusterID"),
      Byte("SecurityUse"), Byte("SeqNum"), Word("MacDstAddr"), Byte("Status"),
      Quad("ExtAddr"), WordAgain("NwkAddr"), Byte("NotUsed")>>)
\* The radio's network state: one byte, given to the callback as it is.
StateChangeInd == <<U8("State")>>
processStateChange == Response("pfnmtZdoStateChangeInd", StateChangeInd,
    <<Byte("State")>>)

\* The lengths zdoBindReq and zdoUnbindReq compute from the address mode.
WithLengths(value) ==
    [f \in DOMAIN value \cup {"addrmd", "endP"} |->
        CASE f = "addrmd" -> IF value["DstAddrMode"] = 3 THEN 8 ELSE 2
          [] f = "endP" -> IF value["DstAddrMode"] = 3 THEN 1 ELSE 0
          [] OTHER -> value[f]]

--------------------------------------------------------------------------------
(* Which function handles a message, by its identifier; others are dropped.  *)
processSrsp == [MT_ZDO_GET_LINK_KEY |-> processGetLinkKey]
zdoProcess == [MT_ZDO_STATE_CHANGE_IND |-> processStateChange,
    MT_ZDO_NWK_ADDR_RSP |-> processNwkAddrRsp,
    MT_ZDO_IEEE_ADDR_RSP |-> processIeeeAddrRsp,
    MT_ZDO_NODE_DESC_RSP |-> processNodeDescRsp,
    MT_ZDO_POWER_DESC_RSP |-> processPowerDescRsp,
    MT_ZDO_SIMPLE_DESC_RSP |-> processSimpleDescRsp,
    MT_ZDO_ACTIVE_EP_RSP |-> processActiveEpRsp,
    MT_ZDO_MATCH_DESC_RSP |-> processMatchDescRsp,
    MT_ZDO_COMPLEX_DESC_RSP |-> processComplexDescRsp,
    MT_ZDO_USER_DESC_RSP |-> processUserDescRsp,
    MT_ZDO_USER_DESC_CONF |-> processUserDescConf,
    MT_ZDO_SERVER_DISC_RSP |-> processServerDiscRsp,
    MT_ZDO_END_DEVICE_BIND_RSP |-> processEndDeviceBindRsp,
    MT_ZDO_BIND_RSP |-> processBindRsp, MT_ZDO_UNBIND_RSP |-> processUnbindRsp,
    MT_ZDO_MGMT_NWK_DISC_RSP |-> processMgmtNwkDiscRsp,
    MT_ZDO_MGMT_LQI_RSP |-> processMgmtLqiRsp,
    MT_ZDO_MGMT_RTG_RSP |-> processMgmtRtgRsp,
    MT_ZDO_MGMT_BIND_RSP |-> processMgmtBindRsp,
    MT_ZDO_MGMT_LEAVE_RSP |-> processMgmtLeaveRsp,
    MT_ZDO_MGMT_DIRECT_JOIN_RSP |-> processMgmtDirectJoinRsp,
    MT_ZDO_MGMT_PERMIT_JOIN_RSP |-> processMgmtPermitJoinRsp,
    MT_ZDO_END_DEVICE_ANNCE_IND |-> processEndDeviceAnnceInd,
    MT_ZDO_MATCH_DESC_RSP_SENT |-> processMatchDescRspSent,
    MT_ZDO_STATUS_ERROR_RSP |-> processStatusErrorRsp,
    MT_ZDO_SRC_RTG_IND |-> processSrcRtgInd,
    MT_ZDO_BEACON_NOTIFY_IND |-> processBeaconNotifyInd,
    MT_ZDO_JOIN_CNF |-> processJoinCnf,
    MT_ZDO_NWK_DISCOVERY_CNF |-> processNwkDiscoveryCnf,
    MT_ZDO_LEAVE_IND |-> processLeaveInd,
    MT_ZDO_MSG_CB_INCOMING |-> processMsgCbIncoming]

\* The callbacks an application may register, in the structure's order.
mtZdoCb_t == <<"pfnZdoNwkAddrRsp", "pfnZdoIeeeAddrRsp", "pfnZdoNodeDescRsp",
    "pfnZdoPowerDescRsp", "pfnZdoSimpleDescRsp", "pfnZdoActiveEpRsp",
    "pfnZdoMatchDescRsp", "pfnZdoComplexDescRsp", "pfnZdoUserDescRsp",
    "pfnZdoUserDescConf", "pfnZdoServerDiscRsp", "pfnZdoEndDeviceBindRsp",
    "pfnZdoBindRsp", "pfnZdoUnbindRsp", "pfnZdoMgmtNwkDiscRsp",
    "pfnZdoMgmtLqiRsp", "pfnZdoMgmtRtgRsp", "pfnZdoMgmtBindRsp",
    "pfnZdoMgmtLeaveRsp", "pfnZdoMgmtDirectJoinRsp", "pfnZdoMgmtPermitJoinRsp",
    "pfnmtZdoStateChangeInd", "pfnZdoEndDeviceAnnceInd", "pfnZdoSrcRtgInd",
    "pfnZdoBeaconNotifyInd", "pfnZdoJoinCnf", "pfnZdoNwkDiscoveryCnf",
    "pfnZdoConcentratorInd", "pfnZdoLeaveInd", "pfnZdoStatusErrorRsp",
    "pfnZdoMatchDescRspSent", "pfnZdoMsgCbIncoming", "pfnZdoGetLinkKey">>

\* What the radio sends, by the header: external to this code.
SocSrsp == [MT_ZDO_GET_LINK_KEY |-> GetLinkKeySrspFormat_t]
SocAreq == [MT_ZDO_STATE_CHANGE_IND |-> StateChangeInd,
    MT_ZDO_NWK_ADDR_RSP |-> NwkAddrRspFormat_t,
    MT_ZDO_IEEE_ADDR_RSP |-> IeeeAddrRspFormat_t,
    MT_ZDO_NODE_DESC_RSP |-> NodeDescRspFormat_t,
    MT_ZDO_POWER_DESC_RSP |-> PowerDescRspFormat_t,
    MT_ZDO_SIMPLE_DESC_RSP |-> SimpleDescRspFormat_t,
    MT_ZDO_ACTIVE_EP_RSP |-> ActiveEpRspFormat_t,
    MT_ZDO_MATCH_DESC_RSP |-> MatchDescRspFormat_t,
    MT_ZDO_COMPLEX_DESC_RSP |-> ComplexDescRspFormat_t,
    MT_ZDO_USER_DESC_RSP |-> UserDescRspFormat_t,
    MT_ZDO_USER_DESC_CONF |-> UserDescConfFormat_t,
    MT_ZDO_SERVER_DISC_RSP |-> ServerDiscRspFormat_t,
    MT_ZDO_END_DEVICE_BIND_RSP |-> EndDeviceBindRspFormat_t,
    MT_ZDO_BIND_RSP |-> BindRspFormat_t,
    MT_ZDO_UNBIND_RSP |-> UnbindRspFormat_t,
    MT_ZDO_MGMT_NWK_DISC_RSP |-> MgmtNwkDiscRspFormat_t,
    MT_ZDO_MGMT_LQI_RSP |-> MgmtLqiRspFormat_t,
    MT_ZDO_MGMT_RTG_RSP |-> MgmtRtgRspFormat_t,
    MT_ZDO_MGMT_BIND_RSP |-> MgmtBindRspFormat_t,
    MT_ZDO_MGMT_LEAVE_RSP |-> MgmtLeaveRspFormat_t,
    MT_ZDO_MGMT_DIRECT_JOIN_RSP |-> MgmtDirectJoinRspFormat_t,
    MT_ZDO_MGMT_PERMIT_JOIN_RSP |-> MgmtPermitJoinRspFormat_t,
    MT_ZDO_END_DEVICE_ANNCE_IND |-> EndDeviceAnnceIndFormat_t,
    MT_ZDO_MATCH_DESC_RSP_SENT |-> MatchDescRspSentFormat_t,
    MT_ZDO_STATUS_ERROR_RSP |-> StatusErrorRspFormat_t,
    MT_ZDO_SRC_RTG_IND |-> SrcRtgIndFormat_t,
    MT_ZDO_BEACON_NOTIFY_IND |-> BeaconNotifyIndFormat_t,
    MT_ZDO_JOIN_CNF |-> JoinCnfFormat_t,
    MT_ZDO_NWK_DISCOVERY_CNF |-> NwkDiscoveryCnfFormat_t,
    MT_ZDO_LEAVE_IND |-> LeaveIndFormat_t,
    MT_ZDO_MSG_CB_INCOMING |-> MsgCbIncomingFormat_t]
================================================================================
