-------------------------------- MODULE CmdLine --------------------------------
(***************************************************************************)
(* The commands of the command line example, examples/cmdLine: the         *)
(* attributes it asks for, each with its size and, for a list, the number of*)
(* elements it makes room for; and the function that sendCmd calls.        *)
(***************************************************************************)
EXTENDS Layout

Sys == INSTANCE MtSys
Af == INSTANCE MtAf
Sapi == INSTANCE MtSapi
Zdo == INSTANCE MtZdo

Att(name, size) == [name |-> name, size |-> size, isList |-> 0]
Atts(name, size, max) == [name |-> name, size |-> size, isList |-> max]

SYS_PING == <<>>
SYS_SET_EXTADDR == <<Att("ExtAddr", 8)>>
SYS_GET_EXTADDR == <<>>
SYS_RAM_READ == <<Att("Address", 2), Att("Len", 1)>>
SYS_RAM_WRITE == <<Att("Address", 2), Att("Len", 1), Atts("Value", 1, 128)>>
SYS_RESET_REQ == <<Att("Type", 1)>>
SYS_VERSION == <<>>
SYS_OSAL_NV_READ == <<Att("Id", 2), Att("Offset", 1)>>
SYS_OSAL_NV_WRITE == <<Att("Id", 2), Att("Offset", 1), Att("Len", 1),
    Atts("Value", 1, 246)>>
SYS_OSAL_NV_ITEM_INIT == <<Att("Id", 2), Att("ItemLen", 2), Att("InitLen", 1),
    Atts("InitData", 1, 245)>>
SYS_OSAL_NV_DELETE == <<Att("Id", 2), Att("ItemLen", 2)>>
SYS_OSAL_NV_LENGTH == <<Att("Id", 2)>>
SYS_OSAL_START_TIMER == <<Att("Id", 1), Att("Timeout", 2)>>
SYS_OSAL_STOP_TIMER == <<Att("Id", 1)>>
SYS_STACK_TUNE == <<Att("Operation", 1), Att("Value", 1)>>
SYS_ADC_READ == <<Att("Channel", 1), Att("Resolution", 1)>>
SYS_GPIO == <<Att("Operation", 1), Att("Value", 1)>>
SYS_RANDOM == <<>>
SYS_SET_TIME == <<Att("UTCTime", 4), Att("Hour", 1), Att("Minute", 1),
    Att("Second", 1), Att("Month", 1), Att("Day", 1), Att("Year", 2)>>
SYS_GET_TIME == <<>>
SYS_SET_TX_POWER == <<Att("TxPower", 1)>>
AF_REGISTER == <<Att("EndPoint", 1), Att("AppProfId", 2),
    Att("AppDeviceId", 2), Att("AppDevVer", 1), Att("LatencyReq", 1),
    Att("AppNumInClusters", 1), Atts("AppInClusterList", 2, 16),
    Att("AppNumOutClusters", 1), Atts("AppOutClusterList", 2, 16)>>
AF_DATA_REQUEST == <<Att("DstAddr", 2), Att("DstEndpoint", 1),
    Att("SrcEndpoint", 1), Att("ClusterID", 2), Att("TransID", 1),
    Att("Options", 1), Att("Radius", 1), Att("Len", 1), Atts("Data", 1, 128)>>
AF_DATA_REQUEST_EXT == <<Att("DstAddrMode", 1), Att("DstAddr", 8),
    Att("DstEndpoint", 1), Att("DstPanID", 2), Att("SrcEndpoint", 1),
    Att("ClusterId", 2), Att("TransId", 1), Att("Options", 1),
    Att("Radius", 1), Att("Len", 2), Atts("Data", 1, 230)>>
AF_DATA_REQUEST_SRC_RTG == <<Att("DstAddr", 2), Att("DstEndpoint", 1),
    Att("SrcEndpoint", 1), Att("ClusterID", 2), Att("TransID", 1),
    Att("Options", 1), Att("Radius", 1), Att("RelayCount", 1),
    Atts("RelayList", 2, 255), Att("Len", 1), Atts("Data", 1, 128)>>
AF_INTER_PAN_CTL == <<Att("Command", 1), Atts("Data", 1, 3)>>
AF_DATA_STORE == <<Att("Index", 2), Att("Length", 1), Atts("Data", 1, 247)>>
AF_DATA_RETRIEVE == <<Att("TimeStamp", 4), Att("Index", 2), Att("Length", 1)>>
AF_APSF_CONFIG_SET == <<Att("Endpoint", 1), Att("FrameDelay", 1),
    Att("WindowSize", 1)>>
ZDO_NWK_ADDR_REQ == <<Att("IEEEAddress", 8), Att("ReqType", 1),
    Att("StartIndex", 1)>>
ZDO_IEEE_ADDR_REQ == <<Att("ShortAddr", 2), Att("ReqType", 1),
    Att("StartIndex", 1)>>
ZDO_NODE_DESC_REQ == <<Att("DstAddr", 2), Att("NwkAddrOfInterest", 2)>>
ZDO_POWER_DESC_REQ == <<Att("DstAddr", 2), Att("NwkAddrOfInterest", 2)>>
ZDO_SIMPLE_DESC_REQ == <<Att("DstAddr", 2), Att("NwkAddrOfInterest", 2),
    Att("Endpoint", 1)>>
ZDO_ACTIVE_EP_REQ == <<Att("DstAddr", 2), Att("NwkAddrOfInterest", 2)>>
ZDO_MATCH_DESC_REQ == <<Att("DstAddr", 2), Att("NwkAddrOfInterest", 2),
    Att("ProfileID", 2), Att("NumInClusters", 1), Atts("InClusterList", 2, 16),
    Att("NumOutClusters", 1), Atts("OutClusterList", 2, 16)>>
ZDO_COMPLEX_DESC_REQ == <<Att("DstAddr", 2), Att("NwkAddrOfInterest", 2)>>
ZDO_USER_DESC_REQ == <<Att("DstAddr", 2), Att("NwkAddrOfInterest", 2)>>
ZDO_DEVICE_ANNCE == <<Att("NWKAddr", 2), Att("IEEEAddr", 8),
    Att("Capabilities", 1)>>
ZDO_USER_DESC_SET == <<Att("DstAddr", 2), Att("NwkAddrOfInterest", 2),
    Att("Len", 1), Atts("UserDescriptor", 1, 16)>>
ZDO_SERVER_DISC_REQ == <<Att("ServerMask", 2)>>
ZDO_END_DEVICE_BIND_REQ == <<Att("DstAddr", 2), Att("LocalCoordinator", 2),
    Att("CoordinatorIEEE", 8), Att("EndPoint", 1), Att("ProfileID", 2),
    Att("NumInClusters", 1), Atts("InClusterList", 2, 16),
    Att("NumOutClusters", 1), Atts("OutClusterList", 2, 16)>>
ZDO_BIND_REQ == <<Att("DstAddr", 2), Att("SrcAddress", 8),
    Att("SrcEndpoint", 1), Att("ClusterID", 2), Att("DstAddrMode", 1),
    Att("DstAddress", 8), Att("DstEndpoint", 1)>>
ZDO_UNBIND_REQ == <<Att("DstAddr", 2), Att("SrcAddress", 8),
    Att("SrcEndpoint", 1), Att("ClusterID", 2), Att("DstAddrMode", 1),
    Att("DstAddress", 8), Att("DstEndpoint", 1)>>
ZDO_MGMT_NWK_DISC_REQ == <<Att("DstAddr", 2), Att("ScanChannels", 4),
    Att("ScanDuration", 1), Att("StartIndex", 1)>>
ZDO_MGMT_LQI_REQ == <<Att("DstAddr", 2), Att("StartIndex", 1)>>
ZDO_MGMT_RTG_REQ == <<Att("DstAddr", 2), Att("StartIndex", 1)>>
ZDO_MGMT_BIND_REQ == <<Att("DstAddr", 2), Att("StartIndex", 1)>>
ZDO_MGMT_LEAVE_REQ == <<Att("DstAddr", 2), Att("DeviceAddr", 8),
    Att("RemoveChildre_Rejoin", 1)>>
ZDO_MGMT_DIRECT_JOIN_REQ == <<Att("DstAddr", 2), Att("DeviceAddr", 8),
    Att("CapInfo", 1)>>
ZDO_MGMT_PERMIT_JOIN_REQ == <<Att("AddrMode", 1), Att("DstAddr", 2),
    Att("Duration", 1), Att("TCSignificance", 1)>>
ZDO_MGMT_NWK_UPDATE_REQ == <<Att("DstAddr", 2), Att("DstAddrMode", 1),
    Att("ChannelMask", 4), Att("ScanDuration", 1), Att("ScanCount", 1),
    Att("NwkManagerAddr", 2)>>
ZDO_STARTUP_FROM_APP == <<Att("StartDelay", 2)>>
ZDO_AUTO_FIND_DESTINATION == <<Att("Endpoint", 1)>>
ZDO_SET_LINK_KEY == <<Att("ShortAddr", 2), Att("IEEEaddr", 8),
    Att("LinkKeyData", 16)>>
ZDO_REMOVE_LINK_KEY == <<Att("IEEEaddr", 8)>>
ZDO_GET_LINK_KEY == <<Att("IEEEaddr", 8)>>
ZDO_NWK_DISCOVERY_REQ == <<Att("ScanChannels", 4), Att("ScanDuration", 1)>>
ZDO_JOIN_REQ == <<Att("LogicalChannel", 1), Att("PanID", 2),
    Att("ExtendedPanID", 8), Att("ChosenParent", 2), Att("ParentDepth", 1),
    Att("StackProfile", 1)>>
ZDO_MSG_CB_REGISTER == <<Att("ClusterID", 2)>>
ZDO_MSG_CB_REMOVE == <<Att("ClusterID", 2)>>
ZB_SYSTEM_RESET == <<>>
ZB_APP_REGISTER_REQ == <<Att("AppEndpoint", 1), Att("AppProfileId", 2),
    Att("DeviceId", 2), Att("DeviceVersion", 1), Att("Unused", 1),
    Att("InputCommandsNum", 1), Atts("InputCommandsList", 2, 255),
    Att("OutputCommandsNum", 1), Atts("OutputCommandsList", 2, 255)>>
ZB_START_REQ == <<>>
ZB_PERMIT_JOINING_REQ == <<Att("Destination", 2), Att("Timeout", 1)>>
ZB_BIND_DEVICE == <<Att("Create", 1), Att("CommandId", 2), Att("DstIeee", 8)>>
ZB_ALLOW_BIND == <<Att("Timeout", 1)>>
ZB_SEND_DATA_REQ == <<Att("Destination", 2), Att("CommandId", 2),
    Att("Handle", 1), Att("Ack", 1), Att("Radius", 1), Att("Len", 1),
    Atts("Data", 1, 99)>>
ZB_FIND_DEVICE_REQ == <<Att("SearchKey", 8)>>
ZB_WRITE_CONFIGURATION == <<Att("ConfigId", 1), Att("Len", 1),
    Atts("Value", 1, 128)>>
ZB_GET_DEVICE_INFO == <<Att("Param", 1)>>
ZB_READ_CONFIGURATION == <<Att("ConfigId", 1)>>

--------------------------------------------------------------------------------
\* The commands in the order of their indices, from 0.
commands == <<SYS_PING, SYS_SET_EXTADDR, SYS_GET_EXTADDR, SYS_RAM_READ,
    SYS_RAM_WRITE, SYS_RESET_REQ, SYS_VERSION, SYS_OSAL_NV_READ,
    SYS_OSAL_NV_WRITE, SYS_OSAL_NV_ITEM_INIT, SYS_OSAL_NV_DELETE,
    SYS_OSAL_NV_LENGTH, SYS_OSAL_START_TIMER, SYS_OSAL_STOP_TIMER,
    SYS_STACK_TUNE, SYS_ADC_READ, SYS_GPIO, SYS_RANDOM, SYS_SET_TIME,
    SYS_GET_TIME, SYS_SET_TX_POWER, AF_REGISTER, AF_DATA_REQUEST,
    AF_DATA_REQUEST_EXT, AF_DATA_REQUEST_SRC_RTG, AF_INTER_PAN_CTL,
    AF_DATA_STORE, AF_DATA_RETRIEVE, AF_APSF_CONFIG_SET, ZDO_NWK_ADDR_REQ,
    ZDO_IEEE_ADDR_REQ, ZDO_NODE_DESC_REQ, ZDO_POWER_DESC_REQ,
    ZDO_SIMPLE_DESC_REQ, ZDO_ACTIVE_EP_REQ, ZDO_MATCH_DESC_REQ,
    ZDO_COMPLEX_DESC_REQ, ZDO_USER_DESC_REQ, ZDO_DEVICE_ANNCE,
    ZDO_USER_DESC_SET, ZDO_SERVER_DISC_REQ, ZDO_END_DEVICE_BIND_REQ,
    ZDO_BIND_REQ, ZDO_UNBIND_REQ, ZDO_MGMT_NWK_DISC_REQ, ZDO_MGMT_LQI_REQ,
    ZDO_MGMT_RTG_REQ, ZDO_MGMT_BIND_REQ, ZDO_MGMT_LEAVE_REQ,
    ZDO_MGMT_DIRECT_JOIN_REQ, ZDO_MGMT_PERMIT_JOIN_REQ,
    ZDO_MGMT_NWK_UPDATE_REQ, ZDO_STARTUP_FROM_APP, ZDO_AUTO_FIND_DESTINATION,
    ZDO_SET_LINK_KEY, ZDO_REMOVE_LINK_KEY, ZDO_GET_LINK_KEY,
    ZDO_NWK_DISCOVERY_REQ, ZDO_JOIN_REQ, ZDO_MSG_CB_REGISTER,
    ZDO_MSG_CB_REMOVE, ZB_SYSTEM_RESET, ZB_APP_REGISTER_REQ, ZB_START_REQ,
    ZB_PERMIT_JOINING_REQ, ZB_BIND_DEVICE, ZB_ALLOW_BIND, ZB_SEND_DATA_REQ,
    ZB_FIND_DEVICE_REQ, ZB_WRITE_CONFIGURATION, ZB_GET_DEVICE_INFO,
    ZB_READ_CONFIGURATION>>

\* What sendCmd calls for an index, by subsystem.
sysCases == <<Sys!sysPing, Sys!sysSetExtAddr, Sys!sysGetExtAddr,
    Sys!sysRamRead, Sys!sysRamWrite, Sys!sysResetReq, Sys!sysVersion,
    Sys!sysOsalNvRead, Sys!sysOsalNvWrite, Sys!sysOsalNvItemInit,
    Sys!sysOsalNvDelete, Sys!sysOsalNvLength, Sys!sysOsalStartTimer,
    Sys!sysOsalStopTimer, Sys!sysStackTune, Sys!sysAdcRead, Sys!sysGpio,
    Sys!sysRandom, Sys!sysSetTime, Sys!sysGetTime, Sys!sysSetTxPower>>
afCases == <<Af!afRegister, Af!afDataRequest, Af!afDataRequestExt,
    Af!afDataRequestSrcRtg, Af!afInterPanCtl, Af!afDataStore,
    Af!afDataRetrieve, Af!afApsfConfigSet>>
zdoCases == <<Zdo!zdoNwkAddrReq, Zdo!zdoIeeeAddrReq, Zdo!zdoNodeDescReq,
    Zdo!zdoPowerDescReq, Zdo!zdoSimpleDescReq, Zdo!zdoActiveEpReq,
    Zdo!zdoMatchDescReq, Zdo!zdoComplexDescReq, Zdo!zdoUserDescReq,
    Zdo!zdoDeviceAnnce, Zdo!zdoUserDescSet, Zdo!zdoServerDiscReq,
    Zdo!zdoEndDeviceBindReq, Zdo!zdoBindReq, Zdo!zdoUnbindReq,
    Zdo!zdoMgmtNwkDiscReq, Zdo!zdoMgmtLqiReq, Zdo!zdoMgmtRtgReq,
    Zdo!zdoMgmtBindReq, Zdo!zdoMgmtLeaveReq, Zdo!zdoMgmtDirectJoinReq,
    Zdo!zdoMgmtPermitJoinReq, Zdo!zdoMgmtNwkUpdateReq, Zdo!zdoStartupFromApp,
    Zdo!zdoAutoFindDestination, Zdo!zdoSetLinkKey, Zdo!zdoRemoveLinkKey,
    Zdo!zdoGetLinkKey, Zdo!zdoNwkDiscoveryReq, Zdo!zdoJoinReq,
    Zdo!zdoMsgCbRegister, Zdo!zdoMsgCbRemove>>
zbCases == <<Sapi!zbSystemReset, Sapi!zbAppRegisterReq, Sapi!zbStartReq,
    Sapi!zbPermitJoiningReq, Sapi!zbBindDevice, Sapi!zbAllowBind,
    Sapi!zbSendDataReq, Sapi!zbFindDeviceReq, Sapi!zbWriteConfiguration,
    Sapi!zbGetDeviceInfo, Sapi!zbReadConfiguration>>
sendCmd == sysCases \o afCases \o zdoCases \o zbCases
================================================================================
