------------------------------ MODULE AppCallbacks -----------------------------
(***************************************************************************)
(* The callbacks of the Linux application, linux_example/appinit.c: what each*)
(* prints of the structure it is given, always or only when its Status is  *)
(* success (otherwise the Status alone), a set of fields and the lists with*)
(* the field that counts the elements printed.  The tables list them in the*)
(* order of the members of the framework's callback structures.            *)
(***************************************************************************)
EXTENDS Layout

mtSysPingSrspCb == Always({"Capabilities"}, << >>)
mtSysGetExtAddrSrspCb == Always({"ExtAddr"}, << >>)
mtSysRamReadSrspCb == OnSuccess({"Status", "Len"}, [Value |-> "Len"])
mtSysResetIndCb == Always({"MajorRel", "MinorRel", "HwRev"}, << >>)
mtSysVersionSrspCb == Always({"TransportRev", "Product", "MajorRel",
    "MinorRel", "MaintRel"}, << >>)
mtSysOsalNvReadSrspCb == OnSuccess({"Status", "Len"}, [Value |-> "Len"])
mtSysOsalNvLengthSrspCb == Always({"ItemLen"}, << >>)
mtSysOsalTimerExpiredCb == Always({"Id"}, << >>)
mtSysStackTuneSrspCb == Always({"Value"}, << >>)
mtSysAdcReadSrspCb == Always({"Value"}, << >>)
mtSysGpioSrspCb == Always({"Value"}, << >>)
mtSysRandomSrspCb == Always({"Value"}, << >>)
mtSysGetTimeSrspCb == Always({"UTCTime", "Hour", "Minute", "Second", "Month",
    "Day", "Year"}, << >>)
mtSysSetTxPowerSrspCb == Always({"TxPower"}, << >>)
mtZdoStateChangeIndCb == Always({"State"}, << >>)
mtZdoGetLinkKeyCb == OnSuccess({"Status", "IEEEAddr"}, << >>)
mtZdoNwkAddrRspCb == OnSuccess({"Status", "IEEEAddr", "NwkAddr", "StartIndex",
    "NumAssocDev"}, [AssocDevList |-> "NumAssocDev"])
mtZdoIeeeAddrRspCb == OnSuccess({"Status", "IEEEAddr", "NwkAddr", "StartIndex",
    "NumAssocDev"}, [AssocDevList |-> "NumAssocDev"])
mtZdoNodeDescRspCb == OnSuccess({"SrcAddr", "Status", "NwkAddr",
    "LoTy_ComDescAv_UsrDesAv", "APSFlg_FrqBnd", "MACCapFlg",
    "ManufacturerCode", "MaxBufferSize", "MaxTransferSize", "ServerMask",
    "MaxOutTransferSize", "DescriptorCapabilities"}, << >>)
mtZdoPowerDescRspCb == OnSuccess({"SrcAddr", "Status", "NwkAddr",
    "CurrntPwrMode_AvalPwrSrcs", "CurrntPwrSrc_CurrntPwrSrcLvl"}, << >>)
mtZdoSimpleDescRspCb == OnSuccess({"SrcAddr", "Status", "NwkAddr", "Len",
    "Endpoint", "ProfileID", "DeviceID", "DeviceVersion", "NumInClusters",
    "NumOutClusters"},
    [InClusterList |-> "NumInClusters", OutClusterList |-> "NumOutClusters"])
mtZdoActiveEpRspCb == OnSuccess({"SrcAddr", "Status", "NwkAddr",
    "ActiveEPCount"}, [ActiveEPList |-> "ActiveEPCount"])
mtZdoMatchDescRspCb == OnSuccess({"SrcAddr", "Status", "NwkAddr",
    "MatchLength"}, [MatchList |-> "MatchLength"])
mtZdoComplexDescRspCb == Always({"SrcAddr", "Status", "NwkAddr",
    "ComplexLength"}, [ComplexList |-> "ComplexLength"])
mtZdoUserDescRspCb == OnSuccess({"SrcAddr", "Status", "NwkAddr",
    "Len"}, [CUserDescriptor |-> "Len"])
mtZdoUserDescConfCb == OnSuccess({"SrcAddr", "Status", "NwkAddr"}, << >>)
mtZdoServerDiscRspCb == OnSuccess({"SrcAddr", "Status", "ServerMask"}, << >>)
mtZdoEndDeviceBindRspCb == OnSuccess({"SrcAddr", "Status"}, << >>)
mtZdoBindRspCb == OnSuccess({"SrcAddr", "Status"}, << >>)
mtZdoUnbindRspCb == OnSuccess({"SrcAddr", "Status"}, << >>)
mtZdoMgmtNwkDiscRspCb == OnSuccess({"SrcAddr", "Status", "NetworkCount",
    "StartIndex", "NetworkListCount"}, [NetworkList |-> "NetworkListCount"])
mtZdoMgmtLqiRspCb == OnSuccess({"SrcAddr", "Status", "NeighborTableEntries",
    "StartIndex",
    "NeighborLqiListCount"}, [NeighborLqiList |-> "NeighborLqiListCount"])
mtZdoMgmtRtgRspCb == OnSuccess({"SrcAddr", "Status", "RoutingTableEntries",
    "StartIndex",
    "RoutingTableListCount"}, [RoutingTableList |-> "RoutingTableListCount"])
mtZdoMgmtBindRspCb == OnSuccess({"SrcAddr", "Status", "BindingTableEntries",
    "StartIndex",
    "BindingTableListCount"}, [BindingTableList |-> "BindingTableListCount"])
mtZdoMgmtLeaveRspCb == OnSuccess({"SrcAddr", "Status"}, << >>)
mtZdoMgmtDirectJoinRspCb == OnSuccess({"SrcAddr", "Status"}, << >>)
mtZdoMgmtPermitJoinRspCb == OnSuccess({"SrcAddr", "Status"}, << >>)
mtZdoEndDeviceAnnceIndCb == Always({"SrcAddr", "NwkAddr", "IEEEAddr",
    "Capabilities"}, << >>)
mtZdoMatchDescRspSentCb == Always({"NwkAddr", "NumInClusters",
    "NumOutClusters"},
    [InClusterList |-> "NumInClusters", OutClusterList |-> "NumOutClusters"])
mtZdoStatusErrorRspCb == OnSuccess({"SrcAddr", "Status"}, << >>)
mtZdoSrcRtgIndCb == Always({"DstAddr",
    "RelayCount"}, [RelayList |-> "RelayCount"])
mtZdoBeaconNotifyIndCb == Always({
    "BeaconCount"}, [BeaconList |-> "BeaconCount"])
mtZdoJoinCnfCb == OnSuccess({"Status", "DevAddr", "ParentAddr"}, << >>)
mtZdoNwkDiscoveryCnfCb == OnSuccess({"Status"}, << >>)
mtZdoLeaveIndCb == Always({"SrcAddr", "ExtAddr", "Request", "Remove",
    "Rejoin"}, << >>)
mtZdoMsgCbIncomingCb == Always({"SrcAddr", "WasBroadcast", "ClusterID",
    "SecurityUse", "SeqNum", "MacDstAddr", "Status", "ExtAddr",
    "NwkAddr"}, << >>)
mtAfDataConfirmCb == OnSuccess({"Status", "Endpoint", "TransId"}, << >>)
mtAfIncomingMsgCb == Always({"GroupId", "ClusterId", "SrcAddr", "SrcEndpoint",
    "DstEndpoint", "WasVroadcast", "LinkQuality", "SecurityUse", "TimeStamp",
    "TransSeqNum", "Len"}, [Data |-> "Len"])
mtAfIncomingMsgExt == Always({"GroupId", "ClusterId", "SrcAddrMode", "SrcAddr",
    "SrcEndpoint", "SrcPanId", "DstEndpoint", "WasVroadcast", "LinkQuality",
    "SecurityUse", "TimeStamp", "TransSeqNum", "Len"}, [Data |-> "Len"])
mtAfDataRetrieveSrspCb == OnSuccess({"Status", "Length"}, [Data |-> "Length"])
mtAfReflectErrorCb == OnSuccess({"Status", "Endpoint", "TransId",
    "DstAddrMode", "DstAddr"}, << >>)
mtSapiReadConfigurationSrspCb == OnSuccess({"Status", "ConfigId",
    "Len"}, [Value |-> "Len"])
mtSapiGetDeviceInfoSrspCb == Always({"Param", "Value"}, << >>)
mtSapiFindDeviceCnfCb == Always({"SearchKey", "Result"}, << >>)
mtSapiSendDataCnfCb == OnSuccess({"Handle", "Status"}, << >>)
mtSapiReceiveDataIndCb == Always({"Source", "Command",
    "Len"}, [Data |-> "Len"])
mtSapiAllowBindCnfCb == Always({"Source"}, << >>)
mtSapiBindCnfCb == OnSuccess({"CommandId", "Status"}, << >>)
mtSapiStartCnfCb == OnSuccess({"Status"}, << >>)

--------------------------------------------------------------------------------
\* The tables that appInit registers.
mtSysCb == <<mtSysPingSrspCb, mtSysGetExtAddrSrspCb, mtSysRamReadSrspCb,
    mtSysResetIndCb, mtSysVersionSrspCb, mtSysOsalNvReadSrspCb,
    mtSysOsalNvLengthSrspCb, mtSysOsalTimerExpiredCb, mtSysStackTuneSrspCb,
    mtSysAdcReadSrspCb, mtSysGpioSrspCb, mtSysRandomSrspCb, mtSysGetTimeSrspCb,
    mtSysSetTxPowerSrspCb>>
mtZdoCb == <<mtZdoNwkAddrRspCb, mtZdoIeeeAddrRspCb, mtZdoNodeDescRspCb,
    mtZdoPowerDescRspCb, mtZdoSimpleDescRspCb, mtZdoActiveEpRspCb,
    mtZdoMatchDescRspCb, mtZdoComplexDescRspCb, mtZdoUserDescRspCb,
    mtZdoUserDescConfCb, mtZdoServerDiscRspCb, mtZdoEndDeviceBindRspCb,
    mtZdoBindRspCb, mtZdoUnbindRspCb, mtZdoMgmtNwkDiscRspCb, mtZdoMgmtLqiRspCb,
    mtZdoMgmtRtgRspCb, mtZdoMgmtBindRspCb, mtZdoMgmtLeaveRspCb,
    mtZdoMgmtDirectJoinRspCb, mtZdoMgmtPermitJoinRspCb, mtZdoStateChangeIndCb,
    mtZdoEndDeviceAnnceIndCb, mtZdoSrcRtgIndCb, mtZdoBeaconNotifyIndCb,
    mtZdoJoinCnfCb, mtZdoNwkDiscoveryCnfCb, NULL, mtZdoLeaveIndCb,
    mtZdoStatusErrorRspCb, mtZdoMatchDescRspSentCb, mtZdoMsgCbIncomingCb,
    mtZdoGetLinkKeyCb>>
mtAfCb == <<mtAfDataConfirmCb, mtAfIncomingMsgCb, mtAfIncomingMsgExt,
    mtAfDataRetrieveSrspCb, mtAfReflectErrorCb>>
mtSapiCb == <<mtSapiReadConfigurationSrspCb, mtSapiGetDeviceInfoSrspCb,
    mtSapiFindDeviceCnfCb, mtSapiSendDataCnfCb, mtSapiReceiveDataIndCb,
    mtSapiAllowBindCnfCb, mtSapiBindCnfCb, mtSapiStartCnfCb>>
================================================================================
