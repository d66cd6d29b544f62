---------------------------------- MODULE MtAf ---------------------------------
(***************************************************************************)
(* The application framework commands of the MT interface,                 *)
(* framework/mt/Af: requests, responses, and the dispatch of what the      *)
(* radio sends.                                                            *)
(***************************************************************************)
EXTENDS Layout

\* The command identifiers, the second byte of a message.
Ids == [MT_AF_REGISTER |-> \h00, MT_AF_DATA_REQUEST |-> \h01,
        MT_AF_DATA_REQUEST_EXT |-> \h02, MT_AF_DATA_REQUEST_SRC_RTG |-> \h03,
        MT_AF_INTER_PAN_CTL |-> \h10, MT_AF_DATA_STORE |-> \h11,
        MT_AF_DATA_RETRIEVE |-> \h12, MT_AF_APSF_CONFIG_SET |-> \h13,
        MT_AF_DATA_CONFIRM |-> \h80, MT_AF_INCOMING_MSG |-> \h81,
        MT_AF_INCOMING_MSG_EXT |-> \h82, MT_AF_REFLECT_ERROR |-> \h83]

--------------------------------------------------------------------------------
(* The structures the application and the framework exchange.                *)
RegisterFormat_t == <<U8("EndPoint"), U16("AppProfId"), U16("AppDeviceId"),
    U8("AppDevVer"), U8("LatencyReq"), U8("AppNumInClusters"),
    List("AppInClusterList", Num(2), 16), U8("AppNumOutClusters"),
    List("AppOutClusterList", Num(2), 16)>>
DataRequestFormat_t == <<U16("DstAddr"), U8("DstEndpoint"), U8("SrcEndpoint"),
    U16("ClusterID"), U8("TransID"), U8("Options"), U8("Radius"), U8("Len"),
    List("Data", Num(1), 128)>>
DataRequestExtFormat_t == <<U8("DstAddrMode"), Array("DstAddr", 8),
    U8("DstEndpoint"), U16("DstPanID"), U8("SrcEndpoint"), U16("ClusterId"),
    U8("TransId"), U8("Options"), U8("Radius"), U16("Len"),
    List("Data", Num(1), 230)>>
DataRequestSrcRtgFormat_t == <<U16("DstAddr"), U8("DstEndpoint"),
    U8("SrcEndpoint"), U16("ClusterID"), U8("TransID"), U8("Options"),
    U8("Radius"), U8("RelayCount"), List("RelayList", Num(2), 255), U8("Len"),
    List("Data", Num(1), 128)>>
InterPanCtlFormat_t == <<U8("Command"), List("Data", Num(1), 3)>>
DataStoreFormat_t == <<U16("Index"), U8("Length"), List("Data", Num(1), 247)>>
DataConfirmFormat_t == <<U8("Status"), U8("Endpoint"), U8("TransId")>>
IncomingMsgFormat_t == <<U16("GroupId"), U16("ClusterId"), U16("SrcAddr"),
    U8("SrcEndpoint"), U8("DstEndpoint"), U8("WasVroadcast"),
    U8("LinkQuality"), U8("SecurityUse"), U32("TimeStamp"), U8("TransSeqNum"),
    U8("Len"), List("Data", Num(1), 99)>>
IncomingMsgExtFormat_t == <<U16("GroupId"), U16("ClusterId"),
    U8("SrcAddrMode"), U64("SrcAddr"), U8("SrcEndpoint"), U16("SrcPanId"),
    U8("DstEndpoint"), U8("WasVroadcast"), U8("LinkQuality"),
    U8("SecurityUse"), U32("TimeStamp"), U8("TransSeqNum"), U8("Len"),
    List("Data", Num(1), 99)>>
DataRetrieveFormat_t == <<Array("TimeStamp", 4), U16("Index"), U8("Length")>>
DataRetrieveSrspFormat_t == <<U8("Status"), U8("Length"),
    List("Data", Num(1), 248)>>
ApsfConfigSetFormat_t == <<U8("Endpoint"), U8("FrameDelay"), U8("WindowSize")>>
ReflectErrorFormat_t == <<U8("Status"), U8("Endpoint"), U8("TransId"),
    U8("DstAddrMode"), U16("DstAddr")>>

--------------------------------------------------------------------------------
(* Requests: what each function writes of its structure, how many bytes it   *)
(* declares, and which command it sends them as.                             *)
afRegister == SReq("MT_AF_REGISTER", RegisterFormat_t,
         <<Byte("EndPoint"), Word("AppProfId"), Word("AppDeviceId"),
           Byte("AppDevVer"), Byte("LatencyReq"), Byte("AppNumInClusters"),
           Loop("AppInClusterList", Num(2), "AppNumInClusters"),
           Byte("AppNumOutClusters"),
           Loop("AppOutClusterList", Num(2), "AppNumOutClusters")>>,
         9, [AppNumInClusters |-> 2, AppNumOutClusters |-> 2])
afDataRequest == SReq("MT_AF_DATA_REQUEST", DataRequestFormat_t,
         <<Word("DstAddr"), Byte("DstEndpoint"), Byte("SrcEndpoint"),
           Word("ClusterID"), Byte("TransID"), Byte("Options"), Byte("Radius"),
           Byte("Len"), Loop("Data", Num(1), "Len")>>, 10, [Len |-> 1])
afDataRequestExt == SReq("MT_AF_DATA_REQUEST_EXT", DataRequestExtFormat_t,
         <<Byte("DstAddrMode"), Copy("DstAddr", 8), Byte("DstEndpoint"),
           Word("DstPanID"), Byte("SrcEndpoint"), Word("ClusterId"),
           Byte("TransId"), Byte("Options"), Byte("Radius"), Word("Len"),
           Loop("Data", Num(1), "Len")>>, 20, [Len |-> 1])
afDataRequestSrcRtg ==
    SReq("MT_AF_DATA_REQUEST_SRC_RTG", DataRequestSrcRtgFormat_t,
         <<Word("DstAddr"), Byte("DstEndpoint"), Byte("SrcEndpoint"),
           Word("ClusterID"), Byte("TransID"), Byte("Options"), Byte("Radius"),
           Byte("RelayCount"), Loop("RelayList", Num(2), "RelayCount"),
           Byte("Len"),
           Loop("Data", Num(1), "Len")>>, 11, [RelayCount |-> 2, Len |-> 1])
afInterPanCtl == SReq("MT_AF_INTER_PAN_CTL", InterPanCtlFormat_t,
         <<Byte("Command"),
           Loop("Data", Num(1), "Command")>>, 1, [Command |-> 1])
afDataStore == SReq("MT_AF_DATA_STORE", DataStoreFormat_t,
         <<Word("Index"), Byte("Length"),
           Loop("Data", Num(1), "Length")>>, 3, [Length |-> 1])
afDataRetrieve == SReq("MT_AF_DATA_RETRIEVE", DataRetrieveFormat_t,
         <<Copy("TimeStamp", 4), Word("Index"), Byte("Length")>>, 7, << >>)
afApsfConfigSet == SReq("MT_AF_APSF_CONFIG_SET", ApsfConfigSetFormat_t,
         <<Byte("Endpoint"), Byte("FrameDelay"),
           Byte("WindowSize")>>, 3, << >>)

--------------------------------------------------------------------------------
(* Responses and indications: what each function reads into its structure    *)
(* and which callback gets it.                                               *)
processDataConfirm == Response("pfnAfDataConfirm", DataConfirmFormat_t,
    <<Byte("Status"), Byte("Endpoint"), Byte("TransId")>>)
processIncomingMsg == Response("pfnAfIncomingMsg", IncomingMsgFormat_t,
    <<Word("GroupId"), Word("ClusterId"), Word("SrcAddr"), Byte("SrcEndpoint"),
      Byte("DstEndpoint"), Byte("WasVroadcast"), Byte("LinkQuality"),
      Byte("SecurityUse"), Long("TimeStamp"), Byte("TransSeqNum"),
      Byte("Len")>>
    \o IfLonger(17, <<Loop("Data", Num(1), "Len")>>))
processIncomingMsgExt ==
    Response("pfnAfIncomingMsgExt", IncomingMsgExtFormat_t,
    <<Word("GroupId"), Word("ClusterId"), Byte("SrcAddrMode"),
      QuadByMode("SrcAddr", "SrcAddrMode"), Byte("SrcEndpoint"),
      Word("SrcPanId"), Byte("DstEndpoint"), Byte("WasVroadcast"),
      Byte("LinkQuality"), Byte("SecurityUse"), Long("TimeStamp"),
      Byte("TransSeqNum"), Byte("Len"), Loop("Data", Num(1), "Len")>>)
processDataRetrieveSrsp ==
    Response("pfnAfDataRetrieveSrsp", DataRetrieveSrspFormat_t,
    <<Byte("Status"), Byte("Length")>>
    \o IfLonger(2, <<Loop("Data", Num(1), "Length")>>))
processReflectError == Response("pfnAfReflectError", ReflectErrorFormat_t,
    <<Byte("Status"), Byte("Endpoint"), Byte("TransId"), Byte("DstAddrMode"),
      Word("DstAddr")>>)

--------------------------------------------------------------------------------
(* Which function handles a message, by its identifier; others are dropped.  *)
processSrsp == [MT_AF_DATA_RETRIEVE |-> processDataRetrieveSrsp]
afProcess == [MT_AF_DATA_CONFIRM |-> processDataConfirm,
    MT_AF_INCOMING_MSG |-> processIncomingMsg,
    MT_AF_INCOMING_MSG_EXT |-> processIncomingMsgExt,
    MT_AF_REFLECT_ERROR |-> processReflectError]

\* The callbacks an application may register, in the structure's order.
mtAfCb_t == <<"pfnAfDataConfirm", "pfnAfIncomingMsg", "pfnAfIncomingMsgExt",
    "pfnAfDataRetrieveSrsp", "pfnAfReflectError">>

\* What the radio sends, by the header: external to this code.
SocSrsp == [MT_AF_DATA_RETRIEVE |-> DataRetrieveSrspFormat_t]
SocAreq == [MT_AF_DATA_CONFIRM |-> DataConfirmFormat_t,
    MT_AF_INCOMING_MSG |-> IncomingMsgFormat_t,
    MT_AF_INCOMING_MSG_EXT |-> IncomingMsgExtFormat_t,
    MT_AF_REFLECT_ERROR |-> ReflectErrorFormat_t]
================================================================================
