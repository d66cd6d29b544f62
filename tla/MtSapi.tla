--------------------------------- MODULE MtSapi --------------------------------
(***************************************************************************)
(* The simple API commands of the MT interface, framework/mt/Sapi:         *)
(* requests, responses, and the dispatch of what the radio sends.          *)
(***************************************************************************)
EXTENDS Layout

\* The command identifiers, the second byte of a message.
Ids == [MT_SAPI_SYS_RESET |-> \h09, MT_SAPI_START_REQ |-> \h00,
        MT_SAPI_BIND_DEVICE |-> \h01, MT_SAPI_ALLOW_BIND |-> \h02,
        MT_SAPI_SEND_DATA_REQ |-> \h03, MT_SAPI_READ_CONFIGURATION |-> \h04,
        MT_SAPI_WRITE_CONFIGURATION |-> \h05, MT_SAPI_GET_DEVICE_INFO |-> \h06,
        MT_SAPI_FIND_DEVICE_REQ |-> \h07, MT_SAPI_PERMIT_JOINING_REQ |-> \h08,
        MT_SAPI_APP_REGISTER_REQ |-> \h0A, MT_SAPI_START_CNF |-> \h80,
        MT_SAPI_BIND_CNF |-> \h81, MT_SAPI_ALLOW_BIND_CNF |-> \h82,
        MT_SAPI_SEND_DATA_CNF |-> \h83, MT_SAPI_FIND_DEVICE_CNF |-> \h85,
        MT_SAPI_RECEIVE_DATA_IND |-> \h87]

--------------------------------------------------------------------------------
(* The structures the application and the framework exchange.                *)
AppRegisterReqFormat_t == <<U8("AppEndpoint"), U16("AppProfileId"),
    U16("DeviceId"), U8("DeviceVersion"), U8("Unused"), U8("InputCommandsNum"),
    List("InputCommandsList", Num(2), 255), U8("OutputCommandsNum"),
    List("OutputCommandsList", Num(2), 255)>>
PermitJoiningReqFormat_t == <<U16("Destination"), U8("Timeout")>>
BindDeviceFormat_t == <<U8("Create"), U16("CommandId"), Array("DstIeee", 8)>>
AllowBindFormat_t == <<U8("Timeout")>>
SendDataReqFormat_t == <<U16("Destination"), U16("CommandId"), U8("Handle"),
    U8("Ack"), U8("Radius"), U8("Len"), List("Data", Num(1), 99)>>
FindDeviceReqFormat_t == <<Array("SearchKey", 8)>>
WriteConfigurationFormat_t == <<U8("ConfigId"), U8("Len"),
    List("Value", Num(1), 128)>>
GetDeviceInfoFormat_t == <<U8("Param")>>
ReadConfigurationFormat_t == <<U8("ConfigId")>>
ReadConfigurationSrspFormat_t == <<U8("Status"), U8("ConfigId"), U8("Len"),
    List("Value", Num(1), 128)>>
GetDeviceInfoSrspFormat_t == <<U8("Param"), Array("Value", 8)>>
FindDeviceCnfFormat_t == <<U16("SearchKey"), U64("Result")>>
SendDataCnfFormat_t == <<U8("Handle"), U8("Status")>>
ReceiveDataIndFormat_t == <<U16("Source"), U16("Command"), U16("Len"),
    List("Data", Num(1), 84)>>
AllowBindCnfFormat_t == <<U16("Source")>>
BindCnfFormat_t == <<U16("CommandId"), U8("Status")>>
StartCnfFormat_t == <<U8("Status")>>

--------------------------------------------------------------------------------
(* Requests: what each function writes of its structure, how many bytes it   *)
(* declares, and which command it sends them as.                             *)
zbSystemReset == AReq("MT_SAPI_SYS_RESET", << >>, << >>, 0, << >>)
zbAppRegisterReq == SReq("MT_SAPI_APP_REGISTER_REQ", AppRegisterReqFormat_t,
         <<Byte("AppEndpoint"), Word("AppProfileId"), Word("DeviceId"),
           Byte("DeviceVersion"), Byte("Unused"), Byte("InputCommandsNum"),
           Loop("InputCommandsList", Num(2), "InputCommandsNum"),
           Byte("OutputCommandsNum"),
           Loop("OutputCommandsList", Num(2), "OutputCommandsNum")>>,
         9, [InputCommandsNum |-> 2, OutputCommandsNum |-> 2])
zbStartReq == SReq("MT_SAPI_START_REQ", << >>, << >>, 0, << >>)
zbPermitJoiningReq ==
    SReq("MT_SAPI_PERMIT_JOINING_REQ", PermitJoiningReqFormat_t,
         <<Word("Destination"), Byte("Timeout")>>, 3, << >>)
zbBindDevice == SReq("MT_SAPI_BIND_DEVICE", BindDeviceFormat_t,
         <<Byte("Create"), Word("CommandId"), Copy("DstIeee", 8)>>, 11, << >>)
zbAllowBind == SReq("MT_SAPI_ALLOW_BIND", AllowBindFormat_t,
         <<Byte("Timeout")>>, 1, << >>)
zbSendDataReq == SReq("MT_SAPI_SEND_DATA_REQ", SendDataReqFormat_t,
         <<Word("Destination"), Word("CommandId"), Byte("Handle"), Byte("Ack"),
           Byte("Radius"), Byte("Len"),
           Loop("Data", Num(1), "Len")>>, 8, [Len |-> 1])
zbFindDeviceReq == SReq("MT_SAPI_FIND_DEVICE_REQ", FindDeviceReqFormat_t,
         <<Copy("SearchKey", 8)>>, 8, << >>)
zbWriteConfiguration ==
    SReq("MT_SAPI_WRITE_CONFIGURATION", WriteConfigurationFormat_t,
         <<Byte("ConfigId"), Byte("Len"),
           Loop("Value", Num(1), "Len")>>, 3, [Len |-> 1])
zbGetDeviceInfo == SReq("MT_SAPI_GET_DEVICE_INFO", GetDeviceInfoFormat_t,
         <<Byte("Param")>>, 1, << >>)
zbReadConfiguration ==
    SReq("MT_SAPI_READ_CONFIGURATION", ReadConfigurationFormat_t,
         <<Byte("ConfigId")>>, 1, << >>)

--------------------------------------------------------------------------------
(* Responses and indications: what each function reads into its structure    *)
(* and which callback gets it.                                               *)
processReadConfigurationSrsp ==
    Response("pfnSapiReadConfigurationSrsp", ReadConfigurationSrspFormat_t,
    <<Byte("Status"), Byte("ConfigId"), Byte("Len")>>
    \o IfLonger(3, <<Loop("Value", Num(1), "Len")>>))
processGetDeviceInfoSrsp ==
    Response("pfnSapiGetDeviceInfoSrsp", GetDeviceInfoSrspFormat_t,
    <<Byte("Param"), Copy("Value", 8)>>)
processFindDeviceCnf == Response("pfnSapiFindDeviceCnf", FindDeviceCnfFormat_t,
    <<Word("SearchKey"), Quad("Result")>>)
processSendDataCnf == Response("pfnSapiSendDataCnf", SendDataCnfFormat_t,
    <<Byte("Handle"), Byte("Status")>>)
processReceiveDataInd ==
    Response("pfnSapiReceiveDataInd", ReceiveDataIndFormat_t,
    <<Word("Source"), Word("Command"), Word("Len")>>
    \o IfLonger(6, <<Loop("Data", Num(1), "Len")>>))
processAllowBindCnf == Response("pfnSapiAllowBindCnf", AllowBindCnfFormat_t,
    <<Word("Source")>>)
processBindCnf == Response("pfnSapiBindCnf", BindCnfFormat_t,
    <<Word("CommandId"), Byte("Status")>>)
processStartCnf == Response("pfnSapiStartCnf", StartCnfFormat_t,
    <<Byte("Status")>>)

--------------------------------------------------------------------------------
(* Which function handles a message, by its identifier; others are dropped.  *)
processSrsp == [MT_SAPI_READ_CONFIGURATION |-> processReadConfigurationSrsp,
    MT_SAPI_GET_DEVICE_INFO |-> processGetDeviceInfoSrsp]
sapiProcess == [MT_SAPI_FIND_DEVICE_CNF |-> processFindDeviceCnf,
    MT_SAPI_SEND_DATA_CNF |-> processSendDataCnf,
    MT_SAPI_RECEIVE_DATA_IND |-> processReceiveDataInd,
    MT_SAPI_ALLOW_BIND_CNF |-> processAllowBindCnf,
    MT_SAPI_BIND_CNF |-> processBindCnf, MT_SAPI_START_CNF |-> processStartCnf]

\* The callbacks an application may register, in the structure's order.
mtSapiCb_t == <<"pfnSapiReadConfigurationSrsp", "pfnSapiGetDeviceInfoSrsp",
    "pfnSapiFindDeviceCnf", "pfnSapiSendDataCnf", "pfnSapiReceiveDataInd",
    "pfnSapiAllowBindCnf", "pfnSapiBindCnf", "pfnSapiStartCnf">>

\* What the radio sends, by the header: external to this code.
SocSrsp == [MT_SAPI_READ_CONFIGURATION |-> ReadConfigurationSrspFormat_t,
    MT_SAPI_GET_DEVICE_INFO |-> GetDeviceInfoSrspFormat_t]
SocAreq == [MT_SAPI_FIND_DEVICE_CNF |-> FindDeviceCnfFormat_t,
    MT_SAPI_SEND_DATA_CNF |-> SendDataCnfFormat_t,
    MT_SAPI_RECEIVE_DATA_IND |-> ReceiveDataIndFormat_t,
    MT_SAPI_ALLOW_BIND_CNF |-> AllowBindCnfFormat_t,
    MT_SAPI_BIND_CNF |-> BindCnfFormat_t,
    MT_SAPI_START_CNF |-> StartCnfFormat_t]
================================================================================
