------------------------------ MODULE AppCommands ------------------------------
(***************************************************************************)
(* The Linux application's own way to a request, linux_example/commands.c: *)
(* sendcmd calls, for a command of commands.h, the function that sends it. *)
(***************************************************************************)
EXTENDS Layout

LOCAL Sys == INSTANCE MtSys
LOCAL Af == INSTANCE MtAf
LOCAL Sapi == INSTANCE MtSapi
LOCAL Zdo == INSTANCE MtZdo

sysSend == [SYS_PING |-> Sys!sysPing, SYS_SET_EXTADDR |-> Sys!sysSetExtAddr,
    SYS_GET_EXTADDR |-> Sys!sysGetExtAddr, SYS_RAM_READ |-> Sys!sysRamRead,
    SYS_RAM_WRITE |-> Sys!sysRamWrite, SYS_RESET_REQ |-> Sys!sysResetReq,
    SYS_VERSION |-> Sys!sysVersion, SYS_OSAL_NV_READ |-> Sys!sysOsalNvRead,
    SYS_OSAL_NV_WRITE |-> Sys!sysOsalNvWrite,
    SYS_OSAL_NV_ITEM_INIT |-> Sys!sysOsalNvItemInit,
    SYS_OSAL_NV_DELETE |-> Sys!sysOsalNvDelete,
    SYS_OSAL_NV_LENGTH |-> Sys!sysOsalNvLength,
    SYS_OSAL_START_TIMER |-> Sys!sysOsalStartTimer,
    SYS_OSAL_STOP_TIMER |-> Sys!sysOsalStopTimer,
    SYS_STACK_TUNE |-> Sys!sysStackTune, SYS_ADC_READ |-> Sys!sysAdcRead,
    SYS_GPIO |-> Sys!sysGpio, SYS_RANDOM |-> Sys!sysRandom,
    SYS_SET_TIME |-> Sys!sysSetTime, SYS_GET_TIME |-> Sys!sysGetTime,
    SYS_SET_TX_POWER |-> Sys!sysSetTxPower]
afSend == [AF_REGISTER |-> Af!afRegister, AF_DATA_REQUEST |-> Af!afDataRequest,
    AF_DATA_REQUEST_EXT |-> Af!afDataRequestExt,
    AF_DATA_REQUEST_SRC_RTG |-> Af!afDataRequestSrcRtg,
    AF_INTER_PAN_CTL |-> Af!afInterPanCtl, AF_DATA_STORE |-> Af!afDataStore,
    AF_DATA_RETRIEVE |-> Af!afDataRetrieve,
    AF_APSF_CONFIG_SET |-> Af!afApsfConfigSet]
zdoSend == [ZDO_NWK_ADDR_REQ |-> Zdo!zdoNwkAddrReq,
    ZDO_IEEE_ADDR_REQ |-> Zdo!zdoIeeeAddrReq,
    ZDO_NODE_DESC_REQ |-> Zdo!zdoNodeDescReq,
    ZDO_POWER_DESC_REQ |-> Zdo!zdoPowerDescReq,
    ZDO_SIMPLE_DESC_REQ |-> Zdo!zdoSimpleDescReq,
    ZDO_ACTIVE_EP_REQ |-> Zdo!zdoActiveEpReq,
    ZDO_MATCH_DESC_REQ |-> Zdo!zdoMatchDescReq,
    ZDO_COMPLEX_DESC_REQ |-> Zdo!zdoComplexDescReq,
    ZDO_USER_DESC_REQ |-> Zdo!zdoUserDescReq,
    ZDO_DEVICE_ANNCE |-> Zdo!zdoDeviceAnnce,
    ZDO_USER_DESC_SET |-> Zdo!zdoUserDescSet,
    ZDO_SERVER_DISC_REQ |-> Zdo!zdoServerDiscReq,
    ZDO_END_DEVICE_BIND_REQ |-> Zdo!zdoEndDeviceBindReq,
    ZDO_BIND_REQ |-> Zdo!zdoBindReq, ZDO_UNBIND_REQ |-> Zdo!zdoUnbindReq,
    ZDO_MGMT_NWK_DISC_REQ |-> Zdo!zdoMgmtNwkDiscReq,
    ZDO_MGMT_LQI_REQ |-> Zdo!zdoMgmtLqiReq,
    ZDO_MGMT_RTG_REQ |-> Zdo!zdoMgmtRtgReq,
    ZDO_MGMT_BIND_REQ |-> Zdo!zdoMgmtBindReq,
    ZDO_MGMT_LEAVE_REQ |-> Zdo!zdoMgmtLeaveReq,
    ZDO_MGMT_DIRECT_JOIN_REQ |-> Zdo!zdoMgmtDirectJoinReq,
    ZDO_MGMT_PERMIT_JOIN_REQ |-> Zdo!zdoMgmtPermitJoinReq,
    ZDO_MGMT_NWK_UPDATE_REQ |-> Zdo!zdoMgmtNwkUpdateReq,
    ZDO_STARTUP_FROM_APP |-> Zdo!zdoStartupFromApp,
    ZDO_AUTO_FIND_DESTINATION |-> Zdo!zdoAutoFindDestination,
    ZDO_SET_LINK_KEY |-> Zdo!zdoSetLinkKey,
    ZDO_REMOVE_LINK_KEY |-> Zdo!zdoRemoveLinkKey,
    ZDO_GET_LINK_KEY |-> Zdo!zdoGetLinkKey,
    ZDO_NWK_DISCOVERY_REQ |-> Zdo!zdoNwkDiscoveryReq,
    ZDO_JOIN_REQ |-> Zdo!zdoJoinReq,
    ZDO_MSG_CB_REGISTER |-> Zdo!zdoMsgCbRegister,
    ZDO_MSG_CB_REMOVE |-> Zdo!zdoMsgCbRemove]
zbSend == [ZB_SYSTEM_RESET |-> Sapi!zbSystemReset,
    ZB_APP_REGISTER_REQ |-> Sapi!zbAppRegisterReq,
    ZB_START_REQ |-> Sapi!zbStartReq,
    ZB_PERMIT_JOINING_REQ |-> Sapi!zbPermitJoiningReq,
    ZB_BIND_DEVICE |-> Sapi!zbBindDevice, ZB_ALLOW_BIND |-> Sapi!zbAllowBind,
    ZB_SEND_DATA_REQ |-> Sapi!zbSendDataReq,
    ZB_FIND_DEVICE_REQ |-> Sapi!zbFindDeviceReq,
    ZB_WRITE_CONFIGURATION |-> Sapi!zbWriteConfiguration,
    ZB_GET_DEVICE_INFO |-> Sapi!zbGetDeviceInfo,
    ZB_READ_CONFIGURATION |-> Sapi!zbReadConfiguration]
sendcmd == sysSend @@ afSend @@ zdoSend @@ zbSend
================================================================================
