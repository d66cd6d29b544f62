--------------------------------- MODULE MtSys ---------------------------------
(***************************************************************************)
(* The system commands of the MT interface, framework/mt/Sys: requests,    *)
(* responses, and the dispatch of what the radio sends.                    *)
(***************************************************************************)
EXTENDS Layout

\* The command identifiers, the second byte of a message.
Ids == [MT_SYS_RESET_REQ |-> \h00, MT_SYS_PING |-> \h01,
        MT_SYS_VERSION |-> \h02, MT_SYS_SET_EXTADDR |-> \h03,
        MT_SYS_GET_EXTADDR |-> \h04, MT_SYS_RAM_READ |-> \h05,
        MT_SYS_RAM_WRITE |-> \h06, MT_SYS_OSAL_NV_ITEM_INIT |-> \h07,
        MT_SYS_OSAL_NV_READ |-> \h08, MT_SYS_OSAL_NV_WRITE |-> \h09,
        MT_SYS_OSAL_START_TIMER |-> \h0A, MT_SYS_OSAL_STOP_TIMER |-> \h0B,
        MT_SYS_RANDOM |-> \h0C, MT_SYS_ADC_READ |-> \h0D, MT_SYS_GPIO |-> \h0E,
        MT_SYS_STACK_TUNE |-> \h0F, MT_SYS_SET_TIME |-> \h10,
        MT_SYS_GET_TIME |-> \h11, MT_SYS_OSAL_NV_DELETE |-> \h12,
        MT_SYS_OSAL_NV_LENGTH |-> \h13, MT_SYS_SET_TX_POWER |-> \h14,
        MT_SYS_RESET_IND |-> \h80, MT_SYS_OSAL_TIMER_EXPIRED |-> \h81]

--------------------------------------------------------------------------------
(* The structures the application and the framework exchange.                *)
PingSrspFormat_t == <<U16("Capabilities")>>
SetExtAddrFormat_t == <<Array("ExtAddr", 8)>>
GetExtAddrSrspFormat_t == <<U64("ExtAddr")>>
RamReadFormat_t == <<U16("Address"), U8("Len")>>
RamReadSrspFormat_t == <<U8("Status"), U8("Len"), List("Value", Num(1), 128)>>
RamWriteFormat_t == <<U16("Address"), U8("Len"), List("Value", Num(1), 128)>>
ResetReqFormat_t == <<U8("Type")>>
ResetIndFormat_t == <<U8("Reason"), U8("TransportRev"), U8("ProductId"),
    U8("MajorRel"), U8("MinorRel"), U8("HwRev")>>
VersionSrspFormat_t == <<U8("TransportRev"), U8("Product"), U8("MajorRel"),
    U8("MinorRel"), U8("MaintRel")>>
OsalNvReadFormat_t == <<U16("Id"), U8("Offset")>>
OsalNvReadSrspFormat_t == <<U8("Status"), U8("Len"),
    List("Value", Num(1), 248)>>
OsalNvWriteFormat_t == <<U16("Id"), U8("Offset"), U8("Len"),
    List("Value", Num(1), 246)>>
OsalNvItemInitFormat_t == <<U16("Id"), U16("ItemLen"), U8("InitLen"),
    List("InitData", Num(1), 245)>>
OsalNvDeleteFormat_t == <<U16("Id"), U16("ItemLen")>>
OsalNvLengthFormat_t == <<U16("Id")>>
OsalNvLengthSrspFormat_t == <<U16("ItemLen")>>
OsalStartTimerFormat_t == <<U8("Id"), U16("Timeout")>>
OsalStopTimerFormat_t == <<U8("Id")>>
OsalTimerExpiredFormat_t == <<U8("Id")>>
StackTuneFormat_t == <<U8("Operation"), U8("Value")>>
StackTuneSrspFormat_t == <<U8("Value")>>
AdcReadFormat_t == <<U8("Channel"), U8("Resolution")>>
AdcReadSrspFormat_t == <<U16("Value")>>
GpioFormat_t == <<U8("Operation"), U8("Value")>>
GpioSrspFormat_t == <<U8("Value")>>
RandomSrspFormat_t == <<U16("Value")>>
SetTimeFormat_t == <<Array("UTCTime", 4), U8("Hour"), U8("Minute"),
    U8("Second"), U8("Month"), U8("Day"), U16("Year")>>
GetTimeSrspFormat_t == <<U32("UTCTime"), U8("Hour"), U8("Minute"),
    U8("Second"), U8("Month"), U8("Day"), U16("Year")>>
SetTxPowerFormat_t == <<U8("TxPower")>>
SetTxPowerSrspFormat_t == <<U8("TxPower")>>

--------------------------------------------------------------------------------
(* Requests: what each function writes of its structure, how many bytes it   *)
(* declares, and which command it sends them as.                             *)
sysPing == SReq("MT_SYS_PING", << >>, << >>, 0, << >>)
sysSetExtAddr == SReq("MT_SYS_SET_EXTADDR", SetExtAddrFormat_t,
         <<Copy("ExtAddr", 8)>>, 8, << >>)
sysGetExtAddr == SReq("MT_SYS_GET_EXTADDR", << >>, << >>, 0, << >>)
sysRamRead == SReq("MT_SYS_RAM_READ", RamReadFormat_t,
         <<Word("Address"), Byte("Len")>>, 3, << >>)
sysRamWrite == SReq("MT_SYS_RAM_WRITE", RamWriteFormat_t,
         <<Word("Address"), Byte("Len"),
           Loop("Value", Num(1), "Len")>>, 4, [Len |-> 1])
sysResetReq == AReq("MT_SYS_RESET_REQ", ResetReqFormat_t,
         <<Byte("Type")>>, 1, << >>)
sysVersion == SReq("MT_SYS_VERSION", << >>, << >>, 0, << >>)
sysOsalNvRead == SReq("MT_SYS_OSAL_NV_READ", OsalNvReadFormat_t,
         <<Word("Id"), Byte("Offset")>>, 3, << >>)
sysOsalNvWrite == SReq("MT_SYS_OSAL_NV_WRITE", OsalNvWriteFormat_t,
         <<Word("Id"), Byte("Offset"), Byte("Len"),
           Loop("Value", Num(1), "Len")>>, 4, [Len |-> 1])
sysOsalNvItemInit == SReq("MT_SYS_OSAL_NV_ITEM_INIT", OsalNvItemInitFormat_t,
         <<Word("Id"), Word("ItemLen"), Byte("InitLen"),
           Loop("InitData", Num(1), "InitLen")>>, 5, [InitLen |-> 1])
sysOsalNvDelete == SReq("MT_SYS_OSAL_NV_DELETE", OsalNvDeleteFormat_t,
         <<Word("Id"), Word("ItemLen")>>, 4, << >>)
sysOsalNvLength == SReq("MT_SYS_OSAL_NV_LENGTH", OsalNvLengthFormat_t,
         <<Word("Id")>>, 2, << >>)
sysOsalStartTimer == SReq("MT_SYS_OSAL_START_TIMER", OsalStartTimerFormat_t,
         <<Byte("Id"), Word("Timeout")>>, 3, << >>)
sysOsalStopTimer == SReq("MT_SYS_OSAL_STOP_TIMER", OsalStopTimerFormat_t,
         <<Byte("Id")>>, 1, << >>)
sysStackTune == SReq("MT_SYS_STACK_TUNE", StackTuneFormat_t,
         <<Byte("Operation"), Byte("Value")>>, 2, << >>)
sysAdcRead == SReq("MT_SYS_ADC_READ", AdcReadFormat_t,
         <<Byte("Channel"), Byte("Resolution")>>, 2, << >>)
sysGpio == SReq("MT_SYS_GPIO", GpioFormat_t,
         <<Byte("Operation"), Byte("Value")>>, 2, << >>)
sysRandom == SReq("MT_SYS_RANDOM", << >>, << >>, 0, << >>)
sysSetTime == SReq("MT_SYS_SET_TIME", SetTimeFormat_t,
         <<Copy("UTCTime", 4), Byte("Hour"), Byte("Minute"), Byte("Second"),
           Byte("Month"), Byte("Day"), Word("Year")>>, 11, << >>)
sysGetTime == SReq("MT_SYS_GET_TIME", << >>, << >>, 0, << >>)
sysSetTxPower == SReq("MT_SYS_SET_TX_POWER", SetTxPowerFormat_t,
         <<Byte("TxPower")>>, 1, << >>)

--------------------------------------------------------------------------------
(* Responses and indications: what each function reads into its structure    *)
(* and which callback gets it.                                               *)
processPingSrsp == Response("pfnSysPingSrsp", PingSrspFormat_t,
    <<Word("Capabilities")>>)
processGetExtAddrSrsp ==
    Response("pfnSysGetExtAddrSrsp", GetExtAddrSrspFormat_t,
    <<Quad("ExtAddr")>>)
processRamReadSrsp == Response("pfnSysRamReadSrsp", RamReadSrspFormat_t,
    <<Byte("Status"), Byte("Len")>>
    \o IfLonger(2, <<Loop("Value", Num(1), "Len")>>))
processResetInd == Response("pfnSysResetInd", ResetIndFormat_t,
    <<Byte("Reason"), Byte("TransportRev"), Byte("ProductId"),
      Byte("MajorRel"), Byte("MinorRel"), Byte("HwRev")>>)
processVersionSrsp == Response("pfnSysVersionSrsp", VersionSrspFormat_t,
    <<Byte("TransportRev"), Byte("Product"), Byte("MajorRel"),
      Byte("MinorRel"), Byte("MaintRel")>>)
processOsalNvReadSrsp ==
    Response("pfnSysOsalNvReadSrsp", OsalNvReadSrspFormat_t,
    <<Byte("Status"), Byte("Len")>>
    \o IfLonger(2, <<Loop("Value", Num(1), "Len")>>))
processOsalNvLengthSrsp ==
    Response("pfnSysOsalNvLengthSrsp", OsalNvLengthSrspFormat_t,
    <<Word("ItemLen")>>)
processOsalTimerExpired ==
    Response("pfnSysOsalTimerExpired", OsalTimerExpiredFormat_t,
    <<Byte("Id")>>)
processStackTuneSrsp == Response("pfnSysStackTuneSrsp", StackTuneSrspFormat_t,
    <<Byte("Value")>>)
processAdcReadSrsp == Response("pfnSysAdcReadSrsp", AdcReadSrspFormat_t,
    <<Word("Value")>>)
processGpioSrsp == Response("pfnSysGpioSrsp", GpioSrspFormat_t,
    <<Byte("Value")>>)
processRandomSrsp == Response("pfnSysRandomSrsp", RandomSrspFormat_t,
    <<Word("Value")>>)
processGetTimeSrsp == Response("pfnSysGetTimeSrsp", GetTimeSrspFormat_t,
    <<Long("UTCTime"), Byte("Hour"), Byte("Minute"), Byte("Second"),
      Byte("Month"), Byte("Day"), Word("Year")>>)
processSetTxPowerSrsp ==
    Response("pfnSysSetTxPowerSrsp", SetTxPowerSrspFormat_t,
    <<Byte("TxPower")>>)

--------------------------------------------------------------------------------
(* Which function handles a message, by its identifier; others are dropped.  *)
processSrsp == [MT_SYS_PING |-> processPingSrsp,
    MT_SYS_GET_EXTADDR |-> processGetExtAddrSrsp,
    MT_SYS_RAM_READ |-> processRamReadSrsp,
    MT_SYS_VERSION |-> processVersionSrsp,
    MT_SYS_OSAL_NV_READ |-> processOsalNvReadSrsp,
    MT_SYS_OSAL_NV_LENGTH |-> processOsalNvLengthSrsp,
    MT_SYS_STACK_TUNE |-> processStackTuneSrsp,
    MT_SYS_ADC_READ |-> processAdcReadSrsp, MT_SYS_GPIO |-> processGpioSrsp,
    MT_SYS_RANDOM |-> processRandomSrsp,
    MT_SYS_GET_TIME |-> processGetTimeSrsp,
    MT_SYS_SET_TX_POWER |-> processSetTxPowerSrsp]
sysProcess == [MT_SYS_RESET_IND |-> processResetInd,
    MT_SYS_OSAL_TIMER_EXPIRED |-> processOsalTimerExpired]

\* The callbacks an application may register, in the structure's order.
mtSysCb_t == <<"pfnSysPingSrsp", "pfnSysGetExtAddrSrsp", "pfnSysRamReadSrsp",
    "pfnSysResetInd", "pfnSysVersionSrsp", "pfnSysOsalNvReadSrsp",
    "pfnSysOsalNvLengthSrsp", "pfnSysOsalTimerExpired", "pfnSysStackTuneSrsp",
    "pfnSysAdcReadSrsp", "pfnSysGpioSrsp", "pfnSysRandomSrsp",
    "pfnSysGetTimeSrsp", "pfnSysSetTxPowerSrsp">>

\* What the radio sends, by the header: external to this code.
SocSrsp == [MT_SYS_PING |-> PingSrspFormat_t,
    MT_SYS_GET_EXTADDR |-> GetExtAddrSrspFormat_t,
    MT_SYS_RAM_READ |-> RamReadSrspFormat_t,
    MT_SYS_VERSION |-> VersionSrspFormat_t,
    MT_SYS_OSAL_NV_READ |-> OsalNvReadSrspFormat_t,
    MT_SYS_OSAL_NV_LENGTH |-> OsalNvLengthSrspFormat_t,
    MT_SYS_STACK_TUNE |-> StackTuneSrspFormat_t,
    MT_SYS_ADC_READ |-> AdcReadSrspFormat_t, MT_SYS_GPIO |-> GpioSrspFormat_t,
    MT_SYS_RANDOM |-> RandomSrspFormat_t,
    MT_SYS_GET_TIME |-> GetTimeSrspFormat_t,
    MT_SYS_SET_TX_POWER |-> SetTxPowerSrspFormat_t]
SocAreq == [MT_SYS_RESET_IND |-> ResetIndFormat_t,
    MT_SYS_OSAL_TIMER_EXPIRED |-> OsalTimerExpiredFormat_t]
================================================================================
