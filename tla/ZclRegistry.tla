------------------------------ MODULE ZclRegistry ------------------------------
(***************************************************************************)
(* What an application registers with the cluster library before it runs:  *)
(* attributes and commands by endpoint, options of clusters, plugins by    *)
(* range of clusters, and the tasks that get the frames the library does   *)
(* not answer itself.  Each register is a linked list of which a lookup    *)
(* takes the first entry that fits, here a sequence; an entry is never     *)
(* taken out.                                                              *)
(***************************************************************************)
EXTENDS Integers, SequencesExt

AF_BROADCAST_ENDPOINT == 255
NoTask == "no task"    \* TASK_NO_TASK

VARIABLES attrList, gpCmdList, clusterOptionList, plugins,
          externalEndPointHandlerList
registry == <<attrList, gpCmdList, clusterOptionList, plugins,
              externalEndPointHandlerList>>

--------------------------------------------------------------------------------
(* Registering, as a function of the register.                               *)
zcl_registerPlugin(list, start, end, handler) ==
    Append(list, [startClusterID |-> start, endClusterID |-> end,
                  pfnIncomingHdlr |-> handler])
zcl_registerCmdList(list, endpoint, cmds) ==
    Append(list, [endpoint |-> endpoint, pCmdRecs |-> cmds])
zcl_registerAttrList(list, endpoint, attrs) ==
    Append(list, [endpoint |-> endpoint, attrs |-> attrs,
                  callbacks |-> FALSE])
zcl_registerClusterOptionList(list, endpoint, options) ==
    Append(list, [endpoint |-> endpoint, options |-> options])

\* Both callbacks of the first list of the endpoint, if it has one.
zcl_registerReadWriteCB(list, endpoint) ==
    LET k == SelectInSeq(list, LAMBDA rec : rec.endpoint = endpoint)
    IN IF k = 0 THEN list ELSE [list EXCEPT ![k].callbacks = TRUE]

\* The task for every endpoint goes last, the task for one endpoint first; an
\* endpoint that has a task keeps it.
zcl_addExternalFoundationHandler(list, task, endpoint) ==
    LET new == [zcl_ExternalTaskID |-> task, zcl_ExternalEndPoint |-> endpoint]
        taken == \E k \in DOMAIN list : list[k].zcl_ExternalEndPoint = endpoint
    IN IF taken THEN list
       ELSE IF endpoint = AF_BROADCAST_ENDPOINT THEN Append(list, new)
       ELSE <<new>> \o list
zcl_registerForMsg(list, task) ==
    zcl_addExternalFoundationHandler(list, task, AF_BROADCAST_ENDPOINT)
zcl_registerForMsgExt(list, task, endpoint) ==
    zcl_addExternalFoundationHandler(list, task, endpoint)
\* What registering makes of an empty list: one task for an endpoint, and the
\* one for every endpoint behind all others.
zclExternalFoundationHandlerList ==
    {list \in Seq([zcl_ExternalTaskID : STRING \ {NoTask},
                   zcl_ExternalEndPoint : Nat]) :
        \A i, j \in DOMAIN list :
            /\ list[i].zcl_ExternalEndPoint = list[j].zcl_ExternalEndPoint
               => i = j
            /\ list[i].zcl_ExternalEndPoint = AF_BROADCAST_ENDPOINT => j <= i}

--------------------------------------------------------------------------------
(* Looking up.                                                               *)
\* Mutant: the last task that was registered for the endpoint or for all.
zcl_getExternalFoundationHandlerLast(endpoint) ==
    LET k == SelectLastInSeq(externalEndPointHandlerList,
                 LAMBDA h : h.zcl_ExternalEndPoint
                                \in {endpoint, AF_BROADCAST_ENDPOINT})
    IN IF k = 0 THEN NoTask
       ELSE externalEndPointHandlerList[k].zcl_ExternalTaskID
zcl_getExternalFoundationHandler(endpoint) ==
    LET k == SelectInSeq(externalEndPointHandlerList,
                 LAMBDA h : h.zcl_ExternalEndPoint
                                \in {endpoint, AF_BROADCAST_ENDPOINT})
    IN IF k = 0 THEN NoTask
       ELSE externalEndPointHandlerList[k].zcl_ExternalTaskID

NoPlugin == "no plugin"
zclFindPlugin(clusterID) ==
    LET k == SelectInSeq(plugins,
                 LAMBDA p : clusterID \in p.startClusterID .. p.endClusterID)
    IN IF k = 0 THEN NoPlugin ELSE plugins[k].pfnIncomingHdlr

zclFindCmdRecsList(endpoint) ==
    SelectInSeq(gpCmdList, LAMBDA rec : rec.endpoint = endpoint)
Commands(endpoint) ==
    LET k == zclFindCmdRecsList(endpoint)
    IN IF k = 0 THEN << >> ELSE gpCmdList[k].pCmdRecs

zclFindAttrRecsList(endpoint) ==
    SelectInSeq(attrList, LAMBDA rec : rec.endpoint = endpoint)
Attributes(endpoint) ==
    LET k == zclFindAttrRecsList(endpoint)
    IN IF k = 0 THEN << >> ELSE attrList[k].attrs
HasCallbacks(endpoint) ==
    LET k == zclFindAttrRecsList(endpoint) IN k # 0 /\ attrList[k].callbacks

\* The attribute's place in its endpoint's list, or NotFound.
NotFound == 0
zclFindAttrRec(endpoint, clusterID, attrId) ==
    SelectInSeq(Attributes(endpoint),
        LAMBDA a : a.clusterID = clusterID /\ a.attrId = attrId)

\* Unlike the other registers, every list of the endpoint is searched.
Options(endpoint) ==
    FlattenSeq([k \in DOMAIN clusterOptionList |->
        IF clusterOptionList[k].endpoint = endpoint
        THEN clusterOptionList[k].options ELSE << >>])
zclFindClusterOption(endpoint, clusterID) ==
    SelectInSeq(Options(endpoint), LAMBDA o : o.clusterID = clusterID)
\* Whether the cluster's frames are to be secured, where security is built in.
zclGetClusterOption(endpoint, clusterID) ==
    LET k == zclFindClusterOption(endpoint, clusterID)
    IN k # 0 /\ Options(endpoint)[k].secured
===============================================================================
