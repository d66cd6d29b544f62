------------------------------- MODULE ZclScenes -------------------------------
(***************************************************************************)
(* The Scenes and Groups servers of zcl_general.c.  The scene table is in  *)
(* memory and a copy of it in non-volatile memory, which is written record *)
(* by record, the number of records last, after every change; the device   *)
(* may lose power between two writes.  The groups are the stack's own.     *)
(* A scene is its group, its number, its transition time in seconds and    *)
(* the tenths of it; the transition stands for its name and extension      *)
(* fields too, which are set with it.                                      *)
(***************************************************************************)
EXTENDS Integers, SequencesExt, FiniteSetsExt

CONSTANTS ZCL_GEN_MAX_SCENES, APS_MAX_GROUPS

ASSUME ScenesAssumption ==
    ZCL_GEN_MAX_SCENES \in Nat \ {0} /\ APS_MAX_GROUPS \in Nat

VARIABLES
    zclGenSceneTable,   \* the scenes, oldest first
    groups,             \* the groups this endpoint is in (the stack's table)
    nv,                 \* [numRecs, recs]: ZCD_NV_SCENE_TABLE
    writes,             \* the handler's writes that are still to be made
    leaving,            \* the groups that are left once they are made
    restore             \* the records still to be read: [next, numRecs]
sceneVars == <<zclGenSceneTable, groups, nv, writes, leaving, restore>>

\* The commands of the two clusters.
SCENE == [ADD |-> 0, VIEW |-> 1, REMOVE |-> 2, REMOVE_ALL |-> 3, STORE |-> 4,
          RECALL |-> 5, GET_MEMBERSHIP |-> 6, ENHANCED_ADD |-> 64,
          ENHANCED_VIEW |-> 65, COPY |-> 66]
GROUP == [ADD |-> 0, VIEW |-> 1, GET_MEMBERSHIP |-> 2, REMOVE |-> 3,
          REMOVE_ALL |-> 4, ADD_IF_IDENTIFYING |-> 5]

\* Status codes and what a handler returns: supported, to be answered by a
\* default response; unsupported; answered already.
SUCCESS == 0
INVALID_FIELD == 133
INSUFFICIENT_SPACE == 137
DUPLICATE_EXISTS == 138
NOT_FOUND == 139
ZSuccess == 0
ZFailure == 1
CMD_HAS_RSP == 255

NoGroup == 0        \* scenes may belong to no group

--------------------------------------------------------------------------------
(* The table, as a function of what was done to it so far: its contents and  *)
(* the contents that were saved on the way.                                  *)
Work(table, saves) == [table |-> table, saves |-> saves]
zclGeneral_ScenesSave(w) == Work(w.table, Append(w.saves, w.table))

Find(table, g, i) ==
    SelectInSeq(table, LAMBDA s : s.groupID = g /\ s.ID = i)
zclGeneral_FindScene(w, g, i) == Find(w.table, g, i)
None == 0
\* The scenes at these places of the table, in their order.
Picked(table, places) ==
    LET upTo[k \in 0 .. Len(table)] ==
            IF k = 0 THEN << >>
            ELSE IF k \in places THEN Append(upTo[k - 1], table[k])
            ELSE upTo[k - 1]
    IN upTo[Len(table)]
Of(table, g) == {k \in DOMAIN table : table[k].groupID = g}
zclGeneral_FindAllScenesForGroup(w, g) ==
    LET own == Picked(w.table, Of(w.table, g))
    IN [k \in DOMAIN own |-> own[k].ID]
zclGeneral_CountAllScenes(w) == Len(w.table)
zclGeneral_ScenesRemaingCapacity(w) ==
    ZCL_GEN_MAX_SCENES - zclGeneral_CountAllScenes(w)

zclGeneral_AddScene(w, scene) ==
    zclGeneral_ScenesSave(Work(Append(w.table, scene), w.saves))
zclGeneral_RemoveScene(w, g, i) ==
    LET k == zclGeneral_FindScene(w, g, i)
    IN IF k = None THEN w
       ELSE zclGeneral_ScenesSave(Work(RemoveAt(w.table, k), w.saves))
\* Mutant: a table that has become shorter is not saved.
zclGeneral_RemoveAllScenesUnsaved(w, g) ==
    Work(Picked(w.table, DOMAIN w.table \ Of(w.table, g)), w.saves)
zclGeneral_RemoveAllScenes(w, g) ==
    zclGeneral_ScenesSave(
        Work(Picked(w.table, DOMAIN w.table \ Of(w.table, g)), w.saves))

\* The writes of one save.  A record behind the last is refused by the item.
Header == 0
zclGeneral_ScenesWriteNV(table) ==
    [k \in 1 .. Len(table) |-> [at |-> k, value |-> table[k]]]
    \o <<[at |-> Header, value |-> Len(table)]>>

--------------------------------------------------------------------------------
(* A handler's outcome: the table, the groups it leaves and joins, what it   *)
(* returns, and its response if it sends one.                                *)
Result(w, stat, rsp) ==
    [work |-> w, leaves |-> {}, joins |-> {}, stat |-> stat, rsp |-> rsp]
Answer(w, msg, rsp) ==
    Result(w, CMD_HAS_RSP, IF msg.unicast THEN <<rsp>> ELSE << >>)
Now == Work(zclGenSceneTable, << >>)

GroupExists(g) == g \in groups                        \* aps_FindGroup
Valid(g) == g = NoGroup \/ GroupExists(g)

SceneAdd(msg) ==
    LET c == msg.attrCmd
        enhanced == msg.hdr.cmd = SCENE.ENHANCED_ADD
        scene == [groupID |-> c.groupID, ID |-> c.ID,
                  transTime |-> c.transTime,
                  tenths |-> IF enhanced THEN c.tenths ELSE 0]
        k == zclGeneral_FindScene(Now, c.groupID, c.ID)
        room == zclGeneral_CountAllScenes(Now) < ZCL_GEN_MAX_SCENES
        updated == [zclGenSceneTable EXCEPT ![k].transTime = scene.transTime]
    IN IF ~Valid(c.groupID)
       THEN Answer(Now, msg, [status |-> INVALID_FIELD])
       ELSE IF k # None
       THEN Answer(zclGeneral_ScenesSave(Work(updated, << >>)), msg,
                   [status |-> SUCCESS])
       ELSE IF room
       THEN Answer(zclGeneral_AddScene(Now, scene), msg, [status |-> SUCCESS])
       ELSE Answer(Now, msg, [status |-> INSUFFICIENT_SPACE])

SceneView(msg) ==
    LET c == msg.attrCmd
        k == zclGeneral_FindScene(Now, c.groupID, c.ID)
    IN Answer(Now, msg,
              IF k # None
              THEN [status |-> SUCCESS, scene |-> zclGenSceneTable[k]]
              ELSE IF Valid(c.groupID) THEN [status |-> NOT_FOUND]
              ELSE [status |-> INVALID_FIELD])

\* Without the scene, group 0 counts as a group that is not there.
SceneRemove(msg) ==
    LET c == msg.attrCmd
        k == zclGeneral_FindScene(Now, c.groupID, c.ID)
    IN Answer(zclGeneral_RemoveScene(Now, c.groupID, c.ID), msg,
              [status |-> IF k # None THEN SUCCESS
                          ELSE IF GroupExists(c.groupID) THEN NOT_FOUND
                          ELSE INVALID_FIELD])

SceneRemoveAll(msg) ==
    LET g == msg.attrCmd.groupID
    IN IF Valid(g)
       THEN Answer(zclGeneral_RemoveAllScenes(Now, g), msg,
                   [status |-> SUCCESS])
       ELSE Answer(Now, msg, [status |-> INVALID_FIELD])

\* The application fills the scene in, or leaves it as it is (Unchanged).
Unchanged == -1         \* no transition time
SceneStore(msg, change) ==
    LET c == msg.attrCmd
        k == zclGeneral_FindScene(Now, c.groupID, c.ID)
        scene == IF k # None THEN zclGenSceneTable[k]
                 ELSE [groupID |-> c.groupID, ID |-> c.ID,
                       transTime |-> 0, tenths |-> 0]
        filled == IF change = Unchanged THEN scene
                  ELSE [scene EXCEPT !.transTime = change]
    IN IF ~Valid(c.groupID)
       THEN Answer(Now, msg, [status |-> INVALID_FIELD])
       ELSE IF k = None /\ Len(zclGenSceneTable) >= ZCL_GEN_MAX_SCENES
       THEN Answer(Now, msg, [status |-> INSUFFICIENT_SPACE])
       ELSE IF k = None
       THEN Answer(zclGeneral_AddScene(Now, filled), msg,
                   [status |-> SUCCESS])
       ELSE IF change # Unchanged
       THEN Answer(zclGeneral_ScenesSave(
                       Work([zclGenSceneTable EXCEPT ![k] = filled], << >>)),
                   msg, [status |-> SUCCESS])
       ELSE Answer(Now, msg, [status |-> SUCCESS])

\* The application is told of the scene, if it is there.
SceneRecall(msg) == Result(Now, ZSuccess, << >>)

SceneGetMembership(msg) ==
    LET g == msg.attrCmd.groupID
    IN Answer(Now, msg,
              IF ~Valid(g) THEN [status |-> INVALID_FIELD]
              ELSE [status |-> SUCCESS,
                    capacity |-> zclGeneral_ScenesRemaingCapacity(Now) % 256,
                    sceneList |-> zclGeneral_FindAllScenesForGroup(Now, g)])

\* One scene, or all of the group.  Whether there is room is decided by the
\* numbers the scenes have, not by the number the copy gets.
ScenesToCopy(c) ==
    IF c.all THEN zclGeneral_FindAllScenesForGroup(Now, c.groupIDFrom)
    ELSE IF zclGeneral_FindScene(Now, c.groupIDFrom, c.ID) # None THEN <<c.ID>>
    ELSE << >>
CopyOne(w, c, id) ==
    LET k == zclGeneral_FindScene(w, c.groupIDFrom, id)
        idTo == IF c.all THEN id ELSE c.IDTo
        copy == [w.table[k] EXCEPT !.groupID = c.groupIDTo, !.ID = idTo]
    IN IF k = None THEN w
       ELSE zclGeneral_AddScene(
                zclGeneral_RemoveScene(w, c.groupIDTo, idTo), copy)

SceneCopy(msg) ==
    LET c == msg.attrCmd
        list == ScenesToCopy(c)
        copied[k \in 0 .. Len(list)] ==
            IF k = 0 THEN Now ELSE CopyOne(copied[k - 1], c, list[k])
        missing == {k \in DOMAIN list :
                    zclGeneral_FindScene(Now, c.groupIDTo, list[k]) = None}
    IN IF ~GroupExists(c.groupIDFrom) \/ ~GroupExists(c.groupIDTo)
       THEN Answer(Now, msg, [status |-> INVALID_FIELD])
       ELSE IF ~c.all /\ list = << >>
       THEN Answer(Now, msg, [status |-> INVALID_FIELD])
       ELSE IF zclGeneral_ScenesRemaingCapacity(Now) < Cardinality(missing)
       THEN Answer(Now, msg, [status |-> INSUFFICIENT_SPACE])
       ELSE Answer(copied[Len(list)], msg, [status |-> SUCCESS])

zclGeneral_ProcessInScenesServer(msg, change) ==
    LET cmd == msg.hdr.cmd
    IN CASE cmd \in {SCENE.ADD, SCENE.ENHANCED_ADD} -> SceneAdd(msg)
         [] cmd \in {SCENE.VIEW, SCENE.ENHANCED_VIEW} -> SceneView(msg)
         [] cmd = SCENE.REMOVE -> SceneRemove(msg)
         [] cmd = SCENE.REMOVE_ALL -> SceneRemoveAll(msg)
         [] cmd = SCENE.STORE -> SceneStore(msg, change)
         [] cmd = SCENE.RECALL -> SceneRecall(msg)
         [] cmd = SCENE.GET_MEMBERSHIP -> SceneGetMembership(msg)
         [] cmd = SCENE.COPY -> SceneCopy(msg)
         [] OTHER -> Result(Now, ZFailure, << >>)

--------------------------------------------------------------------------------
(* The Groups server.  A command to many is carried out but not answered.    *)
OnlyUnicast(w, msg, rsp) ==
    Result(w, IF msg.unicast THEN CMD_HAS_RSP ELSE ZSuccess,
           IF msg.unicast THEN <<rsp>> ELSE << >>)

\* aps_AddGroup, in the stack.
AddStatus(g) ==
    IF GroupExists(g) THEN DUPLICATE_EXISTS
    ELSE IF Cardinality(groups) >= APS_MAX_GROUPS THEN INSUFFICIENT_SPACE
    ELSE SUCCESS
Joined(g) == IF AddStatus(g) = SUCCESS THEN {g} ELSE {}
GroupAdd(msg) ==
    LET g == msg.attrCmd.groupID
    IN [OnlyUnicast(Now, msg, [status |-> AddStatus(g)])
        EXCEPT !.joins = Joined(g)]
GroupView(msg) ==
    OnlyUnicast(Now, msg, [status |-> IF GroupExists(msg.attrCmd.groupID)
                                      THEN SUCCESS ELSE NOT_FOUND])
\* Asked for some groups and in none of them, it does not answer.
GroupGetMembership(msg) ==
    LET asked == msg.attrCmd.groupList
        own == IF asked = {} THEN groups ELSE asked \cap groups
        r == OnlyUnicast(Now, msg, [groupList |-> own])
    IN IF asked = {} \/ own # {} THEN r ELSE [r EXCEPT !.rsp = << >>]
\* Mutant: the group goes, its scenes stay.
GroupRemoveOnly(msg) ==
    LET g == msg.attrCmd.groupID
    IN [OnlyUnicast(Now, msg,
            [status |-> IF GroupExists(g) THEN SUCCESS ELSE NOT_FOUND])
        EXCEPT !.leaves = {g}]
GroupRemove(msg) ==
    LET g == msg.attrCmd.groupID
    IN [OnlyUnicast(zclGeneral_RemoveAllScenes(Now, g), msg,
            [status |-> IF GroupExists(g) THEN SUCCESS ELSE NOT_FOUND])
        EXCEPT !.leaves = {g}]
GroupRemoveAll(msg) ==
    LET groupList == SetToSeq(groups)
        removed[k \in 0 .. Len(groupList)] ==
            IF k = 0 THEN Now
            ELSE zclGeneral_RemoveAllScenes(removed[k - 1], groupList[k])
    IN [Result(removed[Len(groupList)], ZSuccess, << >>)
        EXCEPT !.leaves = groups]
GroupAddIfIdentifying(msg, identifying) ==
    [Result(Now, ZSuccess, << >>)
     EXCEPT !.joins = IF identifying THEN Joined(msg.attrCmd.groupID) ELSE {}]

zclGeneral_ProcessInGroupsServer(msg, identifying) ==
    LET cmd == msg.hdr.cmd
    IN CASE cmd = GROUP.ADD -> GroupAdd(msg)
         [] cmd = GROUP.VIEW -> GroupView(msg)
         [] cmd = GROUP.GET_MEMBERSHIP -> GroupGetMembership(msg)
         [] cmd = GROUP.REMOVE -> GroupRemove(msg)
         [] cmd = GROUP.REMOVE_ALL -> GroupRemoveAll(msg)
         [] cmd = GROUP.ADD_IF_IDENTIFYING ->
                GroupAddIfIdentifying(msg, identifying)
         [] OTHER -> Result(Now, ZFailure, << >>)

--------------------------------------------------------------------------------
(* The variables.                                                            *)
Unread == [read |-> FALSE]      \* a record that no header counts
NoRestore == [next |-> 1, numRecs |-> 0]

\* zclGeneral_ScenesInitNV of a device that has never run.
ScenesInit ==
    /\ zclGenSceneTable = << >>
    /\ groups = {}
    /\ nv = [numRecs |-> 0,
             recs |-> [k \in 1 .. ZCL_GEN_MAX_SCENES |-> Unread]]
    /\ writes = << >>
    /\ leaving = {}
    /\ restore = NoRestore

Restoring == restore.next <= restore.numRecs
Busy == writes # << >> \/ leaving # {} \/ Restoring

\* A handler's table and groups; it goes on when its writes are made.
Carry(r) ==
    /\ zclGenSceneTable' = r.work.table
    /\ writes' = FlattenSeq([k \in DOMAIN r.work.saves |->
                             zclGeneral_ScenesWriteNV(r.work.saves[k])])
    /\ groups' = groups \cup r.joins
    /\ leaving' = r.leaves
    /\ UNCHANGED <<nv, restore>>

\* Records that no header counts are not read again: they are forgotten once
\* the last write is made.
Trimmed(item) == [item EXCEPT !.recs = [k \in DOMAIN item.recs |->
                      IF k > item.numRecs THEN Unread ELSE item.recs[k]]]
\* zcl_nv_write.
Written(write) ==
    CASE write.at = Header -> [nv EXCEPT !.numRecs = write.value]
      [] write.at \in DOMAIN nv.recs ->
            [nv EXCEPT !.recs[write.at] = write.value]
      [] OTHER -> nv
WriteNV ==
    /\ writes # << >>
    /\ writes' = Tail(writes)
    /\ nv' = IF Tail(writes) = << >> /\ ~Restoring
             THEN Trimmed(Written(Head(writes))) ELSE Written(Head(writes))
    /\ UNCHANGED <<zclGenSceneTable, groups, leaving, restore>>

\* aps_RemoveGroup and aps_RemoveAllGroup, after the scenes are gone.
LeaveGroups ==
    /\ writes = << >>
    /\ leaving # {}
    /\ groups' = groups \ leaving
    /\ leaving' = {}
    /\ UNCHANGED <<zclGenSceneTable, nv, writes, restore>>

\* The device loses power and starts again: zclGeneral_ScenesInit.
Restart ==
    /\ zclGenSceneTable' = << >>
    /\ writes' = << >>
    /\ leaving' = {}
    /\ restore' = [next |-> 1, numRecs |-> nv.numRecs]
    /\ nv' = Trimmed(nv)
    /\ UNCHANGED groups

\* Each scene it reads is added, and with it the table so far is saved again.
Restored(w) ==
    IF restore.next \in DOMAIN nv.recs
    THEN zclGeneral_AddScene(w, nv.recs[restore.next]) ELSE w
zclGeneral_ScenesRestoreFromNV ==
    LET w == Restored(Now)
    IN /\ writes = << >>
       /\ Restoring
       /\ zclGenSceneTable' = w.table
       /\ writes' = FlattenSeq([k \in DOMAIN w.saves |->
                                zclGeneral_ScenesWriteNV(w.saves[k])])
       /\ restore' = IF restore.next = restore.numRecs THEN NoRestore
                     ELSE [restore EXCEPT !.next = @ + 1]
       /\ UNCHANGED <<groups, nv, leaving>>
===============================================================================
