-------------------------------- MODULE Startup --------------------------------
(***************************************************************************)
(* How a host application brings the Zigbee network up: appInit and the    *)
(* beginning of appProcess, with startNetwork and what it writes into the  *)
(* network processor's non-volatile memory, between a reset and a start    *)
(* that the processor answers when it likes.  The Linux application always *)
(* forms a new network as its coordinator; the examples ask the user.      *)
(*                                                                         *)
(* A request and its response are one step here (module Rpc splits it):    *)
(* the request may be lost, or its response.  The wait for the response    *)
(* takes one message from the queue, which may be an earlier indication.   *)
(***************************************************************************)
EXTENDS Integers, Sequences

VARIABLES
    pc,        \* where appProcess is
    newNwk, devType,  \* locals of startNetwork
    devState,  \* the state last indicated
    mq,        \* the message queue: indications
    nv,        \* the processor's non-volatile memory
    soc,       \* the processor: its state, the states to come, its network, and
               \* whether it was told to start since its reset
    result,    \* history: what startNetwork returned
    hadNetwork, wasReset,  \* history
    refused,   \* history: the option was reported as written and was not
    stale,     \* history: devState was indicated before zdoInit
    mistaken   \* history: startNetwork went by that, or by no state at all

startVars == <<pc, newNwk, devType, devState, mq, nv, soc, result, hadNetwork,
               wasReset, refused, stale, mistaken>>

Types == {"coordinator", "router", "enddevice"}
DEV_HOLD == 0           \* devStates_t
DEV_NWK_DISC == 2
DEV_END_DEVICE == 6
DEV_ROUTER == 7
DEV_COORD_STARTING == 8
DEV_ZB_COORD == 9
Started == [coordinator |-> DEV_ZB_COORD, router |-> DEV_ROUTER,
            enddevice |-> DEV_END_DEVICE, other |-> -1]
\* What the processor reports on its way.
Path == [coordinator |-> <<DEV_COORD_STARTING, DEV_ZB_COORD>>,
         router |-> <<DEV_NWK_DISC, DEV_ROUTER>>,
         enddevice |-> <<DEV_NWK_DISC, DEV_END_DEVICE>>]

KEEP == 0   \* startup options
CLEAR == 3  \* ZCD_STARTOPT_CLEAR_STATE | ZCD_STARTOPT_CLEAR_CONFIG

--------------------------------------------------------------------------------
(* The processor.  A session before this one may have left a network, one    *)
(* that is still being started, and any startup option.                      *)
StartInit ==
    /\ pc = "flush" /\ newNwk = FALSE
    /\ devType \in Types \cup {"other"}      \* never initialised
    /\ devState = DEV_HOLD
    /\ mq = << >>
    /\ nv \in [option : {KEEP, CLEAR}, type : Types]
    /\ hadNetwork \in BOOLEAN
    /\ \E begun \in BOOLEAN :
          soc = [state |-> DEV_HOLD,
                 todo |-> IF hadNetwork /\ begun THEN Path[nv.type] ELSE << >>,
                 net |-> IF hadNetwork THEN "old" ELSE "none",
                 inited |-> FALSE]
    /\ result = "none" /\ wasReset = FALSE /\ refused = FALSE
    /\ stale = FALSE /\ mistaken = FALSE

StateChange(s) == [kind |-> "state", state |-> s, old |-> ~soc.inited]
ResetInd == [kind |-> "reset"]

Progress ==
    /\ soc.todo # << >>
    /\ soc' = [soc EXCEPT !.state = Head(soc.todo), !.todo = Tail(soc.todo)]
    /\ mq' = Append(mq, StateChange(Head(soc.todo)))
    /\ UNCHANGED <<pc, newNwk, devType, devState, nv, result, hadNetwork,
                   wasReset, refused, stale, mistaken>>

--------------------------------------------------------------------------------
(* Messages.                                                                 *)
mtZdoStateChangeIndCb(m) ==
    /\ devState' = IF m.kind = "state" THEN m.state ELSE devState
    /\ stale' = IF m.kind = "state" THEN m.old ELSE stale

\* rpcWaitMqClientMsg with a message there, and without.
Process == /\ mq # << >>
           /\ mq' = Tail(mq)
           /\ mtZdoStateChangeIndCb(Head(mq))
TimedOut == mq = << >> /\ UNCHANGED <<mq, devState, stale>>

\* The wait that ends a request finds the response, or what came before it.
Response == Process \/ UNCHANGED <<mq, devState, stale>>

\* sysOsalNvWrite returns what rpcSendFrame does: whether a response came.  Its
\* Status byte is not read, so a write that the processor refuses is a success,
\* and one whose response is lost is a failure, done or not.
Write(item, v, success, failure) ==
    /\ nv' \in {nv, [nv EXCEPT ![item] = v]}
    /\ pc' \in {success, failure}
    /\ Response

\* The writes whose values, done or refused, make no difference here.
WriteOther(success, failure) ==
    /\ pc' \in {success, failure}
    /\ Response
    /\ UNCHANGED nv

--------------------------------------------------------------------------------
(* appProcess flushes the queue and calls startNetwork.                      *)
Flush ==
    /\ pc = "flush"
    /\ \/ Process /\ UNCHANGED pc
       \/ mq = << >> /\ devState' = DEV_HOLD /\ pc' = "ask"
          /\ UNCHANGED <<mq, stale>>
    /\ UNCHANGED <<newNwk, devType, nv, soc, result, hadNetwork, wasReset,
                   refused, mistaken>>

Ask ==
    /\ pc = "ask" /\ pc' = "option"
    /\ newNwk' \in BOOLEAN
    /\ UNCHANGED <<devType, devState, mq, nv, soc, result, hadNetwork,
                   wasReset, refused, stale, mistaken>>

StartOption == IF newNwk THEN CLEAR ELSE KEEP

\* Mutant: a network that is kept is kept without a word.
setNVStartupOnlyClears ==
    /\ pc = "option"
    /\ IF newNwk
       THEN /\ Write("option", CLEAR, "reset", "error")
            /\ refused' = (pc' = "reset" /\ nv'.option # CLEAR)
       ELSE pc' = "reset" /\ UNCHANGED <<nv, mq, devState, stale, refused>>
    /\ UNCHANGED <<newNwk, devType, soc, result, hadNetwork, wasReset,
                   mistaken>>

setNVStartup ==
    /\ pc = "option"
    /\ Write("option", StartOption, "reset", "error")
    /\ refused' = (pc' = "reset" /\ nv'.option # StartOption)
    /\ UNCHANGED <<newNwk, devType, soc, result, hadNetwork, wasReset,
                   mistaken>>

\* The request has no response: the processor is reset, or did not hear.
sysResetReq ==
    /\ pc = "reset" /\ pc' = "settle"
    /\ \/ /\ wasReset' = TRUE
          /\ nv' \in IF nv.option = CLEAR
                     THEN {[nv EXCEPT !.type = t] : t \in Types} ELSE {nv}
          /\ soc' = [state |-> DEV_HOLD, todo |-> << >>,
                     net |-> IF nv.option = CLEAR THEN "none" ELSE soc.net,
                     inited |-> FALSE]
          /\ mq' = Append(mq, ResetInd)
       \/ UNCHANGED <<wasReset, nv, soc, mq>>
    /\ UNCHANGED <<newNwk, devType, devState, result, hadNetwork, refused,
                   stale, mistaken>>

\* One message, or none in five seconds.
Settle ==
    /\ pc = "settle" /\ (Process \/ TimedOut)
    /\ pc' = IF newNwk THEN "devtype" ELSE "register"
    /\ UNCHANGED <<newNwk, devType, nv, soc, result, hadNetwork, wasReset,
                   refused, mistaken>>

\* When this fails startNetwork returns 0, not -1.
setNVDevType ==
    /\ pc = "devtype"
    /\ \E t \in Types : devType' = t /\ Write("type", t, "panid", "up")
    /\ mistaken' = (pc' = "up")
    /\ UNCHANGED <<newNwk, soc, result, hadNetwork, wasReset, refused>>

setNVPanID ==
    /\ pc = "panid" /\ WriteOther("chanlist", "error")
    /\ UNCHANGED <<newNwk, devType, soc, result, hadNetwork, wasReset, refused,
                   mistaken>>
setNVChanList ==
    /\ pc = "chanlist" /\ WriteOther("register", "error")
    /\ UNCHANGED <<newNwk, devType, soc, result, hadNetwork, wasReset, refused,
                   mistaken>>

\* Whether it fails is not looked at.
registerAf ==
    /\ pc = "register" /\ WriteOther("init", "init")
    /\ UNCHANGED <<newNwk, devType, soc, result, hadNetwork, wasReset, refused,
                   mistaken>>

\* A network is restored or formed; startNetwork waits if it knows.
zdoInit ==
    /\ pc = "init"
    /\ \/ /\ soc' = [soc EXCEPT !.todo = Path[nv.type],
                                !.net = IF soc.net = "none" THEN "new" ELSE @,
                                !.inited = TRUE]
          /\ pc' \in {"wait", "keep"}
       \/ UNCHANGED soc /\ pc' = "keep"
    /\ Response
    /\ UNCHANGED <<newNwk, devType, nv, result, hadNetwork, wasReset, refused,
                   mistaken>>

\* Messages, until the state is the one meant or none comes in five seconds.
Wait ==
    /\ pc = "wait"
    /\ \/ /\ Process
          /\ pc' = IF devState' = Started[devType] THEN "keep" ELSE "wait"
       \/ TimedOut /\ pc' = "keep"
    /\ UNCHANGED <<newNwk, devType, nv, soc, result, hadNetwork, wasReset,
                   refused, mistaken>>

\* Mutant: the result is not looked at.
KeepAlwaysUp ==
    /\ pc = "keep"
    /\ Write("option", KEEP, "up", "up")
    /\ mistaken' = stale'
    /\ UNCHANGED <<newNwk, devType, soc, result, hadNetwork, wasReset, refused>>

\* The option is set back, known to be or not.
Keep ==
    /\ pc = "keep"
    /\ LET end == IF devState' < DEV_END_DEVICE THEN "error" ELSE "up"
       IN Response /\ pc' = end /\ nv' \in {nv, [nv EXCEPT !.option = KEEP]}
    /\ mistaken' = stale'
    /\ UNCHANGED <<newNwk, devType, soc, result, hadNetwork, wasReset, refused>>

\* "Network up" or "Network Error"; either way the address is asked for.
Report ==
    /\ pc \in {"up", "error"}
    /\ result' = pc
    /\ pc' = "direct"
    /\ Response
    /\ UNCHANGED <<newNwk, devType, nv, soc, hadNetwork, wasReset, refused,
                   mistaken>>

setNVDirectCb ==
    /\ pc = "direct" /\ WriteOther("ready", "ready")
    /\ UNCHANGED <<newNwk, devType, soc, result, hadNetwork, wasReset, refused,
                   mistaken>>

StartStep ==
    \/ Flush \/ Ask \/ setNVStartup \/ sysResetReq \/ Settle \/ setNVDevType
    \/ setNVPanID \/ setNVChanList \/ registerAf \/ zdoInit \/ Wait \/ Keep
    \/ Report \/ setNVDirectCb

--------------------------------------------------------------------------------
(* "Network up" is printed only when the processor has joined or formed a    *)
(* network, or is a coordinator that forms one; except when the device type  *)
(* could not be written, and when the state it went by was indicated before  *)
(* zdoInit started the network (devState is not set back with the reset).    *)
UpIsUp == result = "up" /\ ~mistaken => soc.state >= DEV_END_DEVICE

(* The network that is up is the one asked for: a new one, or the one there  *)
(* was, whatever startup option an earlier session left behind and whatever  *)
(* the other writes come to; if the processor did get the reset, and did not *)
(* refuse the option while sysOsalNvWrite reported it as written             *)
(* (mtSys.c:590-599): then the option left behind decides.                   *)
NetworkIsTheOneAskedFor ==
    result = "up" /\ ~mistaken /\ wasReset /\ ~refused =>
        soc.net = IF hadNetwork /\ ~newNwk THEN "old" ELSE "new"
================================================================================
