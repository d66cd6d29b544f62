---------------------------------- MODULE Rpc ----------------------------------
(***************************************************************************)
(* Requests over the serial line to the Zigbee network processor (rpc.c),   *)
(* the queue that takes what comes back to the application (Llq), and the   *)
(* part every request function of framework/mt has in common: send, receive *)
(* one message, read the status out of the shared srspRpcBuff.              *)
(*                                                                         *)
(* The application threads call rpcSendFrame and rpcWaitMqClientMsg; the    *)
(* receiving thread loops in rpcProcess (main.c, rpcTask).  A step is one   *)
(* wait, one post or one read or write of what threads share.               *)
(***************************************************************************)
EXTENDS Llq

CONSTANTS Apps,        \* the application's threads
          Senders,     \* those of them that send requests
          Listeners,   \* those of them that loop, receiving (main.c:64-70)
          Rx,          \* the receiving thread
          Subs,        \* subsystems a command can belong to
          NONE,        \* expectedSrspCmdId when nothing is awaited (0xFF)
          MaxRequests, \* bound: requests made
          MaxAreqs     \* bound: messages the network processor sends unasked

ASSUME ThreadsAssumption == /\ Threads = Apps \cup {Rx}
                            /\ Rx \notin Apps
                            /\ Senders \subseteq Apps
                            /\ Listeners \subseteq Apps
ASSUME MessageAssumption ==
    Message = [type : {"SRSP"}, sub : Subs, id : 1 .. MaxRequests]
         \cup [type : {"AREQ"}, id : 1 .. MaxAreqs]
\* rpc.c:381,401 - responses are added with priority, the rest without.
ASSUME UrgentIsResponse == Urgent = {m \in Message : m.type = "SRSP"}
ASSUME BoundsAssumption == MaxRequests \in Nat /\ MaxAreqs \in Nat
ASSUME NoneAssumption == NONE \notin Subs

VARIABLES rpcSem, srspSem, expected, \* of rpc.c
          srspRpcBuff,               \* of mtParser.c: the last response processed
          pc,                        \* per application thread
          req,                       \* per application thread: the request it makes
          frame, rxpc,               \* the receiving thread
          toDevice, line,            \* the serial line, both directions
          made, sent,                \* requests made, messages sent unasked
          posted, timeouts,          \* history: responses waited for, waits given up
          accepted, handled,         \* history: messages queued, messages processed
          outcome, told              \* history: per request, what its caller was told

rpcVars == <<rpcSem, srspSem, expected, srspRpcBuff, pc, req, frame, rxpc,
             toDevice, line, made, sent, posted, timeouts, accepted, handled,
             outcome, told>>
vars == <<llqVars, rpcVars>>

Ids == 1 .. MaxRequests
\* A request that is not answered carries no subsystem here: nothing looks at it.
Request == [type : {"SREQ"}, sub : Subs, id : Ids] \cup [type : {"AREQ"}, id : Ids]
Pc == {"idle", "enter", "write", "await", "clear", "unlock", "receive",
       "receiving", "status", "listening"}
\* Between the wait for rpcSem and its post.
Sending == {t \in Apps : pc[t] \in {"write", "await", "clear", "unlock"}}

Srsp(r) == [type |-> "SRSP", sub |-> r.sub, id |-> r.id]
Srsps == {m \in Message : m.type = "SRSP"}

Init == /\ LlqInit
        /\ rpcSem = 1 /\ srspSem = 0
        /\ expected = NONE
        /\ srspRpcBuff = NoMessage
        /\ pc = [t \in Apps |-> "idle"]
        /\ req = [t \in Apps |-> NoMessage]
        /\ frame = NoMessage /\ rxpc = "read"
        /\ toDevice = << >> /\ line = << >>
        /\ made = 0 /\ sent = 0
        /\ posted = {} /\ timeouts = 0
        /\ accepted = {} /\ handled = {}
        /\ outcome = [i \in Ids |-> "none"]
        /\ told = [i \in Ids |-> NoMessage]

Step(t, from, to) == /\ pc[t] = from
                     /\ pc' = [pc EXCEPT ![t] = to]

(***************************************************************************)
(* rpcSendFrame, and what the request functions do around it               *)
(***************************************************************************)

\* A request function is called: zdoNwkAddrReq, sysOsalNvWrite and the others.
Call(t) ==
    /\ made < MaxRequests
    /\ Step(t, "idle", "enter")
    /\ made' = made + 1
    /\ \E r \in Request : r.id = made + 1 /\ req' = [req EXCEPT ![t] = r]
    /\ UNCHANGED <<llqVars, rpcSem, srspSem, expected, srspRpcBuff, frame, rxpc,
                   toDevice, line, sent, posted, timeouts, accepted, handled,
                   outcome, told>>

\* Slips to see the properties refuted: the mutex not waited for,
EnterUnlocked(t) ==
    /\ Step(t, "enter", "write")
    /\ expected' = IF req[t].type = "SREQ" THEN req[t].sub ELSE expected
    /\ UNCHANGED <<llqVars, rpcSem, srspSem, srspRpcBuff, req, frame, rxpc, toDevice, line,
                   made, sent, posted, timeouts, accepted, handled, outcome, told>>

\* rpcSem is had; from here on a response in the request's subsystem matches.
Enter(t) ==
    /\ rpcSem > 0
    /\ Step(t, "enter", "write")
    /\ rpcSem' = rpcSem - 1
    /\ expected' = IF req[t].type = "SREQ" THEN req[t].sub ELSE expected
    /\ UNCHANGED <<llqVars, srspSem, srspRpcBuff, req, frame, rxpc, toDevice, line,
                   made, sent, posted, timeouts, accepted, handled, outcome, told>>

\* rpcTransportWrite flushes the output after every eight bytes
\* (rpcTransportUart.c:199), which drops what the port has not sent yet: the
\* frame arrives whole or is of no use.
Write(t) ==
    /\ Step(t, "write", IF req[t].type = "SREQ" THEN "await" ELSE "unlock")
    /\ toDevice' \in {toDevice, Append(toDevice, req[t])}
    /\ outcome' = IF req[t].type = "SREQ" THEN outcome
                  ELSE [outcome EXCEPT ![req[t].id] = "success"]
    /\ UNCHANGED <<llqVars, rpcSem, srspSem, expected, srspRpcBuff, req, frame, rxpc,
                   line, made, sent, posted, timeouts, accepted, handled, told>>

\* a wait with no timeout,
AwaitForever(t) ==
    /\ srspSem > 0
    /\ Step(t, "await", "clear")
    /\ srspSem' = srspSem - 1
    /\ outcome' = [outcome EXCEPT ![req[t].id] = "success"]
    /\ UNCHANGED <<llqVars, rpcSem, expected, srspRpcBuff, req, frame, rxpc, toDevice,
                   line, made, sent, posted, timeouts, accepted, handled, told>>

\* a wait that looks at the semaphore and does not take it,
AwaitKeeps(t) ==
    /\ Step(t, "await", "clear")
    /\ outcome' = [outcome EXCEPT ![req[t].id] = IF srspSem > 0 THEN "success" ELSE "error"]
    /\ timeouts' = IF srspSem > 0 THEN timeouts ELSE timeouts + 1
    /\ UNCHANGED <<llqVars, rpcSem, srspSem, expected, srspRpcBuff, req, frame, rxpc,
                   toDevice, line, made, sent, posted, accepted, handled, told>>

\* sem_timedwait on srspSem.  Its deadline is whole seconds from the start of the
\* current second, so that it may run out at any time; but a semaphore that is
\* posted is taken without looking at the deadline.
Await(t) ==
    /\ Step(t, "await", "clear")
    /\ IF srspSem > 0
       THEN /\ srspSem' = srspSem - 1
            /\ outcome' = [outcome EXCEPT ![req[t].id] = "success"]
            /\ UNCHANGED timeouts
       ELSE /\ outcome' = [outcome EXCEPT ![req[t].id] = "error"]
            /\ timeouts' = timeouts + 1
            /\ UNCHANGED srspSem
    /\ UNCHANGED <<llqVars, rpcSem, expected, srspRpcBuff, req, frame, rxpc, toDevice,
                   line, made, sent, posted, accepted, handled, told>>

\* and what was awaited still awaited.
ClearNot(t) ==
    /\ Step(t, "clear", "unlock")
    /\ UNCHANGED <<llqVars, rpcSem, srspSem, expected, srspRpcBuff, req, frame, rxpc, toDevice,
                   line, made, sent, posted, timeouts, accepted, handled, outcome, told>>

Clear(t) ==
    /\ Step(t, "clear", "unlock")
    /\ expected' = NONE
    /\ UNCHANGED <<llqVars, rpcSem, srspSem, srspRpcBuff, req, frame, rxpc, toDevice,
                   line, made, sent, posted, timeouts, accepted, handled, outcome, told>>

\* rpcSem is posted and rpcSendFrame returns; a request that failed is over.
Unlock(t) ==
    /\ Step(t, "unlock", IF outcome[req[t].id] = "success" THEN "receive" ELSE "idle")
    /\ rpcSem' = rpcSem + 1
    /\ UNCHANGED <<llqVars, srspSem, expected, srspRpcBuff, req, frame, rxpc, toDevice,
                   line, made, sent, posted, timeouts, accepted, handled, outcome, told>>

(***************************************************************************)
(* rpcWaitMqClientMsg and rpcGetMqClientMsg                                *)
(***************************************************************************)

\* A request that succeeded: rpcWaitMqClientMsg(50).
Receive(t) ==
    /\ Step(t, "receive", "receiving")
    /\ llq_timedreceive(t)
    /\ UNCHANGED <<rpcSem, srspSem, expected, srspRpcBuff, req, frame, rxpc, toDevice,
                   line, made, sent, posted, timeouts, accepted, handled, outcome, told>>

\* A thread waits for messages outside a request: appMsgProcess, the loops of
\* appProcess, appInit and startNetwork; rpcGetMqClientMsg has no timeout.
Listen(t) ==
    /\ Step(t, "idle", "listening")
    /\ llq_timedreceive(t) \/ llq_receive(t)
    /\ UNCHANGED <<rpcSem, srspSem, expected, srspRpcBuff, req, frame, rxpc, toDevice,
                   line, made, sent, posted, timeouts, accepted, handled, outcome, told>>

AppQueueStep(t) == LlqStep(t) /\ at[t] # "got" /\ UNCHANGED rpcVars

AfterReceive(t) == IF pc[t] = "receiving" THEN "status" ELSE "idle"

\* A message has come: mtProcess.  Every module's processSrsp copies a response to
\* srspRpcBuff; the callbacks only print.
mtProcess(t) ==
    /\ at[t] = "got"
    /\ Return(t)
    /\ handled' = handled \cup {item[t]}
    /\ srspRpcBuff' = IF item[t].type = "SRSP" THEN item[t] ELSE srspRpcBuff
    /\ pc' = [pc EXCEPT ![t] = AfterReceive(t)]
    /\ UNCHANGED <<rpcSem, srspSem, expected, req, frame, rxpc, toDevice, line, made,
                   sent, posted, timeouts, accepted, outcome, told>>

\* None has come in time.
NoMessageCame(t) ==
    /\ pc[t] \in {"receiving", "listening"}
    /\ at[t] = "out"
    /\ pc' = [pc EXCEPT ![t] = AfterReceive(t)]
    /\ UNCHANGED <<llqVars, rpcSem, srspSem, expected, srspRpcBuff, req, frame, rxpc,
                   toDevice, line, made, sent, posted, timeouts, accepted, handled,
                   outcome, told>>

\* status = srspRpcBuff[2], as zdoInit does whatever the receive returned.
Status(t) ==
    /\ Step(t, "status", "idle")
    /\ told' = [told EXCEPT ![req[t].id] = IF req[t].type = "SREQ" THEN srspRpcBuff
                                                                  ELSE NoMessage]
    /\ UNCHANGED <<llqVars, rpcSem, srspSem, expected, srspRpcBuff, req, frame, rxpc,
                   toDevice, line, made, sent, posted, timeouts, accepted, handled,
                   outcome>>

(***************************************************************************)
(* rpcProcess                                                              *)
(***************************************************************************)

\* A frame has been read.  One that fails its check is dropped (return -1), and so
\* is a response in a subsystem that is not awaited (return 0).
Read ==
    /\ rxpc = "read"
    /\ line # << >>
    /\ line' = Tail(line)
    /\ \/ UNCHANGED <<llqVars, rxpc, frame, accepted>>  \* FCS error
       \/ LET m == Head(line)
          IN \/ /\ m.type = "SRSP"
                /\ IF expected = m.sub
                   THEN /\ rxpc' = "post"
                        /\ frame' = m
                        /\ accepted' = accepted \cup {m}
                   ELSE UNCHANGED <<rxpc, frame, accepted>>
                /\ UNCHANGED llqVars
             \/ /\ m.type = "AREQ"
                /\ llq_add(Rx, m)
                /\ rxpc' = "queue"
                /\ accepted' = accepted \cup {m}
                /\ UNCHANGED frame
    /\ UNCHANGED <<rpcSem, srspSem, expected, srspRpcBuff, pc, req, toDevice, made, sent,
                   posted, timeouts, handled, outcome, told>>

\* The requester is released,
Post ==
    /\ rxpc = "post"
    /\ srspSem' = srspSem + 1
    /\ posted' = posted \cup {frame.id}
    /\ rxpc' = "add"
    /\ UNCHANGED <<llqVars, rpcSem, expected, srspRpcBuff, pc, req, frame, toDevice, line,
                   made, sent, timeouts, accepted, handled, outcome, told>>

\* and only then is the response put at the head of the queue.
AddResponse ==
    /\ rxpc = "add"
    /\ llq_add(Rx, frame)
    /\ rxpc' = "queue"
    /\ frame' = NoMessage
    /\ UNCHANGED <<rpcSem, srspSem, expected, srspRpcBuff, pc, req, toDevice, line, made,
                   sent, posted, timeouts, accepted, handled, outcome, told>>

RxQueueStep ==
    /\ LlqStep(Rx)
    /\ rxpc' = IF at[Rx] = "counting" THEN "read" ELSE rxpc
    /\ UNCHANGED <<rpcSem, srspSem, expected, srspRpcBuff, pc, req, frame, toDevice, line,
                   made, sent, posted, timeouts, accepted, handled, outcome, told>>

(***************************************************************************)
(* The network processor                                                   *)
(***************************************************************************)

\* It takes requests in order and answers each that wants an answer, when it likes.
Answer ==
    /\ toDevice # << >>
    /\ toDevice' = Tail(toDevice)
    /\ line' = IF Head(toDevice).type = "SREQ" THEN Append(line, Srsp(Head(toDevice)))
                                               ELSE line
    /\ UNCHANGED <<llqVars, rpcSem, srspSem, expected, srspRpcBuff, pc, req, frame, rxpc,
                   made, sent, posted, timeouts, accepted, handled, outcome, told>>

Indicate ==
    /\ sent < MaxAreqs
    /\ sent' = sent + 1
    /\ line' = Append(line, [type |-> "AREQ", id |-> sent + 1])
    /\ UNCHANGED <<llqVars, rpcSem, srspSem, expected, srspRpcBuff, pc, req, frame, rxpc,
                   toDevice, made, posted, timeouts, accepted, handled, outcome, told>>

rpcSendFrame(t) == Enter(t) \/ Write(t) \/ Await(t) \/ Clear(t) \/ Unlock(t)
rpcWaitMqClientMsg(t) == \/ Receive(t) \/ AppQueueStep(t)
                         \/ mtProcess(t) \/ NoMessageCame(t)
rpcProcess == Read \/ Post \/ AddResponse \/ RxQueueStep

Next == \/ \E t \in Senders : Call(t)
        \/ \E t \in Listeners : Listen(t)
        \/ \E t \in Apps : rpcSendFrame(t) \/ rpcWaitMqClientMsg(t) \/ Status(t)
        \/ rpcProcess
        \/ Answer \/ Indicate

Spec == Init /\ [][Next]_vars

\* The scheduler runs every thread that can run; a listener listens again.  The
\* network processor owes nothing, and nothing makes an application call.
FairSpec == /\ Spec
            /\ \A t \in Apps : WF_vars(rpcSendFrame(t) \/ rpcWaitMqClientMsg(t) \/ Status(t))
            /\ \A t \in Listeners : WF_vars(Listen(t))
            /\ WF_vars(rpcProcess)

(***************************************************************************)
(* Properties                                                              *)
(***************************************************************************)

TypeOK ==
    /\ LlqTypeOK
    /\ rpcSem \in {0, 1} /\ srspSem \in Nat
    /\ expected \in Subs \cup {NONE}
    /\ srspRpcBuff \in Srsps \cup {NoMessage}
    /\ pc \in [Apps -> Pc]
    /\ req \in [Apps -> Request \cup {NoMessage}]
    /\ frame \in Srsps \cup {NoMessage}
    /\ rxpc \in {"read", "post", "add", "queue"}
    /\ toDevice \in Seq(Request) /\ line \in Seq(Message)
    /\ made \in 0 .. MaxRequests /\ sent \in 0 .. MaxAreqs
    /\ posted \subseteq Ids /\ timeouts \in Nat
    /\ accepted \subseteq Message /\ handled \subseteq Message
    /\ outcome \in [Ids -> {"none", "success", "error"}]
    /\ told \in [Ids -> Srsps \cup {NoMessage}]

\* rpcSem does what rpc.c:85-86 says, one thread at a time sends; and a response
\* can match only while the thread that sends awaits it in its subsystem.
OneRequestAtATime ==
    /\ rpcSem + Cardinality(Sending) = 1
    /\ expected # NONE => \E t \in Sending : /\ req[t].type = "SREQ"
                                             /\ req[t].sub = expected
                                             /\ pc[t] # "unlock"

\* A message the receiving thread has accepted is in one place: with that thread,
\* in the queue, with the one thread that took it, or processed.  None is lost
\* and none is processed twice, whichever of the application's threads takes it.
InHand == {t \in Apps : at[t] = "got"}
NothingLostOrTwice ==
    Cardinality(accepted) = Len(nodes) + Cardinality(InHand) + Cardinality(handled)
                            + (IF \/ rxpc \in {"post", "add"}
                                  \/ at[Rx] \in {"adding", "linking"} THEN 1 ELSE 0)

\* As long as no wait has been given up, a request that is reported successful has
\* been answered: by its own response, not by another of its subsystem.
SuccessMeansAnswered ==
    timeouts = 0 =>
        \A t \in Apps : /\ pc[t] \in {"clear", "unlock", "receive", "receiving", "status"}
                        /\ req[t].type = "SREQ"
                        => req[t].id \in posted

\* The response semaphore is at most one more than the waits given up: a late
\* response can leave it posted, but each given up wait pays for one.
Awaiting == {t \in Apps : pc[t] \in {"write", "await"} /\ req[t].type = "SREQ"}
SpareTokens ==
    srspSem + (IF rxpc = "post" THEN 1 ELSE 0) <= timeouts + Cardinality(Awaiting)

\* Whoever has entered rpcSendFrame leaves it, answered or not.
RequestEnds == \A t \in Apps : t \in Sending ~> t \notin Sending

\* What has been accepted is processed in the end, as long as a thread keeps
\* listening: nothing stays in the queue with the semaphore that counts it at zero.
QueueDrains == accepted # handled ~> accepted = handled

\* zdoInit (mtZdo.c:2804-2810): the response is at the front of the queue when
\* rpcSendFrame returns, so that the status read next is that of this response;
\* stated for requests none of which has given up.
StatusIsOwn == timeouts = 0 => \A i \in Ids : told[i] # NoMessage => told[i].id = i
================================================================================
