---------------------------- MODULE TopologyProofs ----------------------------
(***************************************************************************)
(* Start-up and the rounds of the topology example, for every network that *)
(* is a tree, every page size and every number of rounds and losses.       *)
(*                                                                         *)
(* StartInv follows what the processor announces: an indication sent after *)
(* zdoInit speaks of the network that is started, whenever it is taken     *)
(* from the queue.  ListInv adds the list: every activation of the handler *)
(* owns one entry and has filled it as far as it has come (CallsOwn,       *)
(* ChildsOwn), and in a clean round a node is asked, answers and is listed *)
(* only once (Once) and is known just when it must be (SoFar).             *)
(***************************************************************************)
EXTENDS Topology, FiniteSetTheorems, SequenceTheorems, TLAPS

--------------------------------------------------------------------------------
(* Start-up.                                                                 *)
Early == {"flush", "ask", "option", "reset", "settle", "devtype", "panid",
          "chanlist", "register", "init"}
Places == Early \cup {"wait", "keep", "up", "error", "direct", "ready",
                      "listen", "printed"}
States == 0 .. 9
StateMsg == [kind : {"state"}, state : States, old : BOOLEAN]
ResetMsg == [kind : {"reset"}]
LqiMsg == [kind : {"lqi"}, src : Addrs, ok : BOOLEAN]
Messages == StateMsg \cup ResetMsg \cup LqiMsg

StartTypes ==
    /\ pc \in Places /\ newNwk \in BOOLEAN
    /\ devType \in Types \cup {"other"} /\ devState \in States
    /\ mq \in Seq(Messages)
    /\ nv \in [option : {KEEP, CLEAR}, type : Types]
    /\ soc \in [state : States, todo : Seq(States),
                net : {"none", "old", "new"}, inited : BOOLEAN]
    /\ result \in {"none", "up", "error"}
    /\ hadNetwork \in BOOLEAN /\ wasReset \in BOOLEAN /\ refused \in BOOLEAN
    /\ stale \in BOOLEAN /\ mistaken \in BOOLEAN

\* The states to come lead up: past joining, none falls back behind it.
Climbs(todo) == \A j, k \in 1 .. Len(todo) :
                   j <= k /\ todo[j] >= DEV_END_DEVICE
                   => todo[k] >= DEV_END_DEVICE
SocUp == /\ soc.state >= DEV_END_DEVICE
         /\ \A k \in 1 .. Len(soc.todo) : soc.todo[k] >= DEV_END_DEVICE
IsFresh(m) == m.kind = "state" /\ ~m.old

\* zdoInit comes last, and nothing counts as fresh before.
InitedLate == soc.inited => pc \notin Early
NothingFresh ==
    ~soc.inited => /\ \A k \in 1 .. Len(mq) : ~IsFresh(mq[k])
                   /\ ~stale => devState < DEV_END_DEVICE
\* What was indicated since is so.
FreshIsTrue ==
    soc.inited =>
       /\ \A k \in 1 .. Len(mq) :
             IsFresh(mq[k]) /\ mq[k].state >= DEV_END_DEVICE => SocUp
       /\ ~stale /\ devState >= DEV_END_DEVICE => SocUp
\* "up" went by such an indication.
UpWasSeen == (pc = "up" \/ result = "up") /\ ~mistaken => soc.inited /\ SocUp
ResultLate == result # "none" => pc \in {"direct", "ready"}
\* The processor's network, at each place of start-up.
NetworkSoFar ==
    /\ pc \in {"flush", "ask", "option", "reset"} =>
          ~wasReset /\ soc.net = IF hadNetwork THEN "old" ELSE "none"
    /\ pc = "reset" /\ ~refused => nv.option = StartOption
    /\ wasReset /\ ~refused =>
          soc.net = IF hadNetwork /\ ~newNwk THEN "old"
                    ELSE IF soc.inited THEN "new" ELSE "none"

StartInv ==
    /\ StartTypes /\ Climbs(soc.todo)
    /\ InitedLate /\ NothingFresh /\ FreshIsTrue /\ UpWasSeen /\ ResultLate
    /\ NetworkSoFar

--------------------------------------------------------------------------------
(* The list of nodes, in every round.                                        *)
Node == [NodeAddr : Addrs, Type : {"coordinator", "router"},
         childs : Seq([addr : Addrs, type : Types])]
Call == [local : Nat, src : Addrs, i : Nat, waits : BOOLEAN]

ListTypes == /\ nodeList \in Seq(Node) /\ calls \in Seq(Call)
             /\ BagToSet(asked) \subseteq Addrs
             /\ rounds \in 0 .. MaxRounds
             /\ clean \in BOOLEAN

\* An activation has an entry of the list to itself.
CallsOwn ==
    /\ \A n \in 1 .. Len(calls) :
          /\ calls[n].local \in 1 .. Len(nodeList)
          /\ calls[n].src = nodeList[calls[n].local].NodeAddr
          /\ calls[n].i \in 1 .. Len(Page(calls[n].src)) + 1
    /\ \A m, n \in 1 .. Len(calls) : calls[m].local = calls[n].local => m = n
    /\ calls # << >> => pc = "listen"

PageOf(l) == Page(nodeList[l].NodeAddr)
\* Entry j of the table of node l was looked at.
Treated(l, j) ==
    /\ j \in 1 .. Len(PageOf(l))
    /\ \A n \in 1 .. Len(calls) : calls[n].local = l => j < calls[n].i

\* The children listed are those among the entries looked at.
ChildsOwn ==
    \A l \in 1 .. Len(nodeList) :
       /\ \A n \in 1 .. Len(calls) : calls[n].local = l =>
             Len(nodeList[l].childs) =
                Rank(nodeList[l].NodeAddr, calls[n].i - 1)
       /\ (\A n \in 1 .. Len(calls) : calls[n].local # l) =>
             Len(nodeList[l].childs) =
                Rank(nodeList[l].NodeAddr, Len(PageOf(l)))
       /\ \A j \in 1 .. Len(PageOf(l)) :
             Treated(l, j) /\ IsChild(PageOf(l)[j]) =>
                nodeList[l].childs[Rank(nodeList[l].NodeAddr, j)] =
                   [addr |-> PageOf(l)[j].addr, type |-> PageOf(l)[j].type]

(* A clean round: a node is asked, then its response comes, then it is       *)
(* listed.                                                                   *)
Coming == {mq[k].src : k \in {k \in 1 .. Len(mq) : mq[k].kind = "lqi"}}
Listed == {nodeList[k].NodeAddr : k \in 1 .. Len(nodeList)}
Known == BagToSet(asked) \cup Coming \cup Listed

Once ==
    /\ asked = SetToBag(BagToSet(asked))
    /\ \A k \in 1 .. Len(mq) : mq[k].kind = "lqi" => mq[k].ok
    /\ \A j, k \in 1 .. Len(mq) :
          mq[j].kind = "lqi" /\ mq[k].kind = "lqi" /\ mq[j].src = mq[k].src
          => j = k
    /\ \A j, k \in 1 .. Len(nodeList) :
          nodeList[j].NodeAddr = nodeList[k].NodeAddr => j = k
    /\ BagToSet(asked) \cap Coming = {}
    /\ BagToSet(asked) \cap Listed = {}
    /\ Coming \cap Listed = {}

\* What is known is what has to be, so far as pages were looked at; and none
\* but the coordinator is known that was not named.
Names(l, j, a) == /\ Treated(l, j) /\ IsAsked(PageOf(l)[j])
                  /\ PageOf(l)[j].addr = a
SoFar ==
    /\ Coordinator \in Known
    /\ \A S \in SUBSET Addrs : Closed(S) => Known \subseteq S
    /\ \A l \in 1 .. Len(nodeList) : \A j \in 1 .. Len(PageOf(l)) :
          Treated(l, j) /\ IsAsked(PageOf(l)[j]) => PageOf(l)[j].addr \in Known
    /\ \A a \in Known \ {Coordinator} :
          \E l \in 1 .. Len(nodeList) : \E j \in 1 .. Len(PageOf(l)) :
             Names(l, j, a)

CleanRound == clean /\ pc = "listen" => Once /\ SoFar

ListInv == /\ StartInv /\ ListTypes /\ CallsOwn /\ ChildsOwn
           /\ CleanRound /\ Discovered

--------------------------------------------------------------------------------
(* Messages.                                                                 *)
LEMMA MessageKinds ==
    ASSUME NEW m \in Messages, m.kind = "state"
    PROVE  m.state \in States /\ m.old \in BOOLEAN
BY DEF Messages, StateMsg, ResetMsg, LqiMsg

(* What a wait does to the queue and to the state last indicated: messages   *)
(* leave the queue, and one of them may be an indication.                    *)
Heard ==
    /\ mq' \in Seq(Messages) /\ devState' \in States /\ stale' \in BOOLEAN
    /\ \A k \in 1 .. Len(mq') : \E j \in 1 .. Len(mq) : mq'[k] = mq[j]
    /\ \/ devState' = devState /\ stale' = stale
       \/ \E j \in 1 .. Len(mq) : /\ mq[j].kind = "state"
                                  /\ devState' = mq[j].state
                                  /\ stale' = mq[j].old

LEMMA ProcessHears ==
    ASSUME StartTypes, Process
    PROVE  Heard
<1>1. /\ mq \in Seq(Messages) /\ mq # << >>
      /\ devState \in States /\ stale \in BOOLEAN
      /\ mq' = Tail(mq)
      /\ devState' = IF Head(mq).kind = "state" THEN Head(mq).state
                     ELSE devState
      /\ stale' = IF Head(mq).kind = "state" THEN Head(mq).old ELSE stale
  BY DEF StartTypes, Process, mtZdoStateChangeIndCb
<1>2. /\ Head(mq) = mq[1] /\ 1 \in 1 .. Len(mq)
      /\ mq[1] \in Messages
      /\ Tail(mq) \in Seq(Messages)
      /\ \A k \in 1 .. Len(Tail(mq)) : /\ k + 1 \in 1 .. Len(mq)
                                       /\ Tail(mq)[k] = mq[k + 1]
  BY <1>1
<1>3. mq[1].kind = "state" => mq[1].state \in States /\ mq[1].old \in BOOLEAN
  BY <1>2, MessageKinds
<1>4. devState' \in States /\ stale' \in BOOLEAN
  BY <1>1, <1>2, <1>3
<1>5. \A k \in 1 .. Len(mq') : \E j \in 1 .. Len(mq) : mq'[k] = mq[j]
  BY <1>1, <1>2
<1>6. \/ devState' = devState /\ stale' = stale
      \/ \E j \in 1 .. Len(mq) : /\ mq[j].kind = "state"
                                 /\ devState' = mq[j].state
                                 /\ stale' = mq[j].old
  <2>1. CASE mq[1].kind = "state"
    BY <2>1, <1>1, <1>2
  <2>2. CASE mq[1].kind # "state"
    BY <2>2, <1>1, <1>2
  <2>3. QED BY <2>1, <2>2
<1>7. QED BY <1>1, <1>2, <1>4, <1>5, <1>6 DEF Heard

LEMMA NothingHeard ==
    ASSUME StartTypes, UNCHANGED <<mq, devState, stale>>
    PROVE  Heard
BY DEF StartTypes, Heard

LEMMA ResponseHears ==
    ASSUME StartTypes, Response
    PROVE  Heard
BY ProcessHears, NothingHeard DEF Response

(* What was true of every message and of the state indicated still is.       *)
LEMMA HeardKeeps ==
    ASSUME StartInv, Heard, UNCHANGED soc
    PROVE  NothingFresh' /\ FreshIsTrue' /\ Climbs(soc.todo)'
<1>1. SocUp' <=> SocUp
  BY DEF SocUp
<1>2. ~soc.inited => /\ \A k \in 1 .. Len(mq') : ~IsFresh(mq'[k])
                     /\ ~stale' => devState' < DEV_END_DEVICE
  BY DEF StartInv, NothingFresh, Heard, IsFresh
<1>3. soc.inited =>
         /\ \A k \in 1 .. Len(mq') :
               IsFresh(mq'[k]) /\ mq'[k].state >= DEV_END_DEVICE => SocUp
         /\ ~stale' /\ devState' >= DEV_END_DEVICE => SocUp
  BY DEF StartInv, FreshIsTrue, Heard, IsFresh
<1>4. QED BY <1>1, <1>2, <1>3
          DEF NothingFresh, FreshIsTrue, StartInv, Climbs, IsFresh

(* A step that leaves the processor and the questions asked alone.           *)
LEMMA LocalStep ==
    ASSUME StartInv, Heard,
           UNCHANGED <<soc, newNwk, hadNetwork, wasReset>>,
           pc' \in Places, devType' \in Types \cup {"other"},
           nv' \in [option : {KEEP, CLEAR}, type : Types],
           refused' \in BOOLEAN, pc = "option" \/ refused' = refused,
           result' \in {"none", "up", "error"}, mistaken' \in BOOLEAN,
           pc' \in Early => pc \in Early,
           pc' \in {"flush", "ask", "option"} => pc' = pc,
           pc' = "reset" =>
              pc = "option" /\ (refused' \/ nv'.option = StartOption),
           result' # "none" => pc' \in {"direct", "ready"},
           (pc' = "up" \/ result' = "up") /\ ~mistaken' =>
              \/ (pc = "up" \/ result = "up") /\ ~mistaken
              \/ ~stale' /\ devState' >= DEV_END_DEVICE
    PROVE  StartInv'
<1>1. NothingFresh' /\ FreshIsTrue' /\ Climbs(soc.todo)'
  BY HeardKeeps
<1>2. StartTypes'
  BY DEF StartInv, StartTypes, Heard
<1>3. InitedLate' /\ ResultLate'
  BY DEF StartInv, InitedLate, ResultLate
<1>4. SocUp' <=> SocUp
  BY DEF SocUp
<1>5. devState' \in Int
  BY <1>2 DEF StartTypes, States
<1>6. UpWasSeen'
  BY <1>1, <1>4, <1>5
     DEF StartInv, UpWasSeen, NothingFresh, FreshIsTrue, DEV_END_DEVICE
<1>7. NetworkSoFar'
  BY DEF StartInv, NetworkSoFar, StartOption
<1>8. QED BY <1>1, <1>2, <1>3, <1>6, <1>7 DEF StartInv

--------------------------------------------------------------------------------
(* The steps of start-up.                                                    *)
\* The paths a processor may announce.
LEMMA Paths ==
    ASSUME NEW t \in Types
    PROVE  Path[t] \in Seq(States) /\ Climbs(Path[t])
<1>1. CASE t = "coordinator"
  <2>1. Path[t] = <<8, 9>>
    BY <1>1 DEF Path, DEV_COORD_STARTING, DEV_ZB_COORD
  <2>2. QED BY <2>1 DEF Climbs, States, DEV_END_DEVICE
<1>2. CASE t = "router"
  <2>1. Path[t] = <<2, 7>>
    BY <1>2 DEF Path, DEV_NWK_DISC, DEV_ROUTER
  <2>2. QED BY <2>1 DEF Climbs, States, DEV_END_DEVICE
<1>3. CASE t = "enddevice"
  <2>1. Path[t] = <<2, 6>>
    BY <1>3 DEF Path, DEV_NWK_DISC, DEV_END_DEVICE
  <2>2. QED BY <2>1 DEF Climbs, States, DEV_END_DEVICE
<1>4. QED BY <1>1, <1>2, <1>3 DEF Types

LEMMA StartInitInv == StartInit => StartInv
<1>1. SUFFICES ASSUME StartInit PROVE StartInv
  OBVIOUS
<1>2. PICK begun \in BOOLEAN :
         soc = [state |-> DEV_HOLD,
                todo |-> IF hadNetwork /\ begun THEN Path[nv.type] ELSE << >>,
                net |-> IF hadNetwork THEN "old" ELSE "none",
                inited |-> FALSE]
  BY <1>1 DEF StartInit
<1>3. nv.type \in Types /\ hadNetwork \in BOOLEAN
  BY <1>1 DEF StartInit
<1>4. soc.todo \in Seq(States) /\ Climbs(soc.todo)
  <2>1. CASE soc.todo = << >>
    BY <2>1 DEF Climbs
  <2>2. CASE soc.todo = Path[nv.type]
    BY <2>2, <1>3, Paths
  <2>3. QED BY <1>2, <2>1, <2>2
<1>5. /\ soc \in [state : States, todo : Seq(States),
                  net : {"none", "old", "new"}, inited : BOOLEAN]
      /\ soc.inited = FALSE /\ soc.net = IF hadNetwork THEN "old" ELSE "none"
  BY <1>2, <1>4 DEF States, DEV_HOLD
<1>6. StartTypes
  <2>1. mq \in Seq(Messages) /\ devState \in States
    BY <1>1 DEF StartInit, States, DEV_HOLD
  <2>2. /\ pc \in Places /\ newNwk \in BOOLEAN
        /\ devType \in Types \cup {"other"}
        /\ result \in {"none", "up", "error"}
        /\ wasReset \in BOOLEAN /\ refused \in BOOLEAN
        /\ stale \in BOOLEAN /\ mistaken \in BOOLEAN
    BY <1>1 DEF StartInit, Places, Early
  <2>3. /\ nv \in [option : {KEEP, CLEAR}, type : Types]
        /\ hadNetwork \in BOOLEAN
    BY <1>1 DEF StartInit
  <2>4. QED BY <1>5, <2>1, <2>2, <2>3 DEF StartTypes
<1>7. QED
  BY <1>1, <1>4, <1>5, <1>6
     DEF StartInit, StartInv, InitedLate, NothingFresh, FreshIsTrue, UpWasSeen,
         ResultLate, NetworkSoFar, Early, DEV_HOLD, DEV_END_DEVICE

\* The processor takes the next step it announced.
LEMMA ProgressInv == ASSUME StartInv, Progress PROVE StartInv'
<1>1. /\ soc \in [state : States, todo : Seq(States),
                  net : {"none", "old", "new"}, inited : BOOLEAN]
      /\ soc.todo # << >> /\ mq \in Seq(Messages)
      /\ soc' = [soc EXCEPT !.state = Head(soc.todo), !.todo = Tail(soc.todo)]
  BY DEF StartInv, StartTypes, Progress
<1>2. /\ Head(soc.todo) = soc.todo[1] /\ Len(soc.todo) \in Nat
      /\ 1 \in 1 .. Len(soc.todo)
      /\ soc.todo[1] \in States
      /\ Tail(soc.todo) \in Seq(States)
      /\ \A k \in 1 .. Len(Tail(soc.todo)) :
            /\ k + 1 \in 1 .. Len(soc.todo)
            /\ Tail(soc.todo)[k] = soc.todo[k + 1]
  BY <1>1
<1>3. /\ soc' \in [state : States, todo : Seq(States),
                   net : {"none", "old", "new"}, inited : BOOLEAN]
      /\ soc'.state = soc.todo[1] /\ soc'.todo = Tail(soc.todo)
      /\ soc'.net = soc.net /\ soc'.inited = soc.inited
  BY <1>1, <1>2
<1>4. PICK m \in Messages :
         /\ m = [kind |-> "state", state |-> soc.todo[1], old |-> ~soc.inited]
         /\ mq' = Append(mq, m)
  <2>1. mq' = Append(mq, [kind |-> "state", state |-> soc.todo[1],
                          old |-> ~soc.inited])
    BY <1>2 DEF Progress, StateChange
  <2>2. [kind |-> "state", state |-> soc.todo[1], old |-> ~soc.inited]
           \in Messages
    BY <1>2 DEF Messages, StateMsg
  <2>3. QED BY <2>1, <2>2
<1>5. /\ mq' \in Seq(Messages) /\ Len(mq') = Len(mq) + 1
      /\ mq'[Len(mq) + 1] = m
      /\ \A k \in 1 .. Len(mq) : mq'[k] = mq[k]
      /\ \A k \in 1 .. Len(mq') : k \in 1 .. Len(mq) \/ k = Len(mq) + 1
  BY <1>1, <1>4
<1>6. Climbs(soc.todo) /\ Climbs(soc'.todo)
  <2>1. Climbs(soc.todo)
    BY DEF StartInv
  <2>2. SUFFICES ASSUME NEW j \in 1 .. Len(Tail(soc.todo)),
                        NEW k \in 1 .. Len(Tail(soc.todo)),
                        j <= k, Tail(soc.todo)[j] >= DEV_END_DEVICE
                 PROVE  Tail(soc.todo)[k] >= DEV_END_DEVICE
    BY <1>3, <2>1 DEF Climbs
  <2>3. j + 1 <= k + 1 /\ soc.todo[j + 1] >= DEV_END_DEVICE
    BY <1>2, <2>2
  <2>4. QED BY <1>2, <2>1, <2>3 DEF Climbs
<1>7. SocUp => SocUp'
  <2>1. SUFFICES ASSUME SocUp PROVE SocUp'
    OBVIOUS
  <2>2. QED BY <2>1, <1>2, <1>3 DEF SocUp
<1>8. soc.todo[1] >= DEV_END_DEVICE => SocUp'
  <2>1. SUFFICES ASSUME soc.todo[1] >= DEV_END_DEVICE PROVE SocUp'
    OBVIOUS
  <2>2. \A k \in 1 .. Len(soc.todo) : soc.todo[k] >= DEV_END_DEVICE
    BY <2>1, <1>2, <1>6 DEF Climbs
  <2>3. QED BY <2>1, <2>2, <1>2, <1>3 DEF SocUp
<1>9. UNCHANGED <<pc, newNwk, devType, devState, nv, result, hadNetwork,
                  wasReset, refused, stale, mistaken>>
  BY DEF Progress
<1>10. StartTypes'
  BY <1>3, <1>5, <1>9 DEF StartInv, StartTypes
<1>11. NothingFresh'
  <2>1. SUFFICES ASSUME ~soc.inited PROVE NothingFresh'
    BY <1>3 DEF NothingFresh
  <2>2. ~IsFresh(m)
    BY <2>1, <1>4 DEF IsFresh
  <2>3. QED BY <2>1, <2>2, <1>5, <1>9 DEF StartInv, NothingFresh
<1>12. FreshIsTrue'
  <2>1. SUFFICES ASSUME soc.inited PROVE FreshIsTrue'
    BY <1>3 DEF FreshIsTrue
  <2>2. m.state >= DEV_END_DEVICE => SocUp'
    BY <1>4, <1>8
  <2>3. QED BY <2>1, <2>2, <1>5, <1>7, <1>9 DEF StartInv, FreshIsTrue
<1>13. InitedLate' /\ UpWasSeen' /\ ResultLate' /\ NetworkSoFar'
  BY <1>3, <1>7, <1>9
     DEF StartInv, InitedLate, UpWasSeen, ResultLate, NetworkSoFar, StartOption
<1>14. QED BY <1>3, <1>6, <1>10, <1>11, <1>12, <1>13 DEF StartInv

\* What an action needs of the invariant to be a LocalStep.
LEMMA StartFacts ==
    ASSUME StartInv
    PROVE  /\ StartTypes
           /\ pc \in Places /\ devType \in Types \cup {"other"}
           /\ nv \in [option : {KEEP, CLEAR}, type : Types]
           /\ result \in {"none", "up", "error"} /\ mistaken \in BOOLEAN
           /\ refused \in BOOLEAN
           /\ result # "none" => pc \in {"direct", "ready"}
           /\ devState \in Int /\ newNwk \in BOOLEAN
BY DEF StartInv, StartTypes, ResultLate, States

LEMMA WriteOption ==
    ASSUME NEW v \in {KEEP, CLEAR},
           nv \in [option : {KEEP, CLEAR}, type : Types]
    PROVE  /\ [nv EXCEPT !.option = v] \in [option : {KEEP, CLEAR}, type : Types]
           /\ [nv EXCEPT !.option = v].option = v
OBVIOUS

LEMMA StartStepInv ==
    ASSUME StartInv, StartStep
    PROVE  StartInv'
<1>0. USE StartFacts DEF Places, Early
<1>1. CASE Flush
  <2>1. CASE Process /\ UNCHANGED pc
    <3>1. Heard
      BY <2>1, ProcessHears
    <3>2. QED BY <1>1, <2>1, <3>1, LocalStep DEF Flush
  <2>2. CASE /\ mq = << >> /\ devState' = DEV_HOLD /\ pc' = "ask"
             /\ UNCHANGED <<mq, stale>>
    <3>1. /\ pc = "flush"
          /\ UNCHANGED <<newNwk, devType, nv, soc, result, hadNetwork, wasReset,
                         refused, mistaken>>
      BY <1>1 DEF Flush
    <3>2. StartTypes'
      BY <2>2, <3>1 DEF StartTypes, States, DEV_HOLD
    <3>3. ~soc.inited /\ result = "none"
      BY <3>1 DEF StartInv, InitedLate
    <3>4. NothingFresh' /\ FreshIsTrue'
      BY <2>2, <3>1, <3>3
         DEF NothingFresh, FreshIsTrue, DEV_HOLD, DEV_END_DEVICE
    <3>5. InitedLate' /\ UpWasSeen' /\ ResultLate'
      BY <2>2, <3>1, <3>3 DEF InitedLate, UpWasSeen, ResultLate
    <3>6. NetworkSoFar' /\ Climbs(soc.todo)'
      BY <2>2, <3>1 DEF StartInv, NetworkSoFar, Climbs
    <3>7. QED BY <3>2, <3>4, <3>5, <3>6 DEF StartInv
  <2>3. QED BY <1>1, <2>1, <2>2 DEF Flush
<1>2. CASE Ask
  <2>1. /\ pc = "ask" /\ pc' = "option" /\ newNwk' \in BOOLEAN
        /\ UNCHANGED <<devType, devState, mq, nv, soc, result, hadNetwork,
                       wasReset, refused, stale, mistaken>>
    BY <1>2 DEF Ask
  <2>2. ~soc.inited /\ result = "none" /\ ~wasReset
    BY <2>1 DEF StartInv, InitedLate, NetworkSoFar
  <2>3. StartTypes'
    BY <2>1 DEF StartTypes
  <2>4. NothingFresh' /\ FreshIsTrue' /\ Climbs(soc.todo)'
    BY <2>1, <2>2 DEF StartInv, NothingFresh, FreshIsTrue, Climbs
  <2>5. InitedLate' /\ UpWasSeen' /\ ResultLate' /\ NetworkSoFar'
    BY <2>1, <2>2
       DEF StartInv, InitedLate, UpWasSeen, ResultLate, NetworkSoFar
  <2>6. QED BY <2>3, <2>4, <2>5 DEF StartInv
<1>3. CASE setNVStartup
  <2>1. Heard
    BY <1>3, ResponseHears DEF setNVStartup, Write
  <2>2. StartOption \in {KEEP, CLEAR}
    BY DEF StartOption
  <2>3. /\ nv' \in {nv, [nv EXCEPT !.option = StartOption]}
        /\ pc = "option" /\ pc' \in {"reset", "error"}
        /\ refused' = (pc' = "reset" /\ nv'.option # StartOption)
        /\ UNCHANGED <<newNwk, devType, soc, result, hadNetwork, wasReset,
                       mistaken>>
    BY <1>3 DEF setNVStartup, Write
  <2>4. /\ nv' \in [option : {KEEP, CLEAR}, type : Types]
        /\ refused' \in BOOLEAN
        /\ pc' = "reset" => refused' \/ nv'.option = StartOption
    BY <2>2, <2>3, WriteOption
  <2>5. QED BY <2>1, <2>3, <2>4, LocalStep
<1>4. CASE sysResetReq
  <2>1. /\ pc = "reset" /\ pc' = "settle"
        /\ UNCHANGED <<newNwk, devType, devState, result, hadNetwork, refused,
                       stale, mistaken>>
    BY <1>4 DEF sysResetReq
  <2>2. /\ ~soc.inited /\ result = "none" /\ ~wasReset
        /\ soc.net = IF hadNetwork THEN "old" ELSE "none"
        /\ ~refused => nv.option = StartOption
    BY <2>1 DEF StartInv, InitedLate, NetworkSoFar
  <2>3. CASE UNCHANGED <<wasReset, nv, soc, mq>>
    <3>1. Heard
      BY <2>1, <2>3, NothingHeard
    <3>2. QED BY <2>1, <2>2, <2>3, <3>1, LocalStep
  <2>4. CASE /\ wasReset' = TRUE
             /\ nv' \in IF nv.option = CLEAR
                        THEN {[nv EXCEPT !.type = t] : t \in Types} ELSE {nv}
             /\ soc' = [state |-> DEV_HOLD, todo |-> << >>,
                        net |-> IF nv.option = CLEAR THEN "none" ELSE soc.net,
                        inited |-> FALSE]
             /\ mq' = Append(mq, ResetInd)
    <3>1. nv' \in [option : {KEEP, CLEAR}, type : Types]
      BY <2>4
    <3>2. /\ mq' \in Seq(Messages) /\ Len(mq') = Len(mq) + 1
          /\ ~IsFresh(mq'[Len(mq) + 1])
          /\ \A k \in 1 .. Len(mq) : mq'[k] = mq[k]
          /\ \A k \in 1 .. Len(mq') : k \in 1 .. Len(mq) \/ k = Len(mq) + 1
      <4>1. PICK m \in Messages : m = ResetInd
        BY DEF ResetInd, Messages, ResetMsg
      <4>2. m.kind # "state"
        BY <4>1 DEF ResetInd
      <4>3. QED BY <2>4, <4>1, <4>2 DEF StartTypes, IsFresh
    <3>3. /\ soc' \in [state : States, todo : Seq(States),
                       net : {"none", "old", "new"}, inited : BOOLEAN]
          /\ soc'.inited = FALSE /\ soc'.todo = << >>
          /\ soc'.net = IF nv.option = CLEAR THEN "none" ELSE soc.net
      BY <2>2, <2>4 DEF States, DEV_HOLD
    <3>4. StartTypes'
      BY <2>1, <2>4, <3>1, <3>2, <3>3 DEF StartTypes
    <3>5. NothingFresh' /\ FreshIsTrue' /\ Climbs(soc.todo)'
      BY <2>1, <2>2, <3>2, <3>3 DEF StartInv, NothingFresh, FreshIsTrue, Climbs
    <3>6. InitedLate' /\ UpWasSeen' /\ ResultLate' /\ NetworkSoFar'
      BY <2>1, <2>2, <2>4, <3>3
         DEF InitedLate, UpWasSeen, ResultLate, NetworkSoFar, StartOption,
             KEEP, CLEAR
    <3>7. QED BY <3>4, <3>5, <3>6 DEF StartInv
  <2>5. QED BY <1>4, <2>3, <2>4 DEF sysResetReq
<1>5. CASE Settle
  <2>1. Heard
    BY <1>5, ProcessHears, NothingHeard DEF Settle, TimedOut
  <2>2. /\ pc = "settle" /\ pc' \in {"devtype", "register"}
        /\ UNCHANGED <<newNwk, devType, nv, soc, result, hadNetwork, wasReset,
                       refused, mistaken>>
    BY <1>5 DEF Settle
  <2>3. QED BY <2>1, <2>2, LocalStep
<1>6. CASE setNVDevType
  <2>1. PICK t \in Types : devType' = t /\ Write("type", t, "panid", "up")
    BY <1>6 DEF setNVDevType
  <2>2. Heard
    BY <2>1, ResponseHears DEF Write
  <2>3. /\ nv' \in {nv, [nv EXCEPT !.type = t]} /\ pc' \in {"panid", "up"}
        /\ pc = "devtype" /\ mistaken' = (pc' = "up")
        /\ UNCHANGED <<newNwk, soc, result, hadNetwork, wasReset, refused>>
    BY <1>6, <2>1 DEF setNVDevType, Write
  <2>4. nv' \in [option : {KEEP, CLEAR}, type : Types]
    BY <2>3
  <2>5. QED BY <2>1, <2>2, <2>3, <2>4, LocalStep
<1>7. CASE setNVPanID
  <2>1. Heard
    BY <1>7, ResponseHears DEF setNVPanID, WriteOther
  <2>2. QED BY <1>7, <2>1, LocalStep DEF setNVPanID, WriteOther
<1>8. CASE setNVChanList
  <2>1. Heard
    BY <1>8, ResponseHears DEF setNVChanList, WriteOther
  <2>2. QED BY <1>8, <2>1, LocalStep DEF setNVChanList, WriteOther
<1>9. CASE registerAf
  <2>1. Heard
    BY <1>9, ResponseHears DEF registerAf, WriteOther
  <2>2. QED BY <1>9, <2>1, LocalStep DEF registerAf, WriteOther
<1>10. CASE zdoInit
  <2>1. Heard
    BY <1>10, ResponseHears DEF zdoInit
  <2>2. /\ pc = "init" /\ pc' \in {"wait", "keep"}
        /\ UNCHANGED <<newNwk, devType, nv, result, hadNetwork, wasReset,
                       refused, mistaken>>
    BY <1>10 DEF zdoInit
  <2>3. CASE UNCHANGED soc
    BY <2>1, <2>2, <2>3, LocalStep
  <2>4. CASE soc' = [soc EXCEPT !.todo = Path[nv.type],
                                !.net = IF soc.net = "none" THEN "new" ELSE @,
                                !.inited = TRUE]
    <3>1. Path[nv.type] \in Seq(States) /\ Climbs(Path[nv.type])
      BY Paths
    <3>2. /\ soc' \in [state : States, todo : Seq(States),
                       net : {"none", "old", "new"}, inited : BOOLEAN]
          /\ soc'.todo = Path[nv.type] /\ soc'.inited
          /\ soc'.net = IF soc.net = "none" THEN "new" ELSE soc.net
      BY <2>4, <3>1 DEF StartTypes
    <3>3. ~soc.inited /\ result = "none"
      BY <2>2 DEF StartInv, InitedLate
    <3>4. StartTypes'
      BY <2>1, <2>2, <3>2 DEF StartTypes, Heard
    <3>5. NothingFresh' /\ FreshIsTrue'
      <4>1. \A k \in 1 .. Len(mq') : ~IsFresh(mq'[k])
        BY <2>1, <3>3 DEF StartInv, NothingFresh, Heard
      <4>2. ~stale' => devState' < DEV_END_DEVICE
        BY <2>1, <3>3 DEF StartInv, NothingFresh, Heard, IsFresh
      <4>3. devState' \in Int
        BY <2>1 DEF Heard, States
      <4>4. ~(~stale' /\ devState' >= DEV_END_DEVICE)
        BY <4>2, <4>3 DEF DEV_END_DEVICE
      <4>5. QED
        BY <3>2, <4>1, <4>4 DEF NothingFresh, FreshIsTrue
    <3>6. InitedLate' /\ UpWasSeen' /\ ResultLate' /\ Climbs(soc.todo)'
      BY <2>2, <3>1, <3>2, <3>3
         DEF InitedLate, UpWasSeen, ResultLate, Climbs
    <3>7. NetworkSoFar'
      BY <2>2, <3>2, <3>3 DEF StartInv, NetworkSoFar
    <3>8. QED BY <3>4, <3>5, <3>6, <3>7 DEF StartInv
  <2>5. QED BY <1>10, <2>3, <2>4 DEF zdoInit
<1>11. CASE Wait
  <2>1. Heard
    BY <1>11, ProcessHears, NothingHeard DEF Wait, TimedOut
  <2>2. /\ pc = "wait" /\ pc' \in {"keep", "wait"}
        /\ UNCHANGED <<newNwk, devType, nv, soc, result, hadNetwork, wasReset,
                       refused, mistaken>>
    BY <1>11 DEF Wait
  <2>3. QED BY <2>1, <2>2, LocalStep
<1>12. CASE Keep
  <2>1. Heard
    BY <1>12, ResponseHears DEF Keep
  <2>2. /\ pc = "keep"
        /\ pc' = IF devState' < DEV_END_DEVICE THEN "error" ELSE "up"
        /\ nv' \in {nv, [nv EXCEPT !.option = KEEP]} /\ mistaken' = stale'
        /\ UNCHANGED <<newNwk, devType, soc, result, hadNetwork, wasReset,
                       refused>>
    BY <1>12 DEF Keep
  <2>3. nv' \in [option : {KEEP, CLEAR}, type : Types]
    BY <2>2, WriteOption
  <2>4. stale' \in BOOLEAN /\ devState' \in Int
    BY <2>1 DEF Heard, States
  <2>5. pc' = "up" => devState' >= DEV_END_DEVICE
    BY <2>2, <2>4 DEF DEV_END_DEVICE
  <2>6. QED BY <2>1, <2>2, <2>3, <2>4, <2>5, LocalStep
<1>13. CASE Report
  <2>1. Heard
    BY <1>13, ResponseHears DEF Report
  <2>2. QED BY <1>13, <2>1, LocalStep DEF Report
<1>14. CASE setNVDirectCb
  <2>1. Heard
    BY <1>14, ResponseHears DEF setNVDirectCb, WriteOther
  <2>2. QED BY <1>14, <2>1, LocalStep DEF setNVDirectCb, WriteOther
<1>15. QED
  BY <1>1, <1>2, <1>3, <1>4, <1>5, <1>6, <1>7, <1>8, <1>9, <1>10, <1>11,
     <1>12, <1>13, <1>14 DEF StartStep

--------------------------------------------------------------------------------
(* Pages, and the rank of a child among the entries of its page.             *)
LEMMA PageType ==
    ASSUME NEW a \in Addrs
    PROVE  /\ Page(a) \in Seq(Entry) /\ Len(Page(a)) \in Nat
           /\ DOMAIN Page(a) = 1 .. Len(Page(a))
           /\ \A k \in 1 .. Len(Page(a)) :
                 /\ k \in DOMAIN Neighbours[a]
                 /\ Page(a)[k] = Neighbours[a][k]
<1>1. Neighbours[a] \in Seq(Entry) /\ PageSize \in Nat
  BY NetworkAssumption
<1>2. PICK n \in 0 .. Len(Neighbours[a]) : Page(a) = SubSeq(Neighbours[a], 1, n)
  <2>1. /\ Len(Neighbours[a]) \in 0 .. Len(Neighbours[a])
        /\ Len(Neighbours[a]) >= PageSize => PageSize \in 0 .. Len(Neighbours[a])
    BY <1>1
  <2>2. QED BY <1>1, <2>1 DEF Page
<1>3. QED BY <1>1, <1>2

LEMMA RankStep ==
    ASSUME NEW a \in Addrs, NEW n \in Nat
    PROVE  /\ IsFiniteSet({k \in 1 .. n : IsChild(Page(a)[k])})
           /\ Rank(a, n) \in Nat /\ Rank(a, 0) = 0
           /\ Rank(a, n + 1) = Rank(a, n)
                 + IF IsChild(Page(a)[n + 1]) THEN 1 ELSE 0
<1> DEFINE Among(m) == {k \in 1 .. m : IsChild(Page(a)[k])}
<1>1. IsFiniteSet(1 .. n)
  BY FS_Interval
<1>2. IsFiniteSet(Among(n)) /\ Cardinality(Among(n)) \in Nat
  BY <1>1, FS_Subset, FS_CardinalityType
<1>3. Among(0) = {}
  OBVIOUS
<1>4. CASE IsChild(Page(a)[n + 1])
  <2>1. Among(n + 1) = Among(n) \cup {n + 1} /\ n + 1 \notin Among(n)
    BY <1>4
  <2>2. Cardinality(Among(n + 1)) = Cardinality(Among(n)) + 1
    BY <1>2, <2>1, FS_AddElement
  <2>3. QED BY <1>2, <1>3, <1>4, <2>2, FS_EmptySet DEF Rank
<1>5. CASE ~IsChild(Page(a)[n + 1])
  <2>1. Among(n + 1) = Among(n)
    BY <1>5
  <2>2. Rank(a, n + 1) = Rank(a, n)
    BY <2>1 DEF Rank
  <2>3. QED BY <1>2, <1>3, <1>5, <2>2, FS_EmptySet DEF Rank
<1>6. QED BY <1>4, <1>5

LEMMA RankGrows ==
    ASSUME NEW a \in Addrs, NEW n \in Nat, NEW j \in 1 .. n
    PROVE  /\ Rank(a, j) \in Nat /\ Rank(a, j) <= Rank(a, n)
           /\ IsChild(Page(a)[j]) => Rank(a, j) >= 1
<1>1. {k \in 1 .. j : IsChild(Page(a)[k])} \subseteq
         {k \in 1 .. n : IsChild(Page(a)[k])}
  OBVIOUS
<1>2. IsFiniteSet({k \in 1 .. n : IsChild(Page(a)[k])})
  BY RankStep
<1>3. Rank(a, j) <= Rank(a, n)
  BY <1>1, <1>2, FS_Subset DEF Rank
<1>4. j \in Nat /\ j - 1 \in Nat /\ (j - 1) + 1 = j
  OBVIOUS
<1>5. /\ Rank(a, j - 1) \in Nat
      /\ Rank(a, (j - 1) + 1) = Rank(a, j - 1)
            + IF IsChild(Page(a)[(j - 1) + 1]) THEN 1 ELSE 0
  BY <1>4, RankStep
<1>6. Rank(a, j) = Rank(a, j - 1) + IF IsChild(Page(a)[j]) THEN 1 ELSE 0
  BY <1>4, <1>5
<1>7. QED BY <1>3, <1>4, <1>5, <1>6, RankStep

LEMMA LastOf ==
    ASSUME NEW S, NEW s \in Seq(S), s # << >>
    PROVE  /\ Len(s) \in 1 .. Len(s) /\ Len(s) - 1 \in Nat
           /\ s[Len(s)] \in S
           /\ SubSeq(s, 1, Len(s) - 1) \in Seq(S)
           /\ Len(SubSeq(s, 1, Len(s) - 1)) = Len(s) - 1
           /\ \A k \in 1 .. Len(s) - 1 : SubSeq(s, 1, Len(s) - 1)[k] = s[k]
<1>1. /\ Len(s) \in Nat /\ Len(s) # 0
      /\ \A k \in 1 .. Len(s) : s[k] \in S
  BY EmptySeq, ElementOfSeq
<1>2. /\ Len(s) \in 1 .. Len(s) /\ Len(s) - 1 \in Nat
      /\ 1 \in 1 .. Len(s) + 1 /\ Len(s) - 1 \in 1 - 1 .. Len(s)
      /\ s[Len(s)] \in S
  BY <1>1
<1>3. PICK n \in 1 - 1 .. Len(s) : n = Len(s) - 1
  BY <1>2
<1>4. /\ SubSeq(s, 1, n) \in Seq(S)
      /\ Len(SubSeq(s, 1, n)) = IF 1 <= n THEN n - 1 + 1 ELSE 0
      /\ \A k \in 1 .. n - 1 + 1 : SubSeq(s, 1, n)[k] = s[1 + k - 1]
  BY <1>2, SubSeqProperties
<1>5. Len(SubSeq(s, 1, n)) = n /\ \A k \in 1 .. n : SubSeq(s, 1, n)[k] = s[k]
  BY <1>4
<1>6. QED BY <1>2, <1>3, <1>4, <1>5

LEMMA ReplaceLast ==
    ASSUME NEW S, NEW s \in Seq(S), s # << >>, NEW x \in S
    PROVE  /\ Append(SubSeq(s, 1, Len(s) - 1), x) \in Seq(S)
           /\ Len(Append(SubSeq(s, 1, Len(s) - 1), x)) = Len(s)
           /\ Append(SubSeq(s, 1, Len(s) - 1), x)[Len(s)] = x
           /\ \A k \in 1 .. Len(s) - 1 :
                 Append(SubSeq(s, 1, Len(s) - 1), x)[k] = s[k]
BY LastOf

--------------------------------------------------------------------------------
(* What a step does to the list and to the activations.                      *)

ListAnyInv == StartTypes /\ ListTypes /\ CallsOwn /\ ChildsOwn

\* Other activations of the same nodes, come equally far.
SameCalls(stack) ==
    /\ stack \in Seq(Call) /\ Len(stack) = Len(calls)
    /\ \A n \in 1 .. Len(calls) : /\ stack[n].local = calls[n].local
                                  /\ stack[n].src = calls[n].src
                                  /\ stack[n].i = calls[n].i

\* A response opens an entry of the list, and an activation for it.
Enters(a) ==
    /\ a \in Addrs
    /\ \E t \in {"coordinator", "router"} :
          nodeList' = Append(nodeList, [NodeAddr |-> a, Type |-> t,
                                        childs |-> << >>])
    /\ \E stack : /\ SameCalls(stack)
                  /\ calls' = Append(stack, [local |-> Len(nodeList) + 1,
                                             src |-> a, i |-> 1,
                                             waits |-> FALSE])

LEMMA EntersEffect ==
    ASSUME ListTypes, NEW a, Enters(a)
    PROVE  /\ nodeList' \in Seq(Node) /\ calls' \in Seq(Call)
           /\ Len(nodeList) \in Nat /\ Len(calls) \in Nat
           /\ Len(nodeList') = Len(nodeList) + 1
           /\ \A l \in 1 .. Len(nodeList) : nodeList'[l] = nodeList[l]
           /\ nodeList'[Len(nodeList) + 1].NodeAddr = a
           /\ nodeList'[Len(nodeList) + 1].childs = << >>
           /\ Len(calls') = Len(calls) + 1
           /\ \A n \in 1 .. Len(calls) : /\ calls'[n].local = calls[n].local
                                         /\ calls'[n].src = calls[n].src
                                         /\ calls'[n].i = calls[n].i
           /\ calls'[Len(calls) + 1].local = Len(nodeList) + 1
           /\ calls'[Len(calls) + 1].src = a
           /\ calls'[Len(calls) + 1].i = 1
<1>1. nodeList \in Seq(Node) /\ calls \in Seq(Call) /\ a \in Addrs
  BY DEF ListTypes, Enters
<1>2. PICK t \in {"coordinator", "router"} :
         nodeList' = Append(nodeList, [NodeAddr |-> a, Type |-> t,
                                       childs |-> << >>])
  BY DEF Enters
<1>3. PICK stack : /\ SameCalls(stack)
                   /\ calls' = Append(stack, [local |-> Len(nodeList) + 1,
                                              src |-> a, i |-> 1,
                                              waits |-> FALSE])
  BY DEF Enters
<1>4. PICK node \in Node : /\ nodeList' = Append(nodeList, node)
                           /\ node.NodeAddr = a /\ node.childs = << >>
  <2>1. << >> \in Seq([addr : Addrs, type : Types])
    OBVIOUS
  <2>2. [NodeAddr |-> a, Type |-> t, childs |-> << >>] \in Node
    BY <1>1, <2>1 DEF Node
  <2>3. QED BY <1>2, <2>2
<1>5. PICK call \in Call : /\ calls' = Append(stack, call)
                           /\ call.local = Len(nodeList) + 1
                           /\ call.src = a /\ call.i = 1
  <2>1. [local |-> Len(nodeList) + 1, src |-> a, i |-> 1, waits |-> FALSE]
           \in Call
    BY <1>1 DEF Call
  <2>2. QED BY <1>3, <2>1
<1>6. /\ stack \in Seq(Call) /\ Len(stack) = Len(calls)
      /\ \A n \in 1 .. Len(calls) : /\ stack[n].local = calls[n].local
                                    /\ stack[n].src = calls[n].src
                                    /\ stack[n].i = calls[n].i
  BY <1>3 DEF SameCalls
<1>7. /\ nodeList' \in Seq(Node) /\ Len(nodeList) \in Nat
      /\ Len(nodeList') = Len(nodeList) + 1
      /\ \A l \in 1 .. Len(nodeList) : nodeList'[l] = nodeList[l]
      /\ nodeList'[Len(nodeList) + 1] = node
  BY <1>1, <1>4
<1>8. /\ calls' \in Seq(Call) /\ Len(calls) \in Nat
      /\ Len(calls') = Len(calls) + 1
      /\ \A n \in 1 .. Len(calls) : calls'[n] = stack[n]
      /\ calls'[Len(calls) + 1] = call
  BY <1>1, <1>5, <1>6
<1>9. QED BY <1>4, <1>5, <1>6, <1>7, <1>8

LEMMA EntersKeeps ==
    ASSUME ListAnyInv, NEW a, Enters(a), pc' = "listen",
           UNCHANGED <<asked, rounds, clean>>
    PROVE  ListTypes' /\ CallsOwn' /\ ChildsOwn'
<1>0. /\ ListTypes /\ CallsOwn /\ ChildsOwn /\ a \in Addrs
  BY DEF ListAnyInv, Enters
<1> DEFINE L == Len(nodeList)
           C == Len(calls)
<1>1. /\ nodeList' \in Seq(Node) /\ calls' \in Seq(Call)
      /\ L \in Nat /\ C \in Nat
      /\ Len(nodeList') = L + 1
      /\ \A l \in 1 .. L : nodeList'[l] = nodeList[l]
      /\ nodeList'[L + 1].NodeAddr = a
      /\ nodeList'[L + 1].childs = << >>
      /\ Len(calls') = C + 1
      /\ \A n \in 1 .. C : /\ calls'[n].local = calls[n].local
                           /\ calls'[n].src = calls[n].src
                           /\ calls'[n].i = calls[n].i
      /\ calls'[C + 1].local = L + 1
      /\ calls'[C + 1].src = a
      /\ calls'[C + 1].i = 1
  BY <1>0, EntersEffect
<1>2. ListTypes'
  BY <1>0, <1>1 DEF ListTypes
<1>3. CallsOwn'
  <2>1. Len(Page(a)) \in Nat
    BY <1>0, PageType
  <2>2. \A n \in 1 .. C + 1 : n \in 1 .. C \/ n = C + 1
    BY <1>1
  <2>3. \A n \in 1 .. C : calls[n].local \in 1 .. L
    BY <1>0 DEF CallsOwn
  <2>4. ASSUME NEW n \in 1 .. Len(calls')
        PROVE  /\ calls'[n].local \in 1 .. Len(nodeList')
               /\ calls'[n].src = nodeList'[calls'[n].local].NodeAddr
               /\ calls'[n].i \in 1 .. Len(Page(calls'[n].src)) + 1
    <3>1. CASE n \in 1 .. C
      <4>1. /\ calls[n].local \in 1 .. L
            /\ calls[n].src = nodeList[calls[n].local].NodeAddr
            /\ calls[n].i \in 1 .. Len(Page(calls[n].src)) + 1
        BY <3>1, <1>0 DEF CallsOwn
      <4>2. /\ calls'[n].local = calls[n].local
            /\ calls'[n].src = calls[n].src /\ calls'[n].i = calls[n].i
            /\ nodeList'[calls[n].local] = nodeList[calls[n].local]
            /\ calls[n].local \in 1 .. Len(nodeList')
        BY <3>1, <4>1, <1>1
      <4>3. QED BY <4>1, <4>2
    <3>2. CASE n = C + 1
      BY <3>2, <1>1, <2>1
    <3>3. QED BY <1>1, <2>2, <3>1, <3>2
  <2>5. ASSUME NEW m \in 1 .. Len(calls'), NEW n \in 1 .. Len(calls'),
               calls'[m].local = calls'[n].local
        PROVE  m = n
    <3>1. (m \in 1 .. C \/ m = C + 1) /\ (n \in 1 .. C \/ n = C + 1)
      BY <1>1, <2>2
    <3>2. CASE m \in 1 .. C /\ n \in 1 .. C
      <4>1. calls[m].local = calls[n].local
        BY <2>5, <3>2, <1>1
      <4>2. QED BY <4>1, <3>2, <1>0 DEF CallsOwn
    <3>3. CASE m = C + 1 /\ n \in 1 .. C
      BY <2>5, <3>3, <1>1, <2>3
    <3>4. CASE m \in 1 .. C /\ n = C + 1
      BY <2>5, <3>4, <1>1, <2>3
    <3>5. QED BY <3>1, <3>2, <3>3, <3>4
  <2>6. QED BY <2>4, <2>5 DEF CallsOwn
<1>4. ChildsOwn'
  <2>1. \A n \in 1 .. C + 1 : n \in 1 .. C \/ n = C + 1
    BY <1>1
  <2>2. \A n \in 1 .. C : calls[n].local \in 1 .. L
    BY <1>0 DEF CallsOwn
  <2>3. SUFFICES ASSUME NEW l \in 1 .. Len(nodeList')
        PROVE  /\ \A n \in 1 .. Len(calls') : calls'[n].local = l =>
                     Len(nodeList'[l].childs) =
                        Rank(nodeList'[l].NodeAddr, calls'[n].i - 1)
               /\ (\A n \in 1 .. Len(calls') : calls'[n].local # l) =>
                     Len(nodeList'[l].childs) =
                        Rank(nodeList'[l].NodeAddr,
                             Len(Page(nodeList'[l].NodeAddr)))
               /\ \A j \in 1 .. Len(Page(nodeList'[l].NodeAddr)) :
                     Treated(l, j)' /\ IsChild(Page(nodeList'[l].NodeAddr)[j]) =>
                        nodeList'[l].childs[Rank(nodeList'[l].NodeAddr, j)] =
                           [addr |-> Page(nodeList'[l].NodeAddr)[j].addr,
                            type |-> Page(nodeList'[l].NodeAddr)[j].type]
    BY DEF ChildsOwn, PageOf
  <2>4. CASE l = L + 1
    <3>1. Rank(a, 0) = 0
      BY <1>0, RankStep
    <3>2. \A n \in 1 .. Len(calls') : calls'[n].local = l => n = C + 1
      BY <2>4, <1>1, <2>1, <2>2
    <3>3. \A j : ~Treated(l, j)'
      <4>1. SUFFICES ASSUME NEW j, Treated(l, j)' PROVE FALSE
        OBVIOUS
      <4>2. /\ j \in 1 .. Len(PageOf(l)')
            /\ C + 1 \in 1 .. Len(calls') /\ calls'[C + 1].local = l
            /\ j < calls'[C + 1].i
        BY <4>1, <2>4, <1>1 DEF Treated
      <4>3. QED BY <4>2, <1>1
    <3>4. QED BY <3>1, <3>2, <3>3, <2>4, <1>1
  <2>5. CASE l \in 1 .. L
    <3>1. \A n \in 1 .. Len(calls') : calls'[n].local = l => n \in 1 .. C
      BY <2>5, <1>1, <2>1
    <3>2. nodeList'[l] = nodeList[l] /\ 1 .. C \subseteq 1 .. Len(calls')
      BY <2>5, <1>1
    <3>3. ASSUME NEW j, Treated(l, j)' PROVE Treated(l, j)
      <4>1. /\ j \in 1 .. Len(Page(nodeList'[l].NodeAddr))
            /\ \A n \in 1 .. Len(calls') :
                  calls'[n].local = l => j < calls'[n].i
        BY <3>3 DEF Treated, PageOf
      <4>2. \A n \in 1 .. C : calls[n].local = l => j < calls[n].i
        BY <4>1, <3>2, <1>1
      <4>3. QED BY <4>1, <4>2, <3>2 DEF Treated, PageOf
    <3>4. \A n \in 1 .. Len(calls') : calls'[n].local = l =>
             Len(nodeList'[l].childs) =
                Rank(nodeList'[l].NodeAddr, calls'[n].i - 1)
      BY <3>1, <3>2, <2>5, <1>0, <1>1 DEF ChildsOwn
    <3>5. (\A n \in 1 .. Len(calls') : calls'[n].local # l) =>
             Len(nodeList'[l].childs) =
                Rank(nodeList'[l].NodeAddr, Len(Page(nodeList'[l].NodeAddr)))
      BY <3>2, <2>5, <1>0, <1>1 DEF ChildsOwn, PageOf
    <3>6. \A j \in 1 .. Len(Page(nodeList'[l].NodeAddr)) :
             Treated(l, j)' /\ IsChild(Page(nodeList'[l].NodeAddr)[j]) =>
                nodeList'[l].childs[Rank(nodeList'[l].NodeAddr, j)] =
                   [addr |-> Page(nodeList'[l].NodeAddr)[j].addr,
                    type |-> Page(nodeList'[l].NodeAddr)[j].type]
      BY <3>2, <3>3, <2>5, <1>0 DEF ChildsOwn, PageOf
    <3>7. QED BY <3>4, <3>5, <3>6
  <2>6. QED BY <1>1, <2>4, <2>5
<1>5. QED BY <1>2, <1>3, <1>4

\* Entry i of the page of node l, at address a, is looked at by the innermost
\* activation.
Looks(l, a, i) ==
    /\ Len(calls) \in 1 .. Len(calls) /\ l \in 1 .. Len(nodeList)
    /\ a \in Addrs /\ i \in 1 .. Len(Page(a)) /\ Page(a)[i] \in Entry
    /\ a = nodeList[l].NodeAddr
    /\ calls[Len(calls)].local = l /\ calls[Len(calls)].src = a
    /\ calls[Len(calls)].i = i
    /\ nodeList' \in Seq(Node) /\ Len(nodeList') = Len(nodeList)
    /\ \A k \in 1 .. Len(nodeList) :
          /\ nodeList'[k].NodeAddr = nodeList[k].NodeAddr
          /\ k # l => nodeList'[k] = nodeList[k]
    /\ nodeList'[l].childs =
          IF ~IsChild(Page(a)[i]) THEN nodeList[l].childs
          ELSE Append(nodeList[l].childs,
                      [addr |-> Page(a)[i].addr, type |-> Page(a)[i].type])
    /\ calls' \in Seq(Call) /\ Len(calls') = Len(calls)
    /\ \A n \in 1 .. Len(calls) :
          /\ calls'[n].local = calls[n].local
          /\ calls'[n].src = calls[n].src
          /\ calls'[n].i = IF n = Len(calls) THEN i + 1 ELSE calls[n].i
    /\ asked' = IF IsAsked(Page(a)[i])
                THEN asked (+) SetToBag({Page(a)[i].addr}) ELSE asked
    /\ UNCHANGED <<startVars, rounds, stray, clean>>

LEMMA LooksEffect ==
    ASSUME ListAnyInv, Neighbour
    PROVE  \E l, a, i : Looks(l, a, i)
<1>1. /\ nodeList \in Seq(Node) /\ calls \in Seq(Call) /\ calls # << >>
  BY DEF ListAnyInv, ListTypes, Neighbour
<1>2. PICK c \in 1 .. Len(calls) : c = Len(calls)
  BY <1>1, LastOf
<1>3. PICK call \in Call : call = calls[c] /\ call = Caller
  BY <1>1, <1>2, LastOf DEF Caller
<1>4. /\ call.local \in 1 .. Len(nodeList)
      /\ call.src = nodeList[call.local].NodeAddr
      /\ call.i \in 1 .. Len(Page(call.src)) + 1
  BY <1>2, <1>3 DEF ListAnyInv, CallsOwn
<1>5. PICK l \in 1 .. Len(nodeList) : l = call.local
  BY <1>4
<1>6. nodeList[l] \in Node /\ Len(nodeList) \in Nat
  BY <1>1, <1>5, ElementOfSeq
<1>7. PICK a \in Addrs : a = nodeList[l].NodeAddr /\ a = call.src
  BY <1>4, <1>5, <1>6 DEF Node
<1>8. Page(a) \in Seq(Entry) /\ Len(Page(a)) \in Nat
  BY PageType
<1>9. PICK i \in 1 .. Len(Page(a)) : i = call.i
  BY <1>3, <1>4, <1>7, <1>8 DEF Neighbour
<1>10. PICK e \in Entry : e = Page(a)[i]
  BY <1>8, <1>9, ElementOfSeq
<1>11. /\ nodeList' = IF ~IsChild(e) THEN nodeList
                      ELSE [nodeList EXCEPT ![l].childs =
                               Append(@, [addr |-> e.addr, type |-> e.type])]
       /\ asked' = IF IsAsked(e) THEN asked (+) SetToBag({e.addr}) ELSE asked
       /\ calls' = Append(SubSeq(calls, 1, Len(calls) - 1),
                          [call EXCEPT !.i = @ + 1, !.waits = IsAsked(e)])
       /\ UNCHANGED <<startVars, rounds, stray, clean>>
  BY <1>3, <1>5, <1>7, <1>9, <1>10
     DEF Neighbour, OwnEntry, Callers, zdoMgmtLqiReq
<1>12. PICK next \in Call : /\ calls' = Append(SubSeq(calls, 1, Len(calls) - 1),
                                               next)
                            /\ next.local = l /\ next.src = a /\ next.i = i + 1
  <2>1. PICK w \in BOOLEAN : w = IsAsked(e)
    BY DEF IsAsked, IsChild
  <2>2. PICK next : next = [call EXCEPT !.i = @ + 1, !.waits = w]
    OBVIOUS
  <2>3. call.local \in Nat /\ call.src \in Addrs /\ call.i + 1 \in Nat
    BY DEF Call
  <2>4. next = [local |-> call.local, src |-> call.src, i |-> call.i + 1,
                waits |-> w]
    BY <2>2 DEF Call
  <2>5. next \in Call
    BY <2>1, <2>3, <2>4 DEF Call
  <2>6. next.local = l /\ next.src = a /\ next.i = i + 1
    BY <2>4, <1>5, <1>7, <1>9
  <2>7. QED BY <1>11, <2>1, <2>2, <2>5, <2>6
<1>13. /\ calls' \in Seq(Call) /\ Len(calls') = Len(calls)
       /\ calls'[c] = next
       /\ \A n \in 1 .. Len(calls) - 1 : calls'[n] = calls[n]
  BY <1>1, <1>2, <1>12, ReplaceLast
<1>14. \A n \in 1 .. Len(calls) : n = c \/ n \in 1 .. Len(calls) - 1
  BY <1>2
<1>15. \A n \in 1 .. Len(calls) :
          /\ calls'[n].local = calls[n].local
          /\ calls'[n].src = calls[n].src
          /\ calls'[n].i = IF n = c THEN i + 1 ELSE calls[n].i
  BY <1>2, <1>3, <1>5, <1>7, <1>12, <1>13, <1>14
<1>16. /\ nodeList' \in Seq(Node) /\ Len(nodeList') = Len(nodeList)
       /\ \A k \in 1 .. Len(nodeList) :
             /\ nodeList'[k].NodeAddr = nodeList[k].NodeAddr
             /\ k # l => nodeList'[k] = nodeList[k]
       /\ nodeList'[l].childs =
             IF ~IsChild(e) THEN nodeList[l].childs
             ELSE Append(nodeList[l].childs,
                         [addr |-> e.addr, type |-> e.type])
  <2>1. CASE ~IsChild(e)
    BY <2>1, <1>1, <1>11
  <2>2. CASE IsChild(e)
    <3>1. PICK cs \in Seq([addr : Addrs, type : Types]) :
             cs = Append(nodeList[l].childs, [addr |-> e.addr, type |-> e.type])
      <4>1. PICK x \in [addr : Addrs, type : Types] :
               x = [addr |-> e.addr, type |-> e.type]
        BY <1>10 DEF Entry
      <4>2. nodeList[l].childs \in Seq([addr : Addrs, type : Types])
        BY <1>6 DEF Node
      <4>3. Append(nodeList[l].childs, x) \in Seq([addr : Addrs, type : Types])
        BY <4>2, AppendProperties
      <4>4. QED BY <4>1, <4>3
    <3>2. PICK node \in Node : /\ node = [nodeList[l] EXCEPT !.childs = cs]
                               /\ node.NodeAddr = nodeList[l].NodeAddr
                               /\ node.childs = cs
      <4>1. PICK node : node = [nodeList[l] EXCEPT !.childs = cs]
        OBVIOUS
      <4>2. node = [NodeAddr |-> nodeList[l].NodeAddr, Type |-> nodeList[l].Type,
                    childs |-> cs]
        BY <4>1, <1>6 DEF Node
      <4>3. node \in Node
        BY <4>2, <1>6, <3>1 DEF Node
      <4>4. node.NodeAddr = nodeList[l].NodeAddr /\ node.childs = cs
        BY <4>2
      <4>5. QED BY <4>1, <4>3, <4>4
    <3>3. nodeList' = [nodeList EXCEPT ![l] = node]
      BY <2>2, <3>1, <3>2, <1>11
    <3>4. nodeList' \in Seq(Node) /\ Len(nodeList') = Len(nodeList)
      BY <3>3, <1>1, <1>5, ExceptSeq
    <3>5. \A k \in 1 .. Len(nodeList) :
             nodeList'[k] = IF k = l THEN node ELSE nodeList[k]
      BY <3>3, <1>1, <1>5
    <3>6. QED BY <2>2, <3>1, <3>2, <3>4, <3>5
  <2>3. QED BY <2>1, <2>2
<1>17. c = Len(calls) /\ calls[c].local = l /\ calls[c].i = i /\ calls[c].src = a
  BY <1>2, <1>3, <1>5, <1>7, <1>9
<1>18. Looks(l, a, i)
  BY <1>2, <1>7, <1>9, <1>10, <1>11, <1>13, <1>15, <1>16, <1>17 DEF Looks
<1>19. QED BY <1>18

LEMMA LooksKeeps ==
    ASSUME ListAnyInv, NEW l, NEW a, NEW i, Looks(l, a, i)
    PROVE  ListTypes' /\ CallsOwn' /\ ChildsOwn'
<1>0. ListTypes /\ CallsOwn /\ ChildsOwn
  BY DEF ListAnyInv
<1> DEFINE L == Len(nodeList)
           C == Len(calls)
<1>1. /\ C \in 1 .. C /\ l \in 1 .. L /\ a \in Addrs
      /\ i \in 1 .. Len(Page(a)) /\ Page(a)[i] \in Entry
      /\ a = nodeList[l].NodeAddr
      /\ calls[C].local = l /\ calls[C].src = a /\ calls[C].i = i
      /\ nodeList' \in Seq(Node) /\ Len(nodeList') = L
      /\ \A k \in 1 .. L : /\ nodeList'[k].NodeAddr = nodeList[k].NodeAddr
                           /\ k # l => nodeList'[k] = nodeList[k]
      /\ calls' \in Seq(Call) /\ Len(calls') = C
      /\ \A n \in 1 .. C : /\ calls'[n].local = calls[n].local
                           /\ calls'[n].src = calls[n].src
                           /\ calls'[n].i = IF n = C THEN i + 1 ELSE calls[n].i
      /\ UNCHANGED <<startVars, rounds, stray, clean>>
  BY DEF Looks
<1>2. ListTypes'
  <2>1. Page(a)[i].addr \in Addrs
    BY <1>1 DEF Entry
  <2>2. BagToSet(asked') \subseteq Addrs
    <3>1. CASE IsAsked(Page(a)[i])
      <4>1. asked' = asked (+) SetToBag({Page(a)[i].addr})
        BY <3>1 DEF Looks
      <4>2. BagToSet(asked') = BagToSet(asked) \cup {Page(a)[i].addr}
        BY <4>1 DEF BagToSet, (+), SetToBag
      <4>3. QED BY <4>2, <2>1, <1>0 DEF ListTypes
    <3>2. CASE ~IsAsked(Page(a)[i])
      BY <3>2, <1>0 DEF Looks, ListTypes
    <3>3. QED BY <3>1, <3>2
  <2>3. QED BY <2>2, <1>0, <1>1 DEF ListTypes
<1>3. \A m, n \in 1 .. C : calls[m].local = calls[n].local => m = n
  BY <1>0 DEF CallsOwn
<1>4. Page(a) \in Seq(Entry) /\ Len(Page(a)) \in Nat
  BY <1>1, PageType
<1>5. CallsOwn'
  <2>1. ASSUME NEW n \in 1 .. C
        PROVE  /\ calls'[n].local \in 1 .. Len(nodeList')
               /\ calls'[n].src = nodeList'[calls'[n].local].NodeAddr
               /\ calls'[n].i \in 1 .. Len(Page(calls'[n].src)) + 1
    <3>1. /\ calls[n].local \in 1 .. L
          /\ calls[n].src = nodeList[calls[n].local].NodeAddr
          /\ calls[n].i \in 1 .. Len(Page(calls[n].src)) + 1
      BY <1>0 DEF CallsOwn
    <3>2. CASE n = C
      BY <3>1, <3>2, <1>1, <1>4
    <3>3. CASE n # C
      BY <3>1, <3>3, <1>1
    <3>4. QED BY <3>2, <3>3
  <2>2. \A m, n \in 1 .. C : calls'[m].local = calls'[n].local => m = n
    BY <1>1, <1>3
  <2>3. pc' = "listen"
    BY <1>0, <1>1 DEF CallsOwn, startVars
  <2>4. QED BY <2>1, <2>2, <2>3, <1>1 DEF CallsOwn
<1>6. ASSUME NEW k \in 1 .. L, NEW j, Treated(k, j)'
      PROVE  Treated(k, j) \/ (k = l /\ j = i)
  <2>1. /\ j \in 1 .. Len(Page(nodeList[k].NodeAddr))
        /\ \A n \in 1 .. C : calls'[n].local = k => j < calls'[n].i
    BY <1>6, <1>1 DEF Treated, PageOf
  <2>2. CASE k = l
    <3>1. j < i + 1
      BY <2>1, <2>2, <1>1
    <3>2. j = i \/ j < i
      BY <3>1, <2>1, <2>2, <1>1, <1>4
    <3>3. \A n \in 1 .. C : calls[n].local = k => n = C
      BY <2>2, <1>1, <1>3
    <3>4. QED BY <3>2, <3>3, <2>1, <2>2, <1>1 DEF Treated, PageOf
  <2>3. CASE k # l
    <3>1. \A n \in 1 .. C : calls[n].local = k => n # C
      BY <2>3, <1>1
    <3>2. \A n \in 1 .. C : calls[n].local = k => j < calls[n].i
      BY <3>1, <2>1, <1>1
    <3>3. QED BY <3>2, <2>1 DEF Treated, PageOf
  <2>4. QED BY <2>2, <2>3
<1>7. ChildsOwn'
  <2>1. SUFFICES ASSUME NEW k \in 1 .. L
        PROVE  /\ \A n \in 1 .. C : calls'[n].local = k =>
                     Len(nodeList'[k].childs) =
                        Rank(nodeList'[k].NodeAddr, calls'[n].i - 1)
               /\ (\A n \in 1 .. C : calls'[n].local # k) =>
                     Len(nodeList'[k].childs) =
                        Rank(nodeList'[k].NodeAddr,
                             Len(Page(nodeList'[k].NodeAddr)))
               /\ \A j \in 1 .. Len(Page(nodeList'[k].NodeAddr)) :
                     Treated(k, j)' /\ IsChild(Page(nodeList'[k].NodeAddr)[j]) =>
                        nodeList'[k].childs[Rank(nodeList'[k].NodeAddr, j)] =
                           [addr |-> Page(nodeList'[k].NodeAddr)[j].addr,
                            type |-> Page(nodeList'[k].NodeAddr)[j].type]
    BY <1>1 DEF ChildsOwn, PageOf
  <2>2. CASE k # l
    <3>1. \A n \in 1 .. C : calls[n].local = k => n # C
      BY <2>2, <1>1
    <3>2. nodeList'[k] = nodeList[k]
      BY <2>2, <1>1
    <3>3. \A j : Treated(k, j)' => Treated(k, j)
      BY <2>2, <1>6
    <3>4. \A n \in 1 .. C : calls'[n].local = k =>
             calls[n].local = k /\ calls'[n].i = calls[n].i
      BY <3>1, <1>1
    <3>5. (\A n \in 1 .. C : calls'[n].local # k) =>
             (\A n \in 1 .. C : calls[n].local # k)
      BY <1>1
    <3>6. PageOf(k) = Page(nodeList'[k].NodeAddr)
      BY <3>2 DEF PageOf
    <3>7. \A n \in 1 .. C : calls'[n].local = k =>
             Len(nodeList'[k].childs) =
                Rank(nodeList'[k].NodeAddr, calls'[n].i - 1)
      BY <3>2, <3>4, <1>0 DEF ChildsOwn
    <3>8. (\A n \in 1 .. C : calls'[n].local # k) =>
             Len(nodeList'[k].childs) =
                Rank(nodeList'[k].NodeAddr, Len(Page(nodeList'[k].NodeAddr)))
      BY <3>2, <3>5, <3>6, <1>0 DEF ChildsOwn
    <3>9. \A j \in 1 .. Len(Page(nodeList'[k].NodeAddr)) :
             Treated(k, j)' /\ IsChild(Page(nodeList'[k].NodeAddr)[j]) =>
                nodeList'[k].childs[Rank(nodeList'[k].NodeAddr, j)] =
                   [addr |-> Page(nodeList'[k].NodeAddr)[j].addr,
                    type |-> Page(nodeList'[k].NodeAddr)[j].type]
      BY <3>2, <3>3, <3>6, <1>0 DEF ChildsOwn
    <3>10. QED BY <3>7, <3>8, <3>9
  <2>3. CASE k = l
    <3>1. \A n \in 1 .. C : calls[n].local = k => n = C
      BY <2>3, <1>1, <1>3
    <3>2. \A n \in 1 .. C : calls'[n].local = k => calls'[n].i - 1 = i
      <4>1. SUFFICES ASSUME NEW n \in 1 .. C, calls'[n].local = k
                     PROVE  calls'[n].i - 1 = i
        OBVIOUS
      <4>2. n = C
        BY <4>1, <3>1, <1>1
      <4>3. calls'[n].i = i + 1 /\ i \in Int
        BY <4>2, <1>1, <1>4
      <4>4. QED BY <4>3
    <3>3. Len(nodeList[l].childs) = Rank(a, i - 1)
      BY <1>0, <1>1 DEF ChildsOwn
    <3>4. /\ Rank(a, i - 1) \in Nat
          /\ Rank(a, i) = Rank(a, i - 1) + IF IsChild(Page(a)[i]) THEN 1 ELSE 0
      <4>1. i - 1 \in Nat /\ (i - 1) + 1 = i
        BY <1>1, <1>4
      <4>2. /\ Rank(a, i - 1) \in Nat
            /\ Rank(a, (i - 1) + 1) = Rank(a, i - 1)
                  + IF IsChild(Page(a)[(i - 1) + 1]) THEN 1 ELSE 0
        BY <4>1, <1>1, RankStep
      <4>3. QED BY <4>1, <4>2
    <3>5. ASSUME NEW j \in 1 .. Len(Page(a)), Treated(k, j), IsChild(Page(a)[j])
          PROVE  /\ Rank(a, j) \in 1 .. Len(nodeList[l].childs)
                 /\ nodeList[l].childs[Rank(a, j)] =
                       [addr |-> Page(a)[j].addr, type |-> Page(a)[j].type]
      <4>1. j < i
        BY <3>5, <2>3, <1>1 DEF Treated
      <4>2. i - 1 \in Nat /\ j \in 1 .. i - 1
        BY <4>1, <1>1, <1>4
      <4>3. Rank(a, j) \in 1 .. Rank(a, i - 1)
        BY <4>2, <3>4, <3>5, <1>1, RankGrows
      <4>4. nodeList[l].childs[Rank(a, j)] =
                       [addr |-> Page(a)[j].addr, type |-> Page(a)[j].type]
        <5>1. PageOf(k) = Page(a) /\ nodeList[k].NodeAddr = a
          BY <2>3, <1>1 DEF PageOf
        <5>2. QED BY <5>1, <3>5, <2>3, <1>0 DEF ChildsOwn
      <4>5. QED BY <4>3, <4>4, <3>3
    <3>6. nodeList[l].childs \in Seq([addr : Addrs, type : Types])
      <4>1. nodeList[l] \in Node
        BY <1>0, <1>1 DEF ListTypes
      <4>2. QED BY <4>1 DEF Node
    <3>7. Len(nodeList'[l].childs) = Rank(a, i)
      <4>1. CASE ~IsChild(Page(a)[i])
        <5>1. nodeList'[l].childs = nodeList[l].childs
          BY <4>1 DEF Looks
        <5>2. QED BY <4>1, <5>1, <3>3, <3>4
      <4>2. CASE IsChild(Page(a)[i])
        <5>1. nodeList'[l].childs =
                 Append(nodeList[l].childs, [addr |-> Page(a)[i].addr,
                                             type |-> Page(a)[i].type])
          BY <4>2 DEF Looks
        <5>2. Len(nodeList'[l].childs) = Len(nodeList[l].childs) + 1
          BY <5>1, <3>6
        <5>3. QED BY <4>2, <5>2, <3>3, <3>4
      <4>3. QED BY <4>1, <4>2
    <3>8. ASSUME NEW j \in 1 .. Len(Page(a)), Treated(k, j)', IsChild(Page(a)[j])
          PROVE  nodeList'[l].childs[Rank(a, j)] =
                    [addr |-> Page(a)[j].addr, type |-> Page(a)[j].type]
      <4>1. CASE ~IsChild(Page(a)[i])
        <5>1. nodeList'[l].childs = nodeList[l].childs
          BY <4>1 DEF Looks
        <5>2. Treated(k, j)
          BY <3>8, <4>1, <2>3, <1>6
        <5>3. QED BY <5>1, <5>2, <3>5, <3>8
      <4>2. CASE IsChild(Page(a)[i])
        <5>1. nodeList'[l].childs =
                 Append(nodeList[l].childs, [addr |-> Page(a)[i].addr,
                                             type |-> Page(a)[i].type])
          BY <4>2 DEF Looks
        <5>2. CASE Treated(k, j)
          BY <5>1, <5>2, <3>5, <3>6, <3>8
        <5>3. CASE j = i
          BY <5>1, <5>3, <4>2, <3>3, <3>4, <3>6
        <5>4. QED BY <5>2, <5>3, <3>8, <2>3, <1>6
      <4>3. QED BY <4>1, <4>2
    <3>9. nodeList'[k].NodeAddr = a /\ calls[C].local = k
      BY <2>3, <1>1
    <3>10. C \in 1 .. C /\ calls'[C].local = k
      BY <3>9, <1>1
    <3>11. QED BY <2>3, <3>2, <3>7, <3>8, <3>9, <3>10
  <2>4. QED BY <2>2, <2>3
<1>8. QED BY <1>2, <1>5, <1>7

\* The innermost activation returns from its page's end.
Returns ==
    /\ Len(calls) \in 1 .. Len(calls)
    /\ calls[Len(calls)].i > Len(Page(calls[Len(calls)].src))
    /\ calls' \in Seq(Call) /\ Len(calls') = Len(calls) - 1
    /\ \A n \in 1 .. Len(calls) - 1 : calls'[n] = calls[n]
    /\ UNCHANGED <<startVars, nodeList, asked, rounds, stray, clean>>

LEMMA ReturnEffect ==
    ASSUME ListAnyInv, Return
    PROVE  Returns
<1>1. calls \in Seq(Call) /\ calls # << >>
  BY DEF ListAnyInv, ListTypes, Return
<1>2. /\ Len(calls) \in 1 .. Len(calls)
      /\ SubSeq(calls, 1, Len(calls) - 1) \in Seq(Call)
      /\ Len(SubSeq(calls, 1, Len(calls) - 1)) = Len(calls) - 1
      /\ \A n \in 1 .. Len(calls) - 1 :
            SubSeq(calls, 1, Len(calls) - 1)[n] = calls[n]
  BY <1>1, LastOf
<1>3. QED BY <1>2 DEF Returns, Return, Callers, Caller

\* An entry was looked at before the return just when it was after.
LEMMA ReturnsTreats ==
    ASSUME ListAnyInv, Returns, NEW k \in 1 .. Len(nodeList), NEW j
    PROVE  Treated(k, j)' <=> Treated(k, j)
<1>1. /\ CallsOwn /\ Len(calls) \in 1 .. Len(calls)
      /\ calls[Len(calls)].i > Len(Page(calls[Len(calls)].src))
      /\ Len(calls') = Len(calls) - 1 /\ nodeList' = nodeList
      /\ \A n \in 1 .. Len(calls) - 1 : calls'[n] = calls[n]
  BY DEF ListAnyInv, Returns
<1>2. ASSUME Treated(k, j)' PROVE Treated(k, j)
  <2>1. /\ j \in 1 .. Len(Page(nodeList[k].NodeAddr))
        /\ \A n \in 1 .. Len(calls) - 1 : calls[n].local = k => j < calls[n].i
    BY <1>1, <1>2 DEF Treated, PageOf
  <2>2. calls[Len(calls)].local = k => j < calls[Len(calls)].i
    <3>1. SUFFICES ASSUME calls[Len(calls)].local = k
                   PROVE  j < calls[Len(calls)].i
      OBVIOUS
    <3>2. /\ calls[Len(calls)].src = nodeList[k].NodeAddr
          /\ calls[Len(calls)].i \in 1 .. Len(Page(nodeList[k].NodeAddr)) + 1
      BY <3>1, <1>1 DEF CallsOwn
    <3>3. nodeList[k] \in Node
      BY DEF ListAnyInv, ListTypes
    <3>4. Len(Page(nodeList[k].NodeAddr)) \in Nat
      BY <3>3, PageType DEF Node
    <3>5. QED BY <3>2, <3>4, <2>1, <1>1
  <2>3. \A n \in 1 .. Len(calls) : n = Len(calls) \/ n \in 1 .. Len(calls) - 1
    BY <1>1
  <2>4. QED BY <2>1, <2>2, <2>3 DEF Treated, PageOf
<1>3. ASSUME Treated(k, j) PROVE Treated(k, j)'
  BY <1>1, <1>3 DEF Treated, PageOf
<1>4. QED BY <1>2, <1>3

LEMMA ReturnsKeeps ==
    ASSUME ListAnyInv, Returns
    PROVE  ListTypes' /\ CallsOwn' /\ ChildsOwn'
<1>0. ListTypes /\ CallsOwn /\ ChildsOwn
  BY DEF ListAnyInv
<1>1. /\ Len(calls) \in 1 .. Len(calls)
      /\ calls[Len(calls)].i > Len(Page(calls[Len(calls)].src))
      /\ calls' \in Seq(Call) /\ Len(calls') = Len(calls) - 1
      /\ \A n \in 1 .. Len(calls) - 1 : calls'[n] = calls[n]
      /\ UNCHANGED <<startVars, nodeList, asked, rounds, stray, clean>>
  BY DEF Returns
<1>2. ListTypes'
  BY <1>0, <1>1 DEF ListTypes
<1>3. pc' = "listen" /\ 1 .. Len(calls) - 1 \subseteq 1 .. Len(calls)
  BY <1>0, <1>1 DEF CallsOwn, startVars
<1>4. CallsOwn'
  BY <1>0, <1>1, <1>3 DEF CallsOwn
<1>5. ChildsOwn'
  <2>1. SUFFICES ASSUME NEW k \in 1 .. Len(nodeList)
        PROVE  /\ \A n \in 1 .. Len(calls) - 1 : calls[n].local = k =>
                     Len(nodeList[k].childs) =
                        Rank(nodeList[k].NodeAddr, calls[n].i - 1)
               /\ (\A n \in 1 .. Len(calls) - 1 : calls[n].local # k) =>
                     Len(nodeList[k].childs) =
                        Rank(nodeList[k].NodeAddr, Len(PageOf(k)))
               /\ \A j \in 1 .. Len(PageOf(k)) :
                     Treated(k, j)' /\ IsChild(PageOf(k)[j]) =>
                        nodeList[k].childs[Rank(nodeList[k].NodeAddr, j)] =
                           [addr |-> PageOf(k)[j].addr,
                            type |-> PageOf(k)[j].type]
    BY <1>1 DEF ChildsOwn, PageOf
  <2>2. \A j : Treated(k, j)' <=> Treated(k, j)
    BY ReturnsTreats
  <2>3. ASSUME \A n \in 1 .. Len(calls) - 1 : calls[n].local # k
        PROVE  Len(nodeList[k].childs) =
                  Rank(nodeList[k].NodeAddr, Len(PageOf(k)))
    <3>1. CASE calls[Len(calls)].local = k
      <4>1. /\ calls[Len(calls)].src = nodeList[k].NodeAddr
            /\ calls[Len(calls)].i \in 1 .. Len(Page(nodeList[k].NodeAddr)) + 1
            /\ Len(nodeList[k].childs) =
                  Rank(nodeList[k].NodeAddr, calls[Len(calls)].i - 1)
        BY <3>1, <1>0, <1>1 DEF CallsOwn, ChildsOwn
      <4>2. nodeList[k] \in Node
        BY <1>0 DEF ListTypes
      <4>3. Len(Page(nodeList[k].NodeAddr)) \in Nat
        BY <4>2, PageType DEF Node
      <4>4. calls[Len(calls)].i - 1 = Len(Page(nodeList[k].NodeAddr))
        BY <4>1, <4>3, <1>1
      <4>5. QED BY <4>1, <4>4 DEF PageOf
    <3>2. CASE calls[Len(calls)].local # k
      <4>1. \A n \in 1 .. Len(calls) : n = Len(calls) \/ n \in 1 .. Len(calls) - 1
        BY <1>1
      <4>2. \A n \in 1 .. Len(calls) : calls[n].local # k
        BY <4>1, <3>2, <2>3
      <4>3. QED BY <4>2, <1>0 DEF ChildsOwn
    <3>3. QED BY <3>1, <3>2
  <2>4. QED BY <2>2, <2>3, <1>0, <1>3 DEF ChildsOwn
<1>6. QED BY <1>2, <1>4, <1>5

\* The list stands still, and no activation moves.
LEMMA StillTreats ==
    ASSUME ListAnyInv, SameCalls(calls'), UNCHANGED nodeList,
           NEW k, NEW j
    PROVE  Treated(k, j)' <=> Treated(k, j)
BY DEF SameCalls, Treated, PageOf

LEMMA StillKeeps ==
    ASSUME ListAnyInv, SameCalls(calls'), UNCHANGED nodeList,
           calls' # << >> => pc' = "listen",
           BagToSet(asked') \subseteq Addrs, rounds' \in 0 .. MaxRounds,
           clean' \in BOOLEAN
    PROVE  ListTypes' /\ CallsOwn' /\ ChildsOwn'
<1>0. ListTypes /\ CallsOwn /\ ChildsOwn
  BY DEF ListAnyInv
<1>1. /\ calls' \in Seq(Call) /\ Len(calls') = Len(calls)
      /\ \A n \in 1 .. Len(calls) : /\ calls'[n].local = calls[n].local
                                    /\ calls'[n].src = calls[n].src
                                    /\ calls'[n].i = calls[n].i
  BY DEF SameCalls
<1>2. ListTypes'
  BY <1>0, <1>1 DEF ListTypes
<1>3. CallsOwn'
  <2>1. ASSUME NEW n \in 1 .. Len(calls')
        PROVE  /\ calls'[n].local \in 1 .. Len(nodeList')
               /\ calls'[n].src = nodeList'[calls'[n].local].NodeAddr
               /\ calls'[n].i \in 1 .. Len(Page(calls'[n].src)) + 1
    BY <1>0, <1>1 DEF CallsOwn
  <2>2. \A m, n \in 1 .. Len(calls') :
           calls'[m].local = calls'[n].local => m = n
    BY <1>0, <1>1 DEF CallsOwn
  <2>3. QED BY <2>1, <2>2 DEF CallsOwn
<1>4. ChildsOwn'
  <2>1. \A k, j : Treated(k, j)' <=> Treated(k, j)
    BY StillTreats
  <2>2. SUFFICES ASSUME NEW k \in 1 .. Len(nodeList)
        PROVE  /\ \A n \in 1 .. Len(calls') : calls'[n].local = k =>
                     Len(nodeList[k].childs) =
                        Rank(nodeList[k].NodeAddr, calls'[n].i - 1)
               /\ (\A n \in 1 .. Len(calls') : calls'[n].local # k) =>
                     Len(nodeList[k].childs) =
                        Rank(nodeList[k].NodeAddr, Len(PageOf(k)))
               /\ \A j \in 1 .. Len(PageOf(k)) :
                     Treated(k, j)' /\ IsChild(PageOf(k)[j]) =>
                        nodeList[k].childs[Rank(nodeList[k].NodeAddr, j)] =
                           [addr |-> PageOf(k)[j].addr,
                            type |-> PageOf(k)[j].type]
    BY DEF ChildsOwn, PageOf
  <2>3. QED BY <2>1, <1>0, <1>1 DEF ChildsOwn
<1>5. QED BY <1>2, <1>3, <1>4

(* A message is taken: a response with success enters, whatever else comes   *)
(* leaves the list and the activations as they are.                          *)
Takes(stack) ==
    /\ mq # << >> /\ mq' = Tail(mq)
    /\ \/ Head(mq).kind = "lqi" /\ Head(mq).ok /\ Enters(Head(mq).src)
       \/ /\ ~(Head(mq).kind = "lqi" /\ Head(mq).ok)
          /\ calls' = stack /\ UNCHANGED nodeList

LEMMA MessageTakes ==
    ASSUME StartTypes, ListTypes, NEW stack, SameCalls(stack), Message(stack)
    PROVE  Takes(stack) /\ Heard
<1>1. mq # << >> /\ mq' = Tail(mq) /\ Heard
  BY ProcessHears DEF Message, Process
<1>2. CASE Head(mq).kind = "lqi" /\ Head(mq).ok
  <2>1. Head(mq) \in Messages
    BY <1>1 DEF StartTypes
  <2>2. Head(mq).src \in Addrs
    BY <2>1, <1>2 DEF Messages, LqiMsg, StateMsg, ResetMsg
  <2>3. /\ \E t \in {"coordinator", "router"} :
              nodeList' = Append(nodeList, [NodeAddr |-> Head(mq).src,
                                            Type |-> t, childs |-> << >>])
        /\ calls' = Append(stack, [local |-> Len(nodeList) + 1,
                                   src |-> Head(mq).src, i |-> 1,
                                   waits |-> FALSE])
    BY <1>2 DEF Message, mtZdoMgmtLqiRspCb, Activation
  <2>4. QED BY <1>1, <1>2, <2>2, <2>3 DEF Takes, Enters
<1>3. CASE ~(Head(mq).kind = "lqi" /\ Head(mq).ok)
  BY <1>1, <1>3 DEF Takes, Message, mtZdoMgmtLqiRspCb
<1>4. QED BY <1>2, <1>3

LEMMA TakesKeeps ==
    ASSUME ListAnyInv, NEW stack, SameCalls(stack), Takes(stack),
           pc' = "listen", UNCHANGED <<asked, rounds, clean>>
    PROVE  ListTypes' /\ CallsOwn' /\ ChildsOwn'
<1>1. CASE Enters(Head(mq).src)
  BY <1>1, EntersKeeps
<1>2. CASE calls' = stack /\ UNCHANGED nodeList
  <2>1. /\ BagToSet(asked') \subseteq Addrs /\ rounds' \in 0 .. MaxRounds
        /\ clean' \in BOOLEAN
    BY DEF ListAnyInv, ListTypes
  <2>2. QED BY <1>2, <2>1, StillKeeps
<1>3. QED BY <1>1, <1>2 DEF Takes

LEMMA SelfSame == ASSUME ListTypes PROVE SameCalls(calls)
BY DEF ListTypes, SameCalls

LEMMA WokenSame ==
    ASSUME ListTypes, calls # << >>
    PROVE  SameCalls(Append(Callers, [Caller EXCEPT !.waits = FALSE]))
<1>1. calls \in Seq(Call)
  BY DEF ListTypes
<1>2. Len(calls) \in 1 .. Len(calls) /\ calls[Len(calls)] \in Call
  BY <1>1, LastOf
<1>3. PICK woken \in Call : /\ woken = [Caller EXCEPT !.waits = FALSE]
                            /\ woken.local = calls[Len(calls)].local
                            /\ woken.src = calls[Len(calls)].src
                            /\ woken.i = calls[Len(calls)].i
  <2>1. PICK woken : woken = [calls[Len(calls)] EXCEPT !.waits = FALSE]
    OBVIOUS
  <2>2. woken = [local |-> calls[Len(calls)].local,
                 src |-> calls[Len(calls)].src,
                 i |-> calls[Len(calls)].i, waits |-> FALSE]
    BY <1>2, <2>1 DEF Call
  <2>3. woken \in Call
    BY <1>2, <2>2 DEF Call
  <2>4. QED BY <2>1, <2>2, <2>3 DEF Caller
<1>4. PICK stack : stack = Append(SubSeq(calls, 1, Len(calls) - 1), woken)
  OBVIOUS
<1>5. /\ stack \in Seq(Call) /\ Len(stack) = Len(calls)
      /\ stack[Len(calls)] = woken
      /\ \A n \in 1 .. Len(calls) - 1 : stack[n] = calls[n]
  BY <1>1, <1>3, <1>4, ReplaceLast
<1>6. \A n \in 1 .. Len(calls) : n = Len(calls) \/ n \in 1 .. Len(calls) - 1
  BY <1>2
<1>7. SameCalls(stack)
  BY <1>3, <1>5, <1>6 DEF SameCalls
<1>8. QED BY <1>3, <1>4, <1>7 DEF Callers

--------------------------------------------------------------------------------
(* A clean round.                                                            *)
LEMMA BagAdd ==
    ASSUME NEW D, NEW b, b \notin D
    PROVE  SetToBag(D) (+) SetToBag({b}) = SetToBag(D \cup {b})
<1> DEFINE X == [e \in D |-> 1]
           Y == [e \in {b} |-> 1]
<1>1. DOMAIN X = D /\ DOMAIN Y = {b}
  OBVIOUS
<1>2. SetToBag(D) (+) SetToBag({b}) =
         [e \in D \cup {b} |-> (IF e \in D THEN X[e] ELSE 0)
                                  + (IF e \in {b} THEN Y[e] ELSE 0)]
  BY <1>1 DEF SetToBag, (+)
<1>3. \A e \in D \cup {b} : (IF e \in D THEN X[e] ELSE 0)
                               + (IF e \in {b} THEN Y[e] ELSE 0) = 1
  OBVIOUS
<1>4. QED BY <1>2, <1>3 DEF SetToBag

LEMMA BagRemove ==
    ASSUME NEW D, NEW b \in D
    PROVE  SetToBag(D) (-) SetToBag({b}) = SetToBag(D \ {b})
<1> DEFINE X == [e \in D |-> 1]
           Y == [e \in {b} |-> 1]
           Z == [e \in D |-> IF e \in {b} THEN X[e] - Y[e] ELSE X[e]]
<1>1. DOMAIN X = D /\ DOMAIN Y = {b} /\ DOMAIN Z = D
  OBVIOUS
<1>2. SetToBag(D) (-) SetToBag({b}) = [e \in {d \in DOMAIN Z : Z[d] > 0} |-> Z[e]]
  BY <1>1 DEF SetToBag, (-)
<1>3. \A e \in D : Z[e] = IF e = b THEN 0 ELSE 1
  OBVIOUS
<1>4. {d \in DOMAIN Z : Z[d] > 0} = D \ {b}
  BY <1>1, <1>3
<1>5. \A e \in D \ {b} : Z[e] = 1
  BY <1>3
<1>6. [e \in D \ {b} |-> Z[e]] = [e \in D \ {b} |-> 1]
  BY <1>5
<1>7. QED BY <1>2, <1>4, <1>6 DEF SetToBag

\* The nodes of the list keep their places, the entries looked at are the same.
ListStays ==
    /\ Len(nodeList) <= Len(nodeList')
    /\ \A k \in 1 .. Len(nodeList) : nodeList'[k].NodeAddr = nodeList[k].NodeAddr
    /\ \A k \in 1 .. Len(nodeList') : \A j :
          Treated(k, j)' <=> k \in 1 .. Len(nodeList) /\ Treated(k, j)

LEMMA SoFarStays ==
    ASSUME ListTypes, SoFar, Known' = Known, ListStays,
           Len(nodeList') \in Nat
    PROVE  SoFar'
<1>0. Len(nodeList) \in Nat
  BY DEF ListTypes
<1>1. /\ \A k \in 1 .. Len(nodeList) :
            k \in 1 .. Len(nodeList') /\ PageOf(k)' = PageOf(k)
  BY <1>0 DEF ListStays, PageOf
<1>2. /\ Coordinator \in Known'
      /\ \A S \in SUBSET Addrs : Closed(S) => Known' \subseteq S
  BY DEF SoFar
<1>3. ASSUME NEW l \in 1 .. Len(nodeList'), NEW j \in 1 .. Len(PageOf(l)'),
             Treated(l, j)', IsAsked(PageOf(l)'[j])
      PROVE  PageOf(l)'[j].addr \in Known'
  <2>1. l \in 1 .. Len(nodeList) /\ Treated(l, j)
    BY <1>3 DEF ListStays
  <2>2. QED BY <1>1, <1>3, <2>1 DEF SoFar
<1>4. ASSUME NEW a \in Known' \ {Coordinator}
      PROVE  \E l \in 1 .. Len(nodeList') : \E j \in 1 .. Len(PageOf(l)') :
                Names(l, j, a)'
  <2>1. PICK l \in 1 .. Len(nodeList) : \E j \in 1 .. Len(PageOf(l)) :
                Names(l, j, a)
    BY DEF SoFar
  <2>2. PICK j \in 1 .. Len(PageOf(l)) : Names(l, j, a)
    BY <2>1
  <2>3. l \in 1 .. Len(nodeList') /\ PageOf(l)' = PageOf(l)
    BY <1>1
  <2>4. Treated(l, j)'
    BY <2>2, <2>3 DEF ListStays, Names
  <2>5. Names(l, j, a)'
    BY <2>2, <2>3, <2>4 DEF Names
  <2>6. QED BY <2>3, <2>5
<1>5. QED BY <1>2, <1>3, <1>4 DEF SoFar

LEMMA StillStays ==
    ASSUME ListAnyInv, SameCalls(calls'), UNCHANGED nodeList
    PROVE  ListStays
<1>1. \A k, j : Treated(k, j)' <=> Treated(k, j)
  BY StillTreats
<1>2. Len(nodeList) \in Nat
  BY DEF ListAnyInv, ListTypes
<1>3. QED BY <1>1, <1>2 DEF ListStays

LEMMA ReturnsStays ==
    ASSUME ListAnyInv, Returns
    PROVE  ListStays
<1>1. nodeList' = nodeList /\ Len(nodeList) \in Nat
  BY DEF ListAnyInv, ListTypes, Returns
<1>2. \A k \in 1 .. Len(nodeList) : \A j : Treated(k, j)' <=> Treated(k, j)
  BY ReturnsTreats
<1>3. QED BY <1>1, <1>2 DEF ListStays

LEMMA EntersStays ==
    ASSUME ListAnyInv, NEW a, Enters(a)
    PROVE  ListStays
<1>1. /\ Len(nodeList) \in Nat /\ Len(calls) \in Nat
      /\ Len(nodeList') = Len(nodeList) + 1
      /\ \A l \in 1 .. Len(nodeList) : nodeList'[l] = nodeList[l]
      /\ Len(calls') = Len(calls) + 1
      /\ \A n \in 1 .. Len(calls) : /\ calls'[n].local = calls[n].local
                                    /\ calls'[n].i = calls[n].i
      /\ calls'[Len(calls) + 1].local = Len(nodeList) + 1
      /\ calls'[Len(calls) + 1].i = 1
  BY EntersEffect DEF ListAnyInv
<1>2. ASSUME NEW k \in 1 .. Len(nodeList'), NEW j, Treated(k, j)'
      PROVE  k \in 1 .. Len(nodeList) /\ Treated(k, j)
  <2>1. /\ j \in 1 .. Len(Page(nodeList'[k].NodeAddr))
        /\ \A n \in 1 .. Len(calls') : calls'[n].local = k => j < calls'[n].i
    BY <1>2 DEF Treated, PageOf
  <2>2. k # Len(nodeList) + 1
    <3>1. SUFFICES ASSUME k = Len(nodeList) + 1 PROVE FALSE
      OBVIOUS
    <3>2. j < 1
      BY <2>1, <3>1, <1>1
    <3>3. QED BY <2>1, <3>2
  <2>3. k \in 1 .. Len(nodeList)
    BY <1>1, <2>2
  <2>4. \A n \in 1 .. Len(calls) : calls[n].local = k => j < calls[n].i
    BY <2>1, <1>1
  <2>5. QED BY <2>1, <2>3, <2>4, <1>1 DEF Treated, PageOf
<1>3. ASSUME NEW k \in 1 .. Len(nodeList), NEW j, Treated(k, j)
      PROVE  Treated(k, j)'
  <2>1. /\ j \in 1 .. Len(Page(nodeList[k].NodeAddr))
        /\ \A n \in 1 .. Len(calls) : calls[n].local = k => j < calls[n].i
    BY <1>3 DEF Treated, PageOf
  <2>2. ASSUME NEW n \in 1 .. Len(calls'), calls'[n].local = k
        PROVE  j < calls'[n].i
    <3>1. n # Len(calls) + 1
      BY <2>2, <1>1
    <3>2. n \in 1 .. Len(calls)
      BY <3>1, <1>1
    <3>3. QED BY <3>2, <2>1, <2>2, <1>1
  <2>3. nodeList'[k] = nodeList[k]
    BY <1>1
  <2>4. QED BY <2>1, <2>2, <2>3 DEF Treated, PageOf
<1>4. QED BY <1>1, <1>2, <1>3 DEF ListStays

\* The responses in the queue are the same.
QueueStays(d) ==
    /\ \A k \in 1 .. Len(mq') : mq'[k].kind = "lqi" =>
          k + d \in 1 .. Len(mq) /\ mq'[k] = mq[k + d]
    /\ \A k \in 1 .. Len(mq) : mq[k].kind = "lqi" =>
          k - d \in 1 .. Len(mq') /\ mq'[k - d] = mq[k]

LEMMA QueueStaysOnce ==
    ASSUME Once, NEW d \in {0, 1}, QueueStays(d), UNCHANGED asked,
           Len(mq) \in Nat, Len(mq') \in Nat,
           Len(nodeList') = Len(nodeList),
           \A k \in 1 .. Len(nodeList) :
              nodeList'[k].NodeAddr = nodeList[k].NodeAddr
    PROVE  Once' /\ Known' = Known
<1>1. \A x : x \in Coming <=> \E k \in 1 .. Len(mq) :
                                 mq[k].kind = "lqi" /\ mq[k].src = x
  BY DEF Coming
<1>2. \A x : x \in Coming' <=> \E k \in 1 .. Len(mq') :
                                 mq'[k].kind = "lqi" /\ mq'[k].src = x
  BY DEF Coming
<1>3. \A x : x \in Coming' => x \in Coming
  BY <1>1, <1>2 DEF QueueStays
<1>4. \A x : x \in Coming => x \in Coming'
  BY <1>1, <1>2 DEF QueueStays
<1>5. Coming' = Coming
  BY <1>3, <1>4
<1>6. \A k \in 1 .. Len(mq') : mq'[k].kind = "lqi" => mq'[k].ok
  BY DEF Once, QueueStays
<1>7. ASSUME NEW j \in 1 .. Len(mq'), NEW k \in 1 .. Len(mq'),
             mq'[j].kind = "lqi", mq'[k].kind = "lqi", mq'[j].src = mq'[k].src
      PROVE  j = k
  <2>1. /\ j + d \in 1 .. Len(mq) /\ mq'[j] = mq[j + d]
        /\ k + d \in 1 .. Len(mq) /\ mq'[k] = mq[k + d]
    BY <1>7 DEF QueueStays
  <2>2. j + d = k + d
    BY <2>1, <1>7 DEF Once
  <2>3. QED BY <2>2
<1>8. Listed' = Listed
  BY DEF Listed
<1>9. \A j, k \in 1 .. Len(nodeList') :
         nodeList'[j].NodeAddr = nodeList'[k].NodeAddr => j = k
  BY DEF Once
<1>10. Known' = Known
  BY <1>5, <1>8 DEF Known
<1>11. Once'
  BY <1>5, <1>6, <1>7, <1>8, <1>9 DEF Once
<1>12. QED BY <1>10, <1>11

\* What a message that is no response does to the queue.
LEMMA AppendStays ==
    ASSUME mq \in Seq(Messages), NEW m \in Messages, m.kind # "lqi",
           mq' = Append(mq, m)
    PROVE  QueueStays(0)
<1>1. /\ Len(mq) \in Nat /\ Len(mq') = Len(mq) + 1 /\ mq'[Len(mq) + 1] = m
      /\ \A k \in 1 .. Len(mq) : mq'[k] = mq[k]
  OBVIOUS
<1>2. \A k \in 1 .. Len(mq') : k \in 1 .. Len(mq) \/ k = Len(mq) + 1
  BY <1>1
<1>3. ASSUME NEW k \in 1 .. Len(mq'), mq'[k].kind = "lqi"
      PROVE  k + 0 \in 1 .. Len(mq) /\ mq'[k] = mq[k + 0]
  BY <1>1, <1>2, <1>3
<1>4. ASSUME NEW k \in 1 .. Len(mq), mq[k].kind = "lqi"
      PROVE  k - 0 \in 1 .. Len(mq') /\ mq'[k - 0] = mq[k]
  BY <1>1
<1>5. QED BY <1>3, <1>4 DEF QueueStays

LEMMA TailStays ==
    ASSUME mq \in Seq(Messages), mq # << >>, Head(mq).kind # "lqi",
           mq' = Tail(mq)
    PROVE  QueueStays(1)
<1>1. /\ Len(mq) \in Nat /\ Len(mq') = Len(mq) - 1 /\ Head(mq) = mq[1]
      /\ \A k \in 1 .. Len(mq') : mq'[k] = mq[k + 1]
  OBVIOUS
<1>2. ASSUME NEW k \in 1 .. Len(mq'), mq'[k].kind = "lqi"
      PROVE  k + 1 \in 1 .. Len(mq) /\ mq'[k] = mq[k + 1]
  BY <1>1
<1>3. ASSUME NEW k \in 1 .. Len(mq), mq[k].kind = "lqi"
      PROVE  k - 1 \in 1 .. Len(mq') /\ mq'[k - 1] = mq[k]
  <2>1. k # 1
    BY <1>1, <1>3
  <2>2. k - 1 \in 1 .. Len(mq') /\ (k - 1) + 1 = k
    BY <1>1, <2>1
  <2>3. QED BY <1>1, <2>2
<1>4. QED BY <1>2, <1>3 DEF QueueStays

LEMMA SameQueueStays ==
    ASSUME mq \in Seq(Messages), UNCHANGED mq
    PROVE  QueueStays(0)
<1>1. \A k \in 1 .. Len(mq) : k + 0 = k /\ k - 0 = k
  OBVIOUS
<1>2. QED BY <1>1 DEF QueueStays

\* A response is taken: its node moves from those that come to those listed.
LEMMA CleanEnters ==
    ASSUME ListAnyInv, Once, SoFar, mq # << >>, mq' = Tail(mq),
           Head(mq).kind = "lqi", Enters(Head(mq).src), UNCHANGED asked
    PROVE  Once' /\ SoFar'
<1> DEFINE a == Head(mq).src
           L == Len(nodeList)
<1>1. /\ mq \in Seq(Messages) /\ ListTypes
  BY DEF ListAnyInv, StartTypes
<1>2. /\ Len(mq) \in Nat /\ Len(mq') = Len(mq) - 1 /\ Head(mq) = mq[1]
      /\ 1 \in 1 .. Len(mq)
      /\ \A k \in 1 .. Len(mq') : /\ mq'[k] = mq[k + 1]
                                  /\ k + 1 \in 1 .. Len(mq) /\ k + 1 # 1
      /\ \A k \in 1 .. Len(mq) : k # 1 =>
            k - 1 \in 1 .. Len(mq') /\ mq'[k - 1] = mq[k]
  <2>1. /\ Len(mq) \in Nat /\ Len(mq') = Len(mq) - 1 /\ Head(mq) = mq[1]
        /\ 1 \in 1 .. Len(mq)
        /\ \A k \in 1 .. Len(mq') : mq'[k] = mq[k + 1]
    BY <1>1
  <2>2. ASSUME NEW k \in 1 .. Len(mq), k # 1
        PROVE  k - 1 \in 1 .. Len(mq') /\ (k - 1) + 1 = k
    BY <2>1, <2>2
  <2>3. QED BY <2>1, <2>2
<1>3. /\ L \in Nat /\ Len(nodeList') = L + 1
      /\ \A l \in 1 .. L : nodeList'[l] = nodeList[l]
      /\ nodeList'[L + 1].NodeAddr = a
  BY <1>1, EntersEffect
<1>4. \A l \in 1 .. Len(nodeList') : l \in 1 .. L \/ l = L + 1
  BY <1>3
<1>5. Listed' = Listed \cup {a}
  <2>1. Listed' \subseteq Listed \cup {a}
    BY <1>3, <1>4 DEF Listed
  <2>2. 1 .. L \subseteq 1 .. Len(nodeList') /\ L + 1 \in 1 .. Len(nodeList')
    BY <1>3
  <2>3. Listed \cup {a} \subseteq Listed'
    BY <1>3, <2>2 DEF Listed
  <2>4. QED BY <2>1, <2>3
<1>6. \A x : x \in Coming <=> \E k \in 1 .. Len(mq) :
                                 mq[k].kind = "lqi" /\ mq[k].src = x
  BY DEF Coming
<1>7. \A x : x \in Coming' <=> \E k \in 1 .. Len(mq') :
                                 mq'[k].kind = "lqi" /\ mq'[k].src = x
  BY DEF Coming
<1>8. a \in Coming
  BY <1>2, <1>6
<1>9. ASSUME NEW x \in Coming' PROVE x \in Coming /\ x # a
  <2>1. PICK k \in 1 .. Len(mq') : mq'[k].kind = "lqi" /\ mq'[k].src = x
    BY <1>7, <1>9
  <2>2. /\ mq[k + 1].kind = "lqi" /\ mq[k + 1].src = x
        /\ k + 1 \in 1 .. Len(mq) /\ k + 1 # 1
    BY <2>1, <1>2
  <2>3. x # a
    BY <2>2, <1>2 DEF Once
  <2>4. QED BY <2>2, <2>3, <1>6
<1>10. ASSUME NEW x \in Coming, x # a PROVE x \in Coming'
  <2>1. PICK k \in 1 .. Len(mq) : mq[k].kind = "lqi" /\ mq[k].src = x
    BY <1>6, <1>10
  <2>2. k # 1
    BY <2>1, <1>2, <1>10
  <2>3. QED BY <2>1, <2>2, <1>2, <1>7
<1>11. Coming' = Coming \ {a}
  BY <1>9, <1>10
<1>12. a \notin Listed /\ a \notin BagToSet(asked)
  BY <1>8 DEF Once
<1>13. Known' = Known
  BY <1>5, <1>8, <1>11 DEF Known
<1>14. SoFar'
  BY <1>1, <1>3, <1>13, EntersStays, SoFarStays
<1>15. \A k \in 1 .. Len(mq') : mq'[k].kind = "lqi" => mq'[k].ok
  BY <1>2 DEF Once
<1>16. ASSUME NEW j \in 1 .. Len(mq'), NEW k \in 1 .. Len(mq'),
              mq'[j].kind = "lqi", mq'[k].kind = "lqi", mq'[j].src = mq'[k].src
       PROVE  j = k
  <2>1. /\ j + 1 \in 1 .. Len(mq) /\ mq'[j] = mq[j + 1]
        /\ k + 1 \in 1 .. Len(mq) /\ mq'[k] = mq[k + 1]
    BY <1>2
  <2>2. j + 1 = k + 1
    BY <2>1, <1>16 DEF Once
  <2>3. QED BY <2>2
<1>17. ASSUME NEW j \in 1 .. Len(nodeList'), NEW k \in 1 .. Len(nodeList'),
              nodeList'[j].NodeAddr = nodeList'[k].NodeAddr
       PROVE  j = k
  <2>1. \A l \in 1 .. L : nodeList'[l].NodeAddr # a
    BY <1>3, <1>12 DEF Listed
  <2>2. CASE j \in 1 .. L /\ k \in 1 .. L
    BY <2>2, <1>3, <1>17 DEF Once
  <2>3. CASE j = L + 1 /\ k = L + 1
    BY <2>3
  <2>4. QED BY <2>1, <2>2, <2>3, <1>3, <1>4, <1>17
<1>18. Once'
  <2>1. BagToSet(asked') \cap Coming' = {} /\ BagToSet(asked') \cap Listed' = {}
    BY <1>5, <1>11, <1>12 DEF Once
  <2>2. Coming' \cap Listed' = {}
    BY <1>5, <1>11 DEF Once
  <2>3. asked' = SetToBag(BagToSet(asked'))
    BY DEF Once
  <2>4. QED BY <1>15, <1>16, <1>17, <2>1, <2>2, <2>3 DEF Once
<1>19. QED BY <1>14, <1>18

\* A request is answered: its node moves from those asked to those that come.
LEMMA CleanAnswer ==
    ASSUME ListAnyInv, Once, SoFar, NEW a \in BagToSet(asked),
           asked' = asked (-) SetToBag({a}),
           mq' = Append(mq, [kind |-> "lqi", src |-> a, ok |-> TRUE]),
           UNCHANGED <<nodeList, calls>>
    PROVE  Once' /\ SoFar'
<1>1. mq \in Seq(Messages) /\ ListTypes
  BY DEF ListAnyInv, StartTypes
<1>2. PICK m \in Messages : /\ m = [kind |-> "lqi", src |-> a, ok |-> TRUE]
                            /\ m.kind = "lqi" /\ m.src = a /\ m.ok
  <2>1. a \in Addrs
    BY <1>1 DEF ListTypes
  <2>2. [kind |-> "lqi", src |-> a, ok |-> TRUE] \in Messages
    BY <2>1 DEF Messages, LqiMsg
  <2>3. QED BY <2>2
<1>3. /\ Len(mq) \in Nat /\ Len(mq') = Len(mq) + 1 /\ mq'[Len(mq) + 1] = m
      /\ \A k \in 1 .. Len(mq) : mq'[k] = mq[k]
  BY <1>1, <1>2
<1>4. \A k \in 1 .. Len(mq') : k \in 1 .. Len(mq) \/ k = Len(mq) + 1
  BY <1>3
<1>5. /\ asked' = SetToBag(BagToSet(asked) \ {a})
      /\ BagToSet(asked') = BagToSet(asked) \ {a}
  <2>1. PICK D : D = BagToSet(asked)
    OBVIOUS
  <2>2. asked = SetToBag(D) /\ a \in D
    BY <2>1 DEF Once
  <2>3. asked' = SetToBag(D \ {a})
    BY <2>2, BagRemove
  <2>4. QED BY <2>1, <2>3 DEF SetToBag, BagToSet
<1>6. \A x : x \in Coming <=> \E k \in 1 .. Len(mq) :
                                 mq[k].kind = "lqi" /\ mq[k].src = x
  BY DEF Coming
<1>7. \A x : x \in Coming' <=> \E k \in 1 .. Len(mq') :
                                 mq'[k].kind = "lqi" /\ mq'[k].src = x
  BY DEF Coming
<1>8. \A x : x \in Coming' => x \in Coming \/ x = a
  BY <1>2, <1>3, <1>4, <1>6, <1>7
<1>9. \A x \in Coming : x \in Coming'
  <2>1. 1 .. Len(mq) \subseteq 1 .. Len(mq')
    BY <1>3
  <2>2. QED BY <2>1, <1>3, <1>6, <1>7
<1>10. a \in Coming'
  <2>1. Len(mq) + 1 \in 1 .. Len(mq')
    BY <1>3
  <2>2. QED BY <2>1, <1>2, <1>3, <1>7
<1>11. Coming' = Coming \cup {a}
  BY <1>8, <1>9, <1>10
<1>12. a \notin Coming /\ a \notin Listed /\ Listed' = Listed
  BY DEF Once, Listed
<1>13. Known' = Known
  BY <1>5, <1>11, <1>12 DEF Known
<1>14. SoFar'
  <2>1. SameCalls(calls')
    BY <1>1, SelfSame
  <2>2. Len(nodeList') \in Nat
    BY <1>1 DEF ListTypes
  <2>3. QED BY <1>1, <1>13, <2>1, <2>2, StillStays, SoFarStays
<1>15. \A k \in 1 .. Len(mq') : mq'[k].kind = "lqi" => mq'[k].ok
  BY <1>2, <1>3, <1>4 DEF Once
<1>16. ASSUME NEW j \in 1 .. Len(mq'), NEW k \in 1 .. Len(mq'),
              mq'[j].kind = "lqi", mq'[k].kind = "lqi", mq'[j].src = mq'[k].src
       PROVE  j = k
  <2>1. \A l \in 1 .. Len(mq) : mq[l].kind = "lqi" => mq[l].src # a
    BY <1>6, <1>12
  <2>2. CASE j \in 1 .. Len(mq) /\ k \in 1 .. Len(mq)
    BY <2>2, <1>3, <1>16 DEF Once
  <2>3. CASE j = Len(mq) + 1 /\ k = Len(mq) + 1
    BY <2>3
  <2>4. CASE j \in 1 .. Len(mq) /\ k = Len(mq) + 1
    BY <2>1, <2>4, <1>2, <1>3, <1>16
  <2>5. CASE j = Len(mq) + 1 /\ k \in 1 .. Len(mq)
    BY <2>1, <2>5, <1>2, <1>3, <1>16
  <2>6. QED BY <2>2, <2>3, <2>4, <2>5, <1>4
<1>17. Once'
  <2>1. BagToSet(asked') \cap Coming' = {} /\ BagToSet(asked') \cap Listed' = {}
    BY <1>5, <1>11, <1>12 DEF Once
  <2>2. Coming' \cap Listed' = {}
    BY <1>11, <1>12 DEF Once
  <2>3. asked' = SetToBag(BagToSet(asked'))
    BY <1>5
  <2>4. \A j, k \in 1 .. Len(nodeList') :
           nodeList'[j].NodeAddr = nodeList'[k].NodeAddr => j = k
    BY DEF Once
  <2>5. QED BY <1>15, <1>16, <2>1, <2>2, <2>3, <2>4 DEF Once
<1>18. QED BY <1>14, <1>17

\* A router is named by one entry of one page, the coordinator by none.
LEMMA NamedOnce ==
    ASSUME NEW a \in Addrs, NEW b \in Addrs,
           NEW i \in 1 .. Len(Page(a)), NEW j \in 1 .. Len(Page(b)),
           IsAsked(Page(a)[i])
    PROVE  /\ Page(a)[i].addr # Coordinator
           /\ IsAsked(Page(b)[j]) /\ Page(b)[j].addr = Page(a)[i].addr
              => a = b /\ i = j
<1>1. /\ i \in DOMAIN Neighbours[a] /\ Page(a)[i] = Neighbours[a][i]
      /\ j \in DOMAIN Neighbours[b] /\ Page(b)[j] = Neighbours[b][j]
  BY PageType
<1>2. QED BY <1>1, TreeAssumption

\* A router is asked that was not before.
LEMMA CleanLooks ==
    ASSUME ListAnyInv, Once, SoFar, NEW l, NEW a, NEW i, Looks(l, a, i)
    PROVE  Once' /\ SoFar'
<1> DEFINE L == Len(nodeList)
           C == Len(calls)
           e == Page(a)[i]
<1>1. /\ C \in 1 .. C /\ l \in 1 .. L /\ a \in Addrs
      /\ i \in 1 .. Len(Page(a)) /\ e \in Entry
      /\ a = nodeList[l].NodeAddr
      /\ calls[C].local = l /\ calls[C].i = i
      /\ Len(nodeList') = L
      /\ \A k \in 1 .. L : nodeList'[k].NodeAddr = nodeList[k].NodeAddr
      /\ Len(calls') = C
      /\ \A n \in 1 .. C : /\ calls'[n].local = calls[n].local
                           /\ calls'[n].i = IF n = C THEN i + 1 ELSE calls[n].i
      /\ mq' = mq
  BY DEF Looks, startVars
<1>2. /\ mq \in Seq(Messages) /\ L \in Nat
      /\ \A k \in 1 .. L : nodeList[k].NodeAddr \in Addrs
  <2>1. nodeList \in Seq(Node) /\ mq \in Seq(Messages)
    BY DEF ListAnyInv, ListTypes, StartTypes
  <2>2. \A k \in 1 .. L : nodeList[k] \in Node
    BY <2>1, ElementOfSeq
  <2>3. QED BY <2>1, <2>2 DEF Node
<1>3. \A m, n \in 1 .. C : calls[m].local = calls[n].local => m = n
  BY DEF ListAnyInv, CallsOwn
<1>4. \A k \in 1 .. L : PageOf(k)' = PageOf(k)
  BY <1>1 DEF PageOf
<1>5. ASSUME NEW k \in 1 .. L, NEW j
      PROVE  Treated(k, j)' <=> Treated(k, j) \/ (k = l /\ j = i)
  <2>1. Treated(k, j)' <=>
           /\ j \in 1 .. Len(PageOf(k))
           /\ \A n \in 1 .. C : calls[n].local = k =>
                 j < IF n = C THEN i + 1 ELSE calls[n].i
    BY <1>1, <1>4 DEF Treated
  <2>2. CASE k # l
    <3>1. \A n \in 1 .. C : calls[n].local = k => n # C
      BY <2>2, <1>1
    <3>2. QED BY <2>1, <2>2, <3>1 DEF Treated
  <2>3. CASE k = l
    <3>1. \A n \in 1 .. C : calls[n].local = k <=> n = C
      BY <2>3, <1>1, <1>3
    <3>2. Treated(k, j)' <=> j \in 1 .. Len(PageOf(k)) /\ j < i + 1
      BY <2>1, <3>1, <1>1
    <3>3. Treated(k, j) <=> j \in 1 .. Len(PageOf(k)) /\ j < i
      BY <3>1, <1>1 DEF Treated
    <3>4. i \in 1 .. Len(PageOf(k)) /\ i \in Int
      BY <2>3, <1>1 DEF PageOf
    <3>5. QED BY <3>2, <3>3, <3>4, <2>3
  <2>4. QED BY <2>2, <2>3
<1>6. PageOf(l) = Page(a) /\ i \in 1 .. Len(PageOf(l)) /\ ~Treated(l, i)
  <2>1. ~(i < i)
    BY <1>1
  <2>2. QED BY <2>1, <1>1 DEF Treated, PageOf
<1>7. Listed' = Listed /\ Coming' = Coming
  BY <1>1 DEF Listed, Coming
<1>8. CASE ~IsAsked(e)
  <2>1. asked' = asked
    BY <1>8 DEF Looks
  <2>2. Once' /\ Known' = Known
    <3>1. QueueStays(0)
      BY <1>1, <1>2, SameQueueStays
    <3>2. QED BY <2>1, <3>1, <1>1, <1>2, QueueStaysOnce
  <2>3. SoFar'
    <3>1. ASSUME NEW k \in 1 .. L, NEW j \in 1 .. Len(PageOf(k)),
                 Treated(k, j)', IsAsked(PageOf(k)[j])
          PROVE  PageOf(k)[j].addr \in Known
      BY <3>1, <1>5, <1>6, <1>8 DEF SoFar
    <3>2. ASSUME NEW x \in Known \ {Coordinator}
          PROVE  \E k \in 1 .. L : \E j \in 1 .. Len(PageOf(k)) : Names(k, j, x)'
      <4>1. PICK k \in 1 .. L : \E j \in 1 .. Len(PageOf(k)) : Names(k, j, x)
        BY DEF SoFar
      <4>2. PICK j \in 1 .. Len(PageOf(k)) : Names(k, j, x)
        BY <4>1
      <4>3. Names(k, j, x)'
        BY <4>2, <1>4, <1>5 DEF Names
      <4>4. QED BY <4>3
    <3>3. QED BY <2>2, <3>1, <3>2, <1>1, <1>4 DEF SoFar
  <2>4. QED BY <2>2, <2>3
<1>9. CASE IsAsked(e)
  <2>1. asked' = asked (+) SetToBag({e.addr}) /\ e.addr \in Addrs
    BY <1>1, <1>9 DEF Looks, Entry
  <2>2. e.addr \notin Known
    <3>1. SUFFICES ASSUME e.addr \in Known PROVE FALSE
      OBVIOUS
    <3>2. e.addr # Coordinator
      BY <1>1, <1>9, NamedOnce
    <3>3. PICK k \in 1 .. L : \E j \in 1 .. Len(PageOf(k)) :
                                 Names(k, j, e.addr)
      BY <3>1, <3>2 DEF SoFar
    <3>4. PICK j \in 1 .. Len(PageOf(k)) : Names(k, j, e.addr)
      BY <3>3
    <3>5. nodeList[k].NodeAddr = a /\ j = i
      <4>1. /\ nodeList[k].NodeAddr \in Addrs
            /\ j \in 1 .. Len(Page(nodeList[k].NodeAddr))
            /\ IsAsked(Page(nodeList[k].NodeAddr)[j])
            /\ Page(nodeList[k].NodeAddr)[j].addr = e.addr
        BY <3>4, <1>2 DEF Names, PageOf
      <4>2. QED BY <4>1, <1>1, <1>9, NamedOnce
    <3>6. k = l
      BY <3>5, <1>1 DEF Once
    <3>7. QED BY <3>4, <3>5, <3>6, <1>6 DEF Names
  <2>3. /\ asked' = SetToBag(BagToSet(asked) \cup {e.addr})
        /\ BagToSet(asked') = BagToSet(asked) \cup {e.addr}
    <3>1. PICK D : D = BagToSet(asked)
      OBVIOUS
    <3>2. asked = SetToBag(D) /\ e.addr \notin D
      BY <3>1, <2>2 DEF Once, Known
    <3>3. asked' = SetToBag(D \cup {e.addr})
      BY <2>1, <3>2, BagAdd
    <3>4. QED BY <3>1, <3>3 DEF SetToBag, BagToSet
  <2>4. Known' = Known \cup {e.addr}
    BY <2>3, <1>7 DEF Known
  <2>5. Once'
    <3>1. /\ \A k \in 1 .. Len(mq') : mq'[k].kind = "lqi" => mq'[k].ok
          /\ \A j, k \in 1 .. Len(mq') :
                mq'[j].kind = "lqi" /\ mq'[k].kind = "lqi"
                   /\ mq'[j].src = mq'[k].src
                => j = k
      BY <1>1 DEF Once
    <3>2. \A j, k \in 1 .. Len(nodeList') :
             nodeList'[j].NodeAddr = nodeList'[k].NodeAddr => j = k
      BY <1>1 DEF Once
    <3>3. /\ BagToSet(asked') \cap Coming' = {}
          /\ BagToSet(asked') \cap Listed' = {}
          /\ Coming' \cap Listed' = {}
      BY <2>2, <2>3, <1>7 DEF Once, Known
    <3>4. asked' = SetToBag(BagToSet(asked'))
      BY <2>3
    <3>5. QED BY <3>1, <3>2, <3>3, <3>4 DEF Once
  <2>6. SoFar'
    <3>1. ASSUME NEW S \in SUBSET Addrs, Closed(S) PROVE Known' \subseteq S
      <4>1. Known \subseteq S
        BY <3>1 DEF SoFar
      <4>2. a \in S
        BY <4>1, <1>1 DEF Known, Listed
      <4>3. DOMAIN Page(a) = 1 .. Len(Page(a))
        BY <1>1, PageType
      <4>4. e.addr \in S
        BY <3>1, <4>2, <4>3, <1>1, <1>9 DEF Closed
      <4>5. QED BY <4>1, <4>4, <2>4
    <3>2. ASSUME NEW k \in 1 .. L, NEW j \in 1 .. Len(PageOf(k)),
                 Treated(k, j)', IsAsked(PageOf(k)[j])
          PROVE  PageOf(k)[j].addr \in Known'
      <4>1. CASE Treated(k, j)
        BY <4>1, <3>2, <2>4 DEF SoFar
      <4>2. CASE k = l /\ j = i
        BY <4>2, <2>4, <1>6
      <4>3. QED BY <4>1, <4>2, <3>2, <1>5
    <3>3. ASSUME NEW x \in Known' \ {Coordinator}
          PROVE  \E k \in 1 .. L : \E j \in 1 .. Len(PageOf(k)) : Names(k, j, x)'
      <4>1. CASE x = e.addr
        <5>1. Names(l, i, x)'
          BY <4>1, <1>1, <1>4, <1>5, <1>6, <1>9 DEF Names
        <5>2. QED BY <5>1, <1>1, <1>6
      <4>2. CASE x \in Known
        <5>1. PICK k \in 1 .. L : \E j \in 1 .. Len(PageOf(k)) : Names(k, j, x)
          BY <4>2, <3>3 DEF SoFar
        <5>2. PICK j \in 1 .. Len(PageOf(k)) : Names(k, j, x)
          BY <5>1
        <5>3. Names(k, j, x)'
          BY <5>2, <1>4, <1>5 DEF Names
        <5>4. QED BY <5>3
      <4>3. QED BY <4>1, <4>2, <3>3, <2>4
    <3>4. Coordinator \in Known'
      BY <2>4 DEF SoFar
    <3>5. QED BY <3>1, <3>2, <3>3, <3>4, <1>1, <1>4 DEF SoFar
  <2>7. QED BY <2>5, <2>6
<1>10. QED BY <1>8, <1>9

\* A round begins: the coordinator is asked, and nothing else is under way.
LEMMA CleanDiscover ==
    ASSUME mq \in Seq(Messages), Discover, clean'
    PROVE  Once' /\ SoFar'
<1>1. /\ asked = EmptyBag /\ \A k \in 1 .. Len(mq) : mq[k].kind # "lqi"
      /\ asked' = asked (+) SetToBag({Coordinator})
      /\ nodeList' = << >> /\ mq' = mq
  <2>1. DOMAIN mq = 1 .. Len(mq)
    OBVIOUS
  <2>2. QED BY <2>1 DEF Discover, zdoMgmtLqiReq
<1>2. /\ asked' = SetToBag({Coordinator}) /\ BagToSet(asked') = {Coordinator}
  <2>1. PICK D : D = {}
    OBVIOUS
  <2>2. asked = SetToBag(D) /\ Coordinator \notin D
    BY <2>1, <1>1 DEF EmptyBag
  <2>3. asked' = SetToBag(D \cup {Coordinator})
    BY <2>2, <1>1, BagAdd
  <2>4. D \cup {Coordinator} = {Coordinator}
    BY <2>1
  <2>5. QED BY <2>3, <2>4 DEF SetToBag, BagToSet
<1>3. Coming' = {} /\ Listed' = {}
  BY <1>1 DEF Coming, Listed
<1>4. Known' = {Coordinator}
  BY <1>2, <1>3 DEF Known
<1>5. Once'
  <2>1. \A k \in 1 .. Len(mq') : mq'[k].kind # "lqi"
    BY <1>1
  <2>2. \A j, k \in 1 .. Len(nodeList') :
           nodeList'[j].NodeAddr = nodeList'[k].NodeAddr => j = k
    BY <1>1
  <2>3. asked' = SetToBag(BagToSet(asked'))
    BY <1>2
  <2>4. QED BY <2>1, <2>2, <2>3, <1>3 DEF Once
<1>6. SoFar'
  BY <1>1, <1>4 DEF SoFar, Closed
<1>7. QED BY <1>5, <1>6

LEMMA LeastIsReached ==
    ASSUME NEW S \in SUBSET Addrs, Closed(S),
           \A T \in SUBSET Addrs : Closed(T) => S \subseteq T
    PROVE  Reached = S
<1>1. ASSUME NEW R \in SUBSET Addrs, Closed(R),
             \A T \in SUBSET Addrs : Closed(T) => R \subseteq T
      PROVE  R = S
  BY <1>1
<1>2. /\ Reached \in SUBSET Addrs /\ Closed(Reached)
      /\ \A T \in SUBSET Addrs : Closed(T) => Reached \subseteq T
  BY DEF Reached
<1>3. QED BY <1>1, <1>2

LEMMA CountListed ==
    ASSUME NEW n \in Nat, NEW f, \A j, k \in 1 .. n : f[j] = f[k] => j = k
    PROVE  Cardinality({f[k] : k \in 1 .. n}) = n
<1> DEFINE S == {f[k] : k \in 1 .. n}
           g == [k \in 1 .. n |-> f[k]]
<1>1. g \in [1 .. n -> S] /\ \A j, k \in 1 .. n : g[j] = g[k] => j = k
  OBVIOUS
<1>2. g \in Injection(1 .. n, S)
  BY <1>1 DEF Injection, IsInjective
<1>3. g \in Surjection(1 .. n, S)
  <2>1. \A x \in S : \E k \in 1 .. n : g[k] = x
    OBVIOUS
  <2>2. QED BY <1>1, <2>1 DEF Surjection
<1>4. ExistsBijection(1 .. n, S)
  BY <1>2, <1>3 DEF ExistsBijection, Bijection
<1>5. QED BY <1>4, FS_CountingElements

\* A clean round is over: what is known is listed, and closed.
LEMMA CleanPrint ==
    ASSUME ListAnyInv, Once, SoFar, mq = << >>, calls = << >>,
           asked = EmptyBag
    PROVE  /\ {nodeList[k].NodeAddr : k \in DOMAIN nodeList} = Reached
           /\ Len(nodeList) = Cardinality(Reached)
           /\ \A k \in DOMAIN nodeList :
                 AreChildren(nodeList[k].childs, nodeList[k].NodeAddr)
<1> DEFINE L == Len(nodeList)
<1>1. /\ nodeList \in Seq(Node) /\ L \in Nat /\ DOMAIN nodeList = 1 .. L
      /\ \A k \in 1 .. L : nodeList[k].NodeAddr \in Addrs
  <2>1. nodeList \in Seq(Node)
    BY DEF ListAnyInv, ListTypes
  <2>2. \A k \in 1 .. L : nodeList[k] \in Node
    BY <2>1, ElementOfSeq
  <2>3. QED BY <2>1, <2>2 DEF Node
<1>2. Known = Listed /\ Listed \in SUBSET Addrs
  <2>1. Coming = {} /\ BagToSet(asked) = {}
    BY DEF Coming, EmptyBag, BagToSet, SetToBag
  <2>2. QED BY <2>1, <1>1 DEF Known, Listed
<1>3. ASSUME NEW k \in 1 .. L
      PROVE  /\ DOMAIN PageOf(k) = 1 .. Len(PageOf(k))
             /\ \A j \in 1 .. Len(PageOf(k)) : Treated(k, j)
  <2>1. DOMAIN PageOf(k) = 1 .. Len(PageOf(k))
    BY <1>1, PageType DEF PageOf
  <2>2. QED BY <2>1 DEF Treated
<1>4. Closed(Listed)
  <2>1. Coordinator \in Listed
    BY <1>2 DEF SoFar
  <2>2. ASSUME NEW a \in Listed, NEW j \in DOMAIN Page(a), IsAsked(Page(a)[j])
        PROVE  Page(a)[j].addr \in Listed
    <3>1. PICK k \in 1 .. L : a = nodeList[k].NodeAddr
      BY DEF Listed
    <3>2. PageOf(k) = Page(a) /\ j \in 1 .. Len(PageOf(k)) /\ Treated(k, j)
      BY <3>1, <2>2, <1>3 DEF PageOf
    <3>3. QED BY <3>2, <2>2, <1>2 DEF SoFar
  <2>3. QED BY <2>1, <2>2 DEF Closed
<1>5. Reached = Listed
  BY <1>2, <1>4, LeastIsReached DEF SoFar
<1>6. Cardinality(Listed) = L
  <2>1. PICK f : f = [k \in 1 .. L |-> nodeList[k].NodeAddr]
    OBVIOUS
  <2>2. \A j, k \in 1 .. L : f[j] = f[k] => j = k
    BY <2>1 DEF Once
  <2>3. {f[k] : k \in 1 .. L} = Listed
    BY <2>1 DEF Listed
  <2>4. QED BY <2>2, <2>3, <1>1, CountListed
<1>7. ASSUME NEW k \in 1 .. L
      PROVE  AreChildren(nodeList[k].childs, nodeList[k].NodeAddr)
  <2>1. \A n \in 1 .. Len(calls) : calls[n].local # k
    OBVIOUS
  <2>2. Len(nodeList[k].childs) = Rank(nodeList[k].NodeAddr, Len(PageOf(k)))
    BY <2>1 DEF ListAnyInv, ChildsOwn
  <2>3. \A j \in 1 .. Len(PageOf(k)) :
           IsChild(PageOf(k)[j]) =>
              nodeList[k].childs[Rank(nodeList[k].NodeAddr, j)] =
                 [addr |-> PageOf(k)[j].addr, type |-> PageOf(k)[j].type]
    BY <1>3 DEF ListAnyInv, ChildsOwn
  <2>4. QED BY <2>2, <2>3, <1>3 DEF AreChildren, PageOf
<1>8. QED BY <1>1, <1>5, <1>6, <1>7 DEF Listed

--------------------------------------------------------------------------------
(* The invariant and the steps.                                              *)
LEMMA AnyOfInv == ASSUME ListInv PROVE ListAnyInv /\ StartInv
BY DEF ListInv, ListAnyInv, StartInv

LEMMA InitInv == Init => ListInv
<1>1. SUFFICES ASSUME Init PROVE ListInv
  OBVIOUS
<1>2. StartInv /\ pc = "flush"
  BY <1>1, StartInitInv DEF Init, StartInit
<1>3. /\ nodeList = << >> /\ calls = << >> /\ asked = EmptyBag /\ rounds = 0
      /\ clean = TRUE
  BY <1>1 DEF Init
<1>4. ListTypes
  BY <1>3, NetworkAssumption DEF ListTypes, BagToSet, EmptyBag, SetToBag
<1>5. CallsOwn /\ ChildsOwn
  BY <1>3 DEF CallsOwn, ChildsOwn
<1>6. CleanRound /\ Discovered
  BY <1>2 DEF CleanRound, Discovered
<1>7. QED BY <1>2, <1>4, <1>5, <1>6 DEF ListInv

\* The start-up, the processor, and what else leaves the list alone.
LEMMA AsideStep ==
    ASSUME ListInv, StartInv', UNCHANGED topoVars,
           pc = "listen" => \E d \in {0, 1} : QueueStays(d),
           pc = "listen" \/ calls # << >> => pc' = pc,
           pc' \in {"listen", "printed"} => pc' = pc
    PROVE  ListInv'
<1>1. /\ ListAnyInv /\ SameCalls(calls') /\ ListTypes
      /\ UNCHANGED <<nodeList, calls, asked, rounds, clean>>
  BY AnyOfInv, SelfSame DEF topoVars, ListAnyInv
<1>2. calls' # << >> => pc' = "listen"
  BY <1>1 DEF ListInv, CallsOwn
<1>3. ListTypes' /\ CallsOwn' /\ ChildsOwn'
  BY <1>1, <1>2, StillKeeps DEF ListTypes
<1>4. ASSUME clean', pc' = "listen" PROVE Once' /\ SoFar'
  <2>1. Once /\ SoFar
    BY <1>1, <1>4 DEF ListInv, CleanRound
  <2>2. /\ Len(mq) \in Nat /\ Len(mq') \in Nat
        /\ Len(nodeList) \in Nat /\ Len(nodeList') \in Nat
    BY <1>1, <1>3 DEF ListInv, StartInv, StartTypes, ListTypes
  <2>3. Once' /\ Known' = Known
    BY <1>1, <1>4, <2>1, <2>2, QueueStaysOnce
  <2>4. ListStays
    BY <1>1, StillStays
  <2>5. QED BY <1>1, <2>1, <2>2, <2>3, <2>4, SoFarStays
<1>5. Discovered'
  BY <1>1 DEF ListInv, Discovered
<1>6. QED BY <1>3, <1>4, <1>5 DEF ListInv, CleanRound

LEMMA StartInvStep ==
    ASSUME ListInv, Start
    PROVE  ListInv'
<1>1. StartInv' /\ UNCHANGED topoVars
  BY AnyOfInv, StartStepInv DEF Start
<1>2. pc \notin {"listen", "printed"} /\ pc' \notin {"listen", "printed"}
  BY DEF Start, StartStep, Flush, Ask, setNVStartup, sysResetReq, Settle,
         setNVDevType, setNVPanID, setNVChanList, registerAf, zdoInit, Wait,
         Keep, Report, setNVDirectCb, Write, WriteOther
<1>3. calls = << >>
  BY <1>2 DEF ListInv, CallsOwn
<1>4. QED BY <1>1, <1>2, <1>3, AsideStep

LEMMA NetworkStep ==
    ASSUME ListInv, Network
    PROVE  ListInv'
<1>1. StartInv' /\ UNCHANGED topoVars /\ pc' = pc
  BY AnyOfInv, ProgressInv DEF Network, Progress
<1>2. PICK m \in Messages : m.kind # "lqi" /\ mq' = Append(mq, m)
  <2>1. /\ soc.todo \in Seq(States) /\ soc.todo # << >>
        /\ mq' = Append(mq, StateChange(Head(soc.todo)))
    BY DEF ListInv, StartInv, StartTypes, Network, Progress
  <2>2. Head(soc.todo) \in States
    BY <2>1
  <2>3. StateChange(Head(soc.todo)) \in Messages
    BY <2>2 DEF StateChange, Messages, StateMsg
  <2>4. StateChange(Head(soc.todo)).kind # "lqi"
    BY DEF StateChange
  <2>5. QED BY <2>1, <2>3, <2>4
<1>3. mq \in Seq(Messages)
  BY DEF ListInv, StartInv, StartTypes
<1>4. QueueStays(0)
  BY <1>2, <1>3, AppendStays
<1>5. QED BY <1>1, <1>4, AsideStep

LEMMA StillStep ==
    ASSUME ListInv, UNCHANGED vars
    PROVE  ListInv'
<1>1. UNCHANGED <<startVars, topoVars>>
  BY DEF vars
<1>2. StartInv'
  BY <1>1, AnyOfInv
     DEF startVars, StartInv, StartTypes, Climbs, InitedLate, NothingFresh,
         FreshIsTrue, SocUp, UpWasSeen, ResultLate, NetworkSoFar, StartOption
<1>3. mq \in Seq(Messages) /\ UNCHANGED mq /\ UNCHANGED pc
  BY <1>1 DEF ListInv, StartInv, StartTypes, startVars
<1>4. QueueStays(0)
  BY <1>3, SameQueueStays
<1>5. QED BY <1>1, <1>2, <1>3, <1>4, AsideStep

LEMMA AnswerStep ==
    ASSUME ListInv, Answer
    PROVE  ListInv'
<1>1. PICK a \in BagToSet(asked) :
         /\ asked' = asked (-) SetToBag({a})
         /\ \/ /\ mq' = Append(mq, [kind |-> "lqi", src |-> a, ok |-> TRUE])
               /\ UNCHANGED <<stray, clean>>
            \/ /\ clean' = FALSE
               /\ \/ mq' = Append(mq, [kind |-> "lqi", src |-> a, ok |-> FALSE])
                  \/ UNCHANGED mq
         /\ UNCHANGED <<pc, devState, stale, startRest, nodeList, calls, rounds>>
  BY DEF Answer
<1>2. ListAnyInv /\ StartInv /\ ListTypes /\ a \in Addrs
  BY AnyOfInv DEF ListInv, ListTypes
<1>3. /\ mq' \in Seq(Messages) /\ Len(mq) \in Nat
      /\ \A k \in 1 .. Len(mq') :
            (k \in 1 .. Len(mq) /\ mq'[k] = mq[k]) \/ ~IsFresh(mq'[k])
  <2>1. mq \in Seq(Messages)
    BY <1>2 DEF StartInv, StartTypes
  <2>2. CASE UNCHANGED mq
    BY <2>1, <2>2
  <2>3. CASE \E r \in BOOLEAN :
                mq' = Append(mq, [kind |-> "lqi", src |-> a, ok |-> r])
    <3>1. PICK r \in BOOLEAN :
             mq' = Append(mq, [kind |-> "lqi", src |-> a, ok |-> r])
      BY <2>3
    <3>2. PICK m \in Messages : mq' = Append(mq, m) /\ m.kind = "lqi"
      <4>1. [kind |-> "lqi", src |-> a, ok |-> r] \in Messages
        BY <1>2 DEF Messages, LqiMsg
      <4>2. QED BY <3>1, <4>1
    <3>3. /\ Len(mq') = Len(mq) + 1 /\ mq'[Len(mq) + 1] = m
          /\ Len(mq) \in Nat /\ mq' \in Seq(Messages)
          /\ \A k \in 1 .. Len(mq) : mq'[k] = mq[k]
      BY <2>1, <3>2
    <3>4. ~IsFresh(m)
      BY <3>2 DEF IsFresh
    <3>5. \A k \in 1 .. Len(mq') : k \in 1 .. Len(mq) \/ k = Len(mq) + 1
      BY <3>3
    <3>6. QED BY <3>3, <3>4, <3>5
  <2>4. QED BY <1>1, <2>2, <2>3
<1>4. UNCHANGED <<pc, devState, stale, newNwk, devType, nv, soc, result,
                  hadNetwork, wasReset, refused, mistaken>>
  BY <1>1 DEF startRest
<1>5. StartInv'
  <2>1. StartTypes'
    BY <1>2, <1>3, <1>4 DEF StartInv, StartTypes
  <2>2. NothingFresh' /\ FreshIsTrue'
    <3>1. SocUp' <=> SocUp
      BY <1>4 DEF SocUp
    <3>2. \A k \in 1 .. Len(mq') : IsFresh(mq'[k]) =>
             k \in 1 .. Len(mq) /\ mq'[k] = mq[k]
      BY <1>3
    <3>3. QED BY <1>2, <1>4, <3>1, <3>2 DEF StartInv, NothingFresh, FreshIsTrue
  <2>3. InitedLate' /\ UpWasSeen' /\ ResultLate' /\ NetworkSoFar'
           /\ Climbs(soc.todo)'
    BY <1>2, <1>4 DEF StartInv, InitedLate, UpWasSeen, SocUp, ResultLate,
                      NetworkSoFar, StartOption, Climbs
  <2>4. QED BY <2>1, <2>2, <2>3 DEF StartInv
<1>6. ListTypes' /\ CallsOwn' /\ ChildsOwn'
  <2>1. BagToSet(asked') \subseteq BagToSet(asked)
    BY <1>1 DEF BagToSet, (-), SetToBag
  <2>2. SameCalls(calls')
    BY <1>1, <1>2, SelfSame
  <2>3. calls' # << >> => pc' = "listen"
    BY <1>1 DEF ListInv, CallsOwn
  <2>4. /\ BagToSet(asked') \subseteq Addrs /\ rounds' \in 0 .. MaxRounds
        /\ clean' \in BOOLEAN
    BY <1>1, <1>2, <2>1 DEF ListTypes
  <2>5. QED BY <1>1, <1>2, <2>2, <2>3, <2>4, StillKeeps
<1>7. CleanRound'
  <2>1. SUFFICES ASSUME clean', pc' = "listen" PROVE Once' /\ SoFar'
    BY DEF CleanRound
  <2>2. /\ Once /\ SoFar
        /\ mq' = Append(mq, [kind |-> "lqi", src |-> a, ok |-> TRUE])
    BY <1>1, <1>4, <2>1 DEF ListInv, CleanRound
  <2>3. QED BY <1>1, <1>2, <2>2, CleanAnswer
<1>8. Discovered'
  BY <1>1 DEF ListInv, Discovered
<1>9. QED BY <1>5, <1>6, <1>7, <1>8 DEF ListInv

LEMMA DiscoverStep ==
    ASSUME ListInv, Discover
    PROVE  ListInv'
<1>1. /\ pc \in {"ready", "printed"} /\ pc' = "listen" /\ rounds < MaxRounds
      /\ rounds' = rounds + 1 /\ nodeList' = << >>
      /\ asked' = asked (+) SetToBag({Coordinator})
      /\ clean' \in BOOLEAN /\ Forget
      /\ UNCHANGED <<mq, devState, stale, calls, stray>>
  BY DEF Discover, zdoMgmtLqiReq
<1>2. StartInv /\ StartTypes /\ ListTypes
  BY AnyOfInv DEF ListInv, StartInv
<1>3. /\ newNwk' = FALSE /\ devType' = "other" /\ result' = "none"
      /\ hadNetwork' = FALSE /\ wasReset' = FALSE /\ refused' = FALSE
      /\ mistaken' = FALSE
      /\ nv' \in [option : {KEEP, CLEAR}, type : Types]
      /\ soc'.state = 7 /\ soc'.todo = << >> /\ soc'.inited = TRUE
      /\ soc' \in [state : States, todo : Seq(States),
                   net : {"none", "old", "new"}, inited : BOOLEAN]
  BY <1>1 DEF Forget, States, DEV_ROUTER, Types
<1>4. StartTypes'
  BY <1>1, <1>2, <1>3 DEF StartTypes, Places
<1>5. SocUp' /\ Climbs(soc.todo)'
  BY <1>3 DEF SocUp, Climbs, DEV_END_DEVICE
<1>6. NothingFresh' /\ FreshIsTrue' /\ UpWasSeen'
  BY <1>1, <1>3, <1>5 DEF NothingFresh, FreshIsTrue, UpWasSeen
<1>7. InitedLate' /\ ResultLate' /\ NetworkSoFar'
  BY <1>1, <1>3 DEF InitedLate, ResultLate, NetworkSoFar, Early
<1>8. StartInv'
  BY <1>4, <1>5, <1>6, <1>7 DEF StartInv
<1>9. ListTypes'
  <2>1. BagToSet(asked') = BagToSet(asked) \cup {Coordinator}
    BY <1>1 DEF BagToSet, (+), SetToBag
  <2>2. rounds' \in 0 .. MaxRounds
    BY <1>1, <1>2, NetworkAssumption DEF ListTypes
  <2>3. << >> \in Seq(Node) /\ Coordinator \in Addrs
    BY NetworkAssumption
  <2>4. BagToSet(asked') \subseteq Addrs
    BY <1>2, <2>1, <2>3 DEF ListTypes
  <2>5. nodeList' \in Seq(Node) /\ calls' \in Seq(Call) /\ clean' \in BOOLEAN
    BY <1>1, <1>2, <2>3 DEF ListTypes
  <2>6. QED BY <2>2, <2>4, <2>5 DEF ListTypes
<1>10. calls = << >> /\ calls' = << >>
  BY <1>1 DEF ListInv, CallsOwn
<1>11. CallsOwn' /\ ChildsOwn'
  BY <1>1, <1>10 DEF CallsOwn, ChildsOwn
<1>12. CleanRound'
  BY <1>2, CleanDiscover DEF CleanRound, StartTypes
<1>13. Discovered'
  BY <1>1 DEF Discovered
<1>14. QED BY <1>8, <1>9, <1>11, <1>12, <1>13 DEF ListInv

\* A message taken while a round is under way.
LEMMA TakesStep ==
    ASSUME ListInv, NEW stack, SameCalls(stack), Message(stack),
           pc = "listen",
           UNCHANGED <<pc, startRest, asked, rounds, stray, clean>>
    PROVE  ListInv'
<1>1. ListAnyInv /\ StartInv /\ StartTypes /\ ListTypes
  BY AnyOfInv DEF ListInv, StartInv
<1>2. Takes(stack) /\ Heard
  BY <1>1, MessageTakes
<1>3. /\ pc' = "listen" /\ UNCHANGED <<asked, rounds, clean>>
      /\ UNCHANGED <<newNwk, devType, nv, soc, result, hadNetwork, wasReset,
                     refused, mistaken>>
  BY DEF startRest
<1>4. StartInv'
  <2>1. result = "none"
    BY <1>1 DEF StartInv, ResultLate
  <2>2. QED BY <1>1, <1>2, <1>3, <2>1, StartFacts, LocalStep DEF Places, Early
<1>5. ListTypes' /\ CallsOwn' /\ ChildsOwn'
  BY <1>1, <1>2, <1>3, TakesKeeps
<1>6. ASSUME clean' PROVE Once' /\ SoFar'
  <2>1. Once /\ SoFar
    BY <1>3, <1>6 DEF ListInv, CleanRound
  <2>2. mq \in Seq(Messages) /\ mq # << >> /\ mq' = Tail(mq)
    BY <1>1, <1>2 DEF StartTypes, Takes
  <2>3. CASE Head(mq).kind = "lqi"
    <3>1. Head(mq) = mq[1] /\ 1 \in 1 .. Len(mq)
      BY <2>2
    <3>2. Head(mq).ok
      BY <2>1, <2>3, <3>1 DEF Once
    <3>3. Enters(Head(mq).src)
      BY <1>2, <2>3, <3>2 DEF Takes
    <3>4. QED BY <1>1, <1>3, <2>1, <2>2, <2>3, <3>3, CleanEnters
  <2>4. CASE Head(mq).kind # "lqi"
    <3>1. calls' = stack /\ nodeList' = nodeList
      BY <1>2, <2>4 DEF Takes
    <3>2. QueueStays(1)
      BY <2>2, <2>4, TailStays
    <3>3. /\ Len(mq) \in Nat /\ Len(mq') \in Nat /\ Len(nodeList') \in Nat
      BY <2>2, <1>5 DEF ListTypes
    <3>4. Once' /\ Known' = Known
      BY <1>3, <2>1, <3>1, <3>2, <3>3, QueueStaysOnce
    <3>5. ListStays
      BY <1>1, <3>1, StillStays
    <3>6. QED BY <1>1, <2>1, <3>3, <3>4, <3>5, SoFarStays
  <2>5. QED BY <2>3, <2>4
<1>7. Discovered'
  BY <1>3 DEF Discovered
<1>8. QED BY <1>4, <1>5, <1>6, <1>7 DEF ListInv, CleanRound

\* An activation goes on, no message came.
LEMMA OnStep ==
    ASSUME ListInv, SameCalls(calls'), pc = "listen",
           UNCHANGED <<startVars, nodeList, asked, rounds, stray, clean>>
    PROVE  ListInv'
<1>1. ListAnyInv /\ StartInv /\ StartTypes /\ ListTypes
  BY AnyOfInv DEF ListInv, StartInv
<1>2. StartInv'
  BY <1>1
     DEF startVars, StartInv, StartTypes, Climbs, InitedLate, NothingFresh,
         FreshIsTrue, SocUp, UpWasSeen, ResultLate, NetworkSoFar, StartOption
<1>3. pc' = "listen" /\ mq' = mq
  BY DEF startVars
<1>4. ListTypes' /\ CallsOwn' /\ ChildsOwn'
  BY <1>1, <1>3, StillKeeps DEF ListTypes
<1>5. ASSUME clean' PROVE Once' /\ SoFar'
  <2>1. Once /\ SoFar
    BY <1>5 DEF ListInv, CleanRound
  <2>2. /\ Len(mq) \in Nat /\ Len(mq') \in Nat /\ Len(nodeList') \in Nat
        /\ mq \in Seq(Messages)
    BY <1>1, <1>3, <1>4 DEF ListTypes, StartTypes
  <2>3. QueueStays(0)
    BY <1>3, <2>2, SameQueueStays
  <2>4. Once' /\ Known' = Known
    BY <2>1, <2>2, <2>3, QueueStaysOnce
  <2>5. QED BY <1>1, <2>1, <2>2, <2>4, StillStays, SoFarStays
<1>6. QED BY <1>2, <1>3, <1>4, <1>5 DEF ListInv, CleanRound, Discovered

LEMMA ListenStep ==
    ASSUME ListInv, Listen
    PROVE  ListInv'
<1>1. ListTypes /\ calls = << >>
  BY DEF ListInv, Listen
<1>2. SameCalls(<< >>)
  BY <1>1, SelfSame
<1>3. QED BY <1>2, TakesStep DEF Listen

LEMMA InnerWaitStep ==
    ASSUME ListInv, InnerWait
    PROVE  ListInv'
<1>1. PICK on : /\ on = Append(Callers, [Caller EXCEPT !.waits = FALSE])
                /\ \/ Message(on)
                   \/ calls' = on /\ UNCHANGED <<nodeList, mq, devState, stale>>
  BY DEF InnerWait
<1>2. /\ calls # << >> /\ ListTypes /\ pc = "listen"
      /\ UNCHANGED <<pc, startRest, asked, rounds, stray, clean>>
  BY DEF InnerWait, ListInv, CallsOwn
<1>3. SameCalls(on)
  BY <1>1, <1>2, WokenSame
<1>4. CASE Message(on)
  BY <1>2, <1>3, <1>4, TakesStep
<1>5. CASE calls' = on /\ UNCHANGED <<nodeList, mq, devState, stale>>
  <2>1. UNCHANGED startVars
    BY <1>2, <1>5 DEF startVars, startRest
  <2>2. QED BY <1>2, <1>3, <1>5, <2>1, OnStep
<1>6. QED BY <1>1, <1>4, <1>5

LEMMA NeighbourStep ==
    ASSUME ListInv, Neighbour
    PROVE  ListInv'
<1>1. ListAnyInv /\ StartInv
  BY AnyOfInv
<1>2. PICK l, a, i : Looks(l, a, i)
  BY <1>1, LooksEffect
<1>3. UNCHANGED startVars /\ clean' = clean /\ pc = "listen" /\ pc' = "listen"
  BY <1>2 DEF Looks, Neighbour, ListInv, CallsOwn, startVars
<1>4. StartInv'
  BY <1>1, <1>3
     DEF startVars, StartInv, StartTypes, Climbs, InitedLate, NothingFresh,
         FreshIsTrue, SocUp, UpWasSeen, ResultLate, NetworkSoFar, StartOption
<1>5. ListTypes' /\ CallsOwn' /\ ChildsOwn'
  BY <1>1, <1>2, LooksKeeps
<1>6. CleanRound'
  BY <1>1, <1>2, <1>3, CleanLooks DEF ListInv, CleanRound
<1>7. QED BY <1>3, <1>4, <1>5, <1>6 DEF ListInv, Discovered

LEMMA ReturnStep ==
    ASSUME ListInv, Return
    PROVE  ListInv'
<1>1. ListAnyInv /\ StartInv /\ StartTypes /\ ListTypes
  BY AnyOfInv DEF ListInv, StartInv
<1>2. Returns
  BY <1>1, ReturnEffect
<1>3. /\ UNCHANGED startVars /\ UNCHANGED <<mq, nodeList, asked, clean>>
      /\ pc = "listen" /\ pc' = "listen"
  BY <1>2 DEF Returns, Return, ListInv, CallsOwn, startVars
<1>4. StartInv'
  BY <1>1, <1>3
     DEF startVars, StartInv, StartTypes, Climbs, InitedLate, NothingFresh,
         FreshIsTrue, SocUp, UpWasSeen, ResultLate, NetworkSoFar, StartOption
<1>5. ListTypes' /\ CallsOwn' /\ ChildsOwn'
  BY <1>1, <1>2, ReturnsKeeps
<1>6. ASSUME clean' PROVE Once' /\ SoFar'
  <2>1. Once /\ SoFar
    BY <1>3, <1>6 DEF ListInv, CleanRound
  <2>2. /\ Len(mq) \in Nat /\ Len(mq') \in Nat /\ Len(nodeList') \in Nat
        /\ mq \in Seq(Messages)
    BY <1>1, <1>3, <1>5 DEF ListTypes, StartTypes
  <2>3. QueueStays(0)
    BY <1>3, <2>2, SameQueueStays
  <2>4. Once' /\ Known' = Known
    BY <1>3, <2>1, <2>2, <2>3, QueueStaysOnce
  <2>5. QED BY <1>1, <1>2, <2>1, <2>2, <2>4, ReturnsStays, SoFarStays
<1>7. QED BY <1>3, <1>4, <1>5, <1>6 DEF ListInv, CleanRound, Discovered

LEMMA ListNodesStep ==
    ASSUME ListInv, ListNodes
    PROVE  ListInv'
<1>1. /\ pc = "listen" /\ calls = << >> /\ mq = << >> /\ pc' = "printed"
      /\ asked' \in Late /\ clean' = (clean /\ asked = EmptyBag)
      /\ UNCHANGED <<mq, devState, stale, startRest, nodeList, calls, rounds>>
  BY DEF ListNodes
<1>2. ListAnyInv /\ StartInv /\ StartTypes /\ ListTypes
  BY AnyOfInv DEF ListInv, StartInv
<1>3. UNCHANGED <<newNwk, devType, nv, soc, result, hadNetwork, wasReset,
                  refused, mistaken>>
  BY <1>1 DEF startRest
<1>4. StartInv'
  <2>1. result = "none" /\ Heard
    BY <1>1, <1>2, NothingHeard DEF StartInv, ResultLate
  <2>2. QED BY <1>1, <1>2, <1>3, <2>1, StartFacts, LocalStep DEF Places, Early
<1>5. ListTypes' /\ CallsOwn' /\ ChildsOwn'
  <2>1. BagToSet(asked') \subseteq BagToSet(asked)
    BY <1>1 DEF Late, BagToSet
  <2>2. SameCalls(calls')
    BY <1>1, <1>2, SelfSame
  <2>3. /\ BagToSet(asked') \subseteq Addrs /\ rounds' \in 0 .. MaxRounds
        /\ clean' \in BOOLEAN
    BY <1>1, <1>2, <2>1 DEF ListTypes
  <2>4. QED BY <1>1, <1>2, <2>2, <2>3, StillKeeps
<1>6. Discovered'
  <2>1. SUFFICES ASSUME clean' PROVE Discovered'
    BY DEF Discovered
  <2>2. Once /\ SoFar /\ asked = EmptyBag
    BY <1>1, <2>1 DEF ListInv, CleanRound
  <2>3. /\ {nodeList[k].NodeAddr : k \in DOMAIN nodeList} = Reached
        /\ Len(nodeList) = Cardinality(Reached)
        /\ \A k \in DOMAIN nodeList :
              AreChildren(nodeList[k].childs, nodeList[k].NodeAddr)
    BY <1>1, <1>2, <2>2, CleanPrint
  <2>4. nodeList' = nodeList
    BY <1>1
  <2>5. QED BY <2>3, <2>4 DEF Discovered
<1>7. QED BY <1>1, <1>4, <1>5, <1>6 DEF ListInv, CleanRound

LEMMA NextInv ==
    ASSUME ListInv, [Next]_vars
    PROVE  ListInv'
BY StartInvStep, NetworkStep, AnswerStep, DiscoverStep, ListenStep,
   ListNodesStep, NeighbourStep, InnerWaitStep, ReturnStep, StillStep
   DEF Next, Finished

LEMMA ListInvHolds == Spec => []ListInv
BY InitInv, NextInv, PTL DEF Spec

--------------------------------------------------------------------------------
(* The variables keep their types: the places of appProcess, the entries of  *)
(* the list, and that each activation's entry is in the list.                *)
THEOREM TypeCorrect == Spec => []TypeOK
<1>1. ListInv => TypeOK
  <2>1. SUFFICES ASSUME ListInv PROVE TypeOK
    OBVIOUS
  <2>2. StartTypes /\ ListTypes /\ CallsOwn
    BY <2>1 DEF ListInv, StartInv
  <2>3. /\ nodeList \in Seq(Node) /\ DOMAIN nodeList = 1 .. Len(nodeList)
        /\ calls \in Seq(Call) /\ DOMAIN calls = 1 .. Len(calls)
    BY <2>2 DEF ListTypes
  <2>4. ASSUME NEW k \in DOMAIN nodeList
        PROVE  /\ nodeList[k].NodeAddr \in Addrs
               /\ \A j \in DOMAIN nodeList[k].childs :
                     nodeList[k].childs[j] \in [addr : Addrs, type : Types]
    <3>1. nodeList[k] \in Node
      BY <2>3, <2>4, ElementOfSeq
    <3>2. PICK cs \in Seq([addr : Addrs, type : Types]) :
             cs = nodeList[k].childs
      BY <3>1 DEF Node
    <3>3. \A j \in DOMAIN cs : cs[j] \in [addr : Addrs, type : Types]
      <4>1. DOMAIN cs = 1 .. Len(cs)
        BY <3>2
      <4>2. QED BY <3>2, <4>1, ElementOfSeq
    <3>4. QED BY <3>1, <3>2, <3>3 DEF Node
  <2>5. \A k \in DOMAIN calls : calls[k].local \in DOMAIN nodeList
    BY <2>2, <2>3 DEF CallsOwn
  <2>6. /\ pc \in {"flush", "ask", "option", "reset", "settle", "devtype",
                   "panid", "chanlist", "register", "init", "wait", "keep",
                   "up", "error", "direct", "ready", "listen", "printed"}
        /\ devType \in Types \cup {"other"} /\ devState \in 0 .. 9
        /\ nv.option \in {KEEP, CLEAR} /\ nv.type \in Types
        /\ soc.net \in {"none", "old", "new"}
    BY <2>2 DEF StartTypes, Places, Early, States
  <2>7. QED BY <2>2, <2>4, <2>5, <2>6 DEF TypeOK, ListTypes
<1>2. QED BY <1>1, ListInvHolds, PTL

(* "Network up" is printed only when the processor has joined or formed a    *)
(* network, or is a coordinator that forms one, for every session before     *)
(* this one and every order of messages.                                     *)
THEOREM UpIsTrue == Spec => []UpIsUp
<1>1. ListInv => UpIsUp
  BY DEF ListInv, StartInv, UpWasSeen, SocUp, UpIsUp
<1>2. QED BY <1>1, ListInvHolds, PTL

(* The network that is up is the one that was asked for, if the processor    *)
(* was reset and did not refuse the startup option behind the back of        *)
(* sysOsalNvWrite: for every option, network and device type an earlier      *)
(* session left, whichever of the other writes fail or are refused.          *)
THEOREM RightNetwork == Spec => []NetworkIsTheOneAskedFor
<1>1. ListInv => NetworkIsTheOneAskedFor
  BY DEF ListInv, StartInv, UpWasSeen, NetworkSoFar, NetworkIsTheOneAskedFor
<1>2. QED BY <1>1, ListInvHolds, PTL

(* A round without losses lists every node within reach once, with its own   *)
(* children, in every network that is a tree and for every nesting of the    *)
(* responses.                                                                *)
THEOREM RoundsAreComplete == Spec => []Discovered
<1>1. ListInv => Discovered
  BY DEF ListInv
<1>2. QED BY <1>1, ListInvHolds, PTL
====
