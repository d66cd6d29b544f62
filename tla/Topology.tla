------------------------------- MODULE Topology --------------------------------
(***************************************************************************)
(* The topology example once the network was started: at each Enter it     *)
(* asks the coordinator for its neighbours, and the handler of a response  *)
(* asks every router among the children in turn.                           *)
(*                                                                         *)
(* Asking ends in a wait for one message, inside the handler.  That        *)
(* message may be a response too, so the handler is entered again before   *)
(* it is done: its activations form a stack.  When nothing has come for a  *)
(* second the list is printed, and what comes later falls into the next    *)
(* round.                                                                  *)
(***************************************************************************)
EXTENDS Startup, FiniteSets, Bags

CONSTANTS
    Addrs,       \* the short addresses in the network
    Coordinator, \* 0x0000
    Neighbours,  \* address -> its neighbour table, a sequence of entries
    PageSize,    \* entries a response has room for
    MaxRounds,   \* bound: times that Enter is pressed
    MaxStray,    \* bound: requests and responses that are lost or refused
    MaxLate      \* bound: requests answered after their round is over

Entry == [addr : Addrs, type : Types,
          relation : {"parent", "child", "sibling"}]
IsChild(e) == e.relation = "child"
IsAsked(e) == IsChild(e) /\ e.type = "router"  \* a router among the children

ASSUME NetworkAssumption ==
    /\ Coordinator \in Addrs
    /\ Neighbours \in [Addrs -> Seq(Entry)]
    /\ PageSize \in Nat \ {0} /\ MaxRounds \in Nat
    /\ MaxStray \in Nat /\ MaxLate \in Nat

(* A Zigbee network is a tree: a router is the child of one node, and the    *)
(* coordinator of none.  (The handler asks whatever router is named to it,   *)
(* and would list one twice that two nodes named.)                           *)
ASSUME TreeAssumption ==
    \A a, b \in Addrs : \A i \in DOMAIN Neighbours[a], j \in DOMAIN Neighbours[b] :
       LET e == Neighbours[a][i]
           f == Neighbours[b][j]
       IN IsAsked(e) => /\ e.addr # Coordinator
                        /\ IsAsked(f) /\ f.addr = e.addr => a = b /\ i = j

VARIABLES
    nodeList,  \* the nodeCount entries in use
    calls,     \* the activations of mtZdoMgmtLqiRspCb, the innermost last
    asked,     \* the requests in the network
    rounds,    \* rounds begun
    stray,     \* requests and responses lost or refused
    clean      \* history: this round lost nothing and met nothing older

topoVars == <<nodeList, calls, asked, rounds, stray, clean>>
vars == <<startVars, topoVars>>
startRest == <<newNwk, devType, nv, soc, result, hadNetwork, wasReset,
               refused, mistaken>>

Init == StartInit /\ nodeList = << >> /\ calls = << >> /\ asked = EmptyBag
        /\ rounds = 0 /\ stray = 0 /\ clean = TRUE

Page(a) == SubSeq(Neighbours[a], 1,
               IF Len(Neighbours[a]) < PageSize THEN Len(Neighbours[a])
               ELSE PageSize)

--------------------------------------------------------------------------------
(* The network: the node asked for its table from StartIndex 0 answers with  *)
(* the first page, or refuses, or the request or the response is lost.       *)
Answer ==
    \E a \in BagToSet(asked) :
       /\ asked' = asked (-) SetToBag({a})
       /\ \/ /\ mq' = Append(mq, [kind |-> "lqi", src |-> a, ok |-> TRUE])
             /\ UNCHANGED <<stray, clean>>
          \/ /\ stray < MaxStray /\ stray' = stray + 1 /\ clean' = FALSE
             /\ \/ mq' = Append(mq, [kind |-> "lqi", src |-> a, ok |-> FALSE])
                \/ UNCHANGED mq
       /\ UNCHANGED <<pc, devState, stale, startRest, nodeList, calls, rounds>>

zdoMgmtLqiReq(a) == asked' = asked (+) SetToBag({a})

--------------------------------------------------------------------------------
Activation(m) == [local |-> Len(nodeList) + 1, src |-> m.src, i |-> 1,
                  waits |-> FALSE]

(* The handler, entered over the activations in "stack".  A response without *)
(* success is only printed.                                                  *)
mtZdoMgmtLqiRspCb(m, stack) ==
    IF m.kind = "lqi" /\ m.ok
    THEN /\ nodeList' = Append(nodeList,
                [NodeAddr |-> m.src,
                 Type |-> IF m.src = Coordinator THEN "coordinator"
                          ELSE "router",
                 childs |-> << >>])
         /\ calls' = Append(stack, Activation(m))
    ELSE calls' = stack /\ UNCHANGED nodeList

Message(stack) ==
    mq # << >> /\ Process /\ mtZdoMgmtLqiRspCb(Head(mq), stack)

Caller == calls[Len(calls)]
Callers == SubSeq(calls, 1, Len(calls) - 1)

\* Mutant: the entry last added is taken for one's own.
LatestEntry(call) == Len(nodeList)
OwnEntry(call) == call.local

\* An entry of the table: a child is noted, a router among them asked.
Neighbour ==
    /\ calls # << >> /\ ~Caller.waits /\ Caller.i <= Len(Page(Caller.src))
    /\ LET e == Page(Caller.src)[Caller.i]
       IN /\ nodeList' = IF ~IsChild(e) THEN nodeList
                         ELSE [nodeList EXCEPT ![OwnEntry(Caller)].childs =
                                  Append(@, [addr |-> e.addr, type |-> e.type])]
          /\ IF IsAsked(e) THEN zdoMgmtLqiReq(e.addr) ELSE UNCHANGED asked
          /\ calls' = Append(Callers, [Caller EXCEPT !.i = @ + 1,
                                                     !.waits = IsAsked(e)])
    /\ UNCHANGED <<startVars, rounds, stray, clean>>

\* Mutant: the wait is repeated until there is a message.
InnerWaitEndless ==
    /\ calls # << >> /\ Caller.waits
    /\ LET on == Append(Callers, [Caller EXCEPT !.waits = FALSE])
       IN Message(on) \/ UNCHANGED <<nodeList, calls, mq, devState, stale>>
    /\ UNCHANGED <<pc, startRest, asked, rounds, stray, clean>>

\* The wait that ends zdoMgmtLqiReq: one message, or none.
InnerWait ==
    /\ calls # << >> /\ Caller.waits
    /\ LET on == Append(Callers, [Caller EXCEPT !.waits = FALSE])
       IN \/ Message(on)
          \/ calls' = on /\ UNCHANGED <<nodeList, mq, devState, stale>>
    /\ UNCHANGED <<pc, startRest, asked, rounds, stray, clean>>

Return ==
    /\ calls # << >> /\ ~Caller.waits /\ Caller.i > Len(Page(Caller.src))
    /\ calls' = Callers
    /\ UNCHANGED <<startVars, nodeList, asked, rounds, stray, clean>>

--------------------------------------------------------------------------------
(* appProcess.                                                               *)

\* What startNetwork knew and how it came out is forgotten, and the processor
\* has settled, or every round would be examined once for each.
Forget ==
    /\ newNwk' = FALSE /\ devType' = "other" /\ result' = "none"
    /\ hadNetwork' = FALSE /\ wasReset' = FALSE /\ refused' = FALSE
    /\ mistaken' = FALSE
    /\ nv' = [option |-> KEEP, type |-> "router"]
    /\ soc' = [state |-> DEV_ROUTER, todo |-> << >>, net |-> "old",
               inited |-> TRUE]

\* Enter.  The wait that ends the request is not told from those of Listen.
Discover ==
    /\ pc \in {"ready", "printed"} /\ rounds < MaxRounds
    /\ nodeList' = << >>                               \* nodeCount = 0
    /\ zdoMgmtLqiReq(Coordinator)
    /\ pc' = "listen" /\ rounds' = rounds + 1
    /\ clean' = (asked = EmptyBag /\ \A k \in DOMAIN mq : mq[k].kind # "lqi")
    /\ Forget
    /\ UNCHANGED <<mq, devState, stale, calls, stray>>

Listen == /\ pc = "listen" /\ calls = << >> /\ Message(<< >>)
          /\ UNCHANGED <<pc, startRest, asked, rounds, stray, clean>>

\* The bags of requests in "asked" that can be late together.
Late == {late \in UNION {[S -> 1 .. MaxLate] : S \in SUBSET BagToSet(asked)} :
            late \sqsubseteq asked /\ BagCardinality(late) <= MaxLate}

\* No message for a second: the list is printed.  What has not been answered
\* is late, or lost.
ListNodes ==
    /\ pc = "listen" /\ calls = << >> /\ mq = << >>
    /\ pc' = "printed"
    /\ asked' \in Late
    /\ clean' = (clean /\ asked = EmptyBag)
    /\ UNCHANGED <<mq, devState, stale, startRest, nodeList, calls, rounds,
                   stray>>

Start == StartStep /\ UNCHANGED topoVars
Network == Progress /\ UNCHANGED topoVars
Finished == pc = "printed" /\ rounds = MaxRounds /\ UNCHANGED vars

Next == \/ Start \/ Network \/ Answer
        \/ Discover \/ Listen \/ ListNodes
        \/ Neighbour \/ InnerWait \/ Return
        \/ Finished

(* The application runs on, a message is taken before a wait is given up for *)
(* good, and the processor takes the steps it announced.                     *)
Fairness == /\ WF_vars(Start) /\ WF_vars(Network) /\ WF_vars(Discover)
            /\ WF_vars(Listen) /\ WF_vars(ListNodes)
            /\ WF_vars(Neighbour) /\ WF_vars(InnerWait) /\ WF_vars(Return)

Spec == Init /\ [][Next]_vars /\ Fairness

--------------------------------------------------------------------------------
TypeOK ==
    /\ pc \in {"flush", "ask", "option", "reset", "settle", "devtype", "panid",
               "chanlist", "register", "init", "wait", "keep", "up", "error",
               "direct", "ready", "listen", "printed"}
    /\ devType \in Types \cup {"other"} /\ devState \in 0 .. 9
    /\ nv.option \in {KEEP, CLEAR} /\ nv.type \in Types
    /\ soc.net \in {"none", "old", "new"}
    /\ \A k \in DOMAIN nodeList :
          /\ nodeList[k].NodeAddr \in Addrs
          /\ \A j \in DOMAIN nodeList[k].childs :
                nodeList[k].childs[j] \in [addr : Addrs, type : Types]
    /\ \A k \in DOMAIN calls : calls[k].local \in DOMAIN nodeList
    /\ BagToSet(asked) \subseteq Addrs /\ rounds \in 0 .. MaxRounds

\* The nodes a round can find: the coordinator, and each router that is a
\* child in the first page of one that is found.
Closed(S) == /\ Coordinator \in S
             /\ \A a \in S : \A k \in DOMAIN Page(a) :
                   IsAsked(Page(a)[k]) => Page(a)[k].addr \in S
Reached == CHOOSE S \in SUBSET Addrs :
              Closed(S) /\ \A T \in SUBSET Addrs : Closed(T) => S \subseteq T

\* The children among the first n entries, and whether the list of them is that
\* of a whole page, in its order.
Rank(a, n) == Cardinality({k \in 1 .. n : IsChild(Page(a)[k])})
AreChildren(childs, a) ==
    /\ Len(childs) = Rank(a, Len(Page(a)))
    /\ \A k \in DOMAIN Page(a) :
          IsChild(Page(a)[k]) =>
             childs[Rank(a, k)] = [addr |-> Page(a)[k].addr,
                                   type |-> Page(a)[k].type]

(* However the responses are nested in each other, a round that lost nothing *)
(* and met no response of an earlier one lists each node within reach once,  *)
(* with the children of its own table and no other's.  (mtZdoMgmtLqiRspCb    *)
(* keeps its index over the waits in it.)                                    *)
Discovered ==
    pc = "printed" /\ clean =>
        /\ {nodeList[k].NodeAddr : k \in DOMAIN nodeList} = Reached
        /\ Len(nodeList) = Cardinality(Reached)
        /\ \A k \in DOMAIN nodeList :
              AreChildren(nodeList[k].childs, nodeList[k].NodeAddr)

(* Every round ends, however deep its responses nest and whatever is lost:   *)
(* the list is printed (the loop of appProcess, and the handler's waits).    *)
RoundEnds == (pc = "listen") ~> (pc = "printed")
================================================================================
