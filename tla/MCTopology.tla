------------------------------ MODULE MCTopology -------------------------------
(* A coordinator with two routers, one with an end device below it, a third  *)
(* router that no response has room for, and an end device.                  *)
EXTENDS Topology

CONSTANTS a1, a2, a3, e1, e2

MCAddrs == {Coordinator, a1, a2, a3, e1, e2}
N(a, t, r) == [addr |-> a, type |-> t, relation |-> r]
MCNeighbours ==
    [a \in MCAddrs |->
        CASE a = Coordinator -> << N(a1, "router", "child"),
                                   N(e1, "enddevice", "child"),
                                   N(a2, "router", "child"),
                                   N(a3, "router", "child") >>
          [] a = a1 -> << N(a2, "router", "sibling"),
                          N(e2, "enddevice", "child") >>
          [] a = a2 -> << N(Coordinator, "coordinator", "parent") >>
          [] OTHER -> << >>]
================================================================================
