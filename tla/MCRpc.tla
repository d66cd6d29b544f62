--------------------------------- MODULE MCRpc ---------------------------------
(* Rpc with two application threads and messages as records. *)
EXTENDS Rpc
MCMessage == [type : {"SRSP"}, sub : Subs, id : 1 .. MaxRequests]
        \cup [type : {"AREQ"}, id : 1 .. MaxAreqs]
MCUrgent == {m \in MCMessage : m.type = "SRSP"}
================================================================================
