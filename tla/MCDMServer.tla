----------------------------- MODULE MCDMServer -----------------------------
(***************************************************************************)
(* A server small enough for TLC.  Its clients send one of two sets of     *)
(* requests: enough jobs to make two consumers, sleep, wake, fill a queue  *)
(* of two and help; or every operation on one entry.                       *)
(***************************************************************************)
EXTENDS DMServer

MCWords == {"w1", "w2"}

Request(n, o, w) == [id |-> n, op |-> o, word |-> w, val |-> 1]

QueueRequests ==
  {Request(1, "putNget", "w1"), Request(2, "putNget", "w1"),
   Request(3, "putNget", "w1"), Request(4, "putNget", "w2")}

TableRequests ==
  {Request(1, "putNget", "w1"), Request(5, "put", "w1"), Request(6, "set", "w1"),
   Request(7, "get", "w1"), Request(8, "remove", "w1")}

MCRequests == QueueRequests \cup TableRequests

OneTraffic ==
  \E traffic \in {QueueRequests, TableRequests} : MCRequests \ sent \subseteq traffic
=============================================================================
