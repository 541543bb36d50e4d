---------------------------- MODULE MCPublicRoute ----------------------------
(***************************************************************************)
(* The public route on a small instance: the endpoint our declaration      *)
(* names, another public one, one whose name is local, one that resolves   *)
(* partly to a private address, one that resolves to nothing and one that  *)
(* is not https; two agents and two Step-0 calls.                          *)
(***************************************************************************)
EXTENDS PublicRoute

Https(host) == [secure |-> TRUE, bare |-> TRUE, mcp |-> TRUE, host |-> host]

SixEndpoints ==
  {Https(h) : h \in {"ours", "other", "localhost", "split", "unknown"}}
    \cup {[Https("other") EXCEPT !.secure = FALSE]}

OurEndpoint == Https("ours")
TwoLocalNames == {"localhost", ""}
Addresses ==
  [h \in {"ours", "other", "localhost", "split", "unknown"} |->
     CASE h = "ours" -> {"g1"} [] h = "other" -> {"g1", "g2"}
       [] h = "localhost" -> {"p1"} [] h = "split" -> {"g1", "p1"} [] h = "unknown" -> {}]
GlobalAddresses == {"g1", "g2"}
=============================================================================
