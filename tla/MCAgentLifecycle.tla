-------------------------- MODULE MCAgentLifecycle --------------------------
(***************************************************************************)
(* The agents' lifecycle on a small instance: two agents, a budget of two  *)
(* pauses, one call in the series.                                         *)
(***************************************************************************)
EXTENDS AgentLifecycle

CONSTANTS alice, bob

TwoPeers == {alice, bob}
=============================================================================
