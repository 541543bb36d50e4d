--------------------------- MODULE MCTurnExchange ---------------------------
(***************************************************************************)
(* A small instance of `TurnExchange`: one corridor, played from its two   *)
(* ends, on which a barrier can land on the thief, shut its last way out,  *)
(* or wall the police in.                                                  *)
(***************************************************************************)
EXTENDS TurnExchange, TLC

MCStartCell == (Police :> <<0, 3>>) @@ (Thief :> <<0, 0>>)
=============================================================================
