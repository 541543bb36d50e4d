---------------------------- MODULE MCKitSubGame ----------------------------
(***************************************************************************)
(* A small instance of `KitSubGame`: one corridor, on which a barrier can  *)
(* land on the thief, shut its last way out, or wall the police in.        *)
(***************************************************************************)
EXTENDS KitSubGame, TLC

MCStartCell == (Police :> <<0, 3>>) @@ (Thief :> <<0, 1>>)
=============================================================================
