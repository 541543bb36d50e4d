---------------------------- MODULE MCReplayViewer ----------------------------
(* One sub-game of at most two rounds on a small board.                    *)
EXTENDS ReplayViewer
MCStartCell == (Police :> <<0, 0>>) @@ (Thief :> <<1, 1>>)
=============================================================================
