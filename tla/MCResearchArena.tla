-------------------------- MODULE MCResearchArena --------------------------
(* A fixed opening is not used: every pair of distinct cells is one. On    *)
(* three rows of four cells the first and the last column are out of each  *)
(* other's scent, two walls cut off a corner, and the quota of two is      *)
(* spent while the game is open.                                           *)
EXTENDS ResearchArena

MCStartCell == [p \in Peer |-> IF p = Police THEN <<0, 0>> ELSE <<Rows \div 2, Cols \div 2>>]
=============================================================================
