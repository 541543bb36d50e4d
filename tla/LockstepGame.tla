---------------------------- MODULE LockstepGame ----------------------------
(***************************************************************************)
(* What one sub-game promises: both roles act at once, each from the board *)
(* the round began with, the capture question is answered from the cell    *)
(* the answering side began the round on, and the round's effects are      *)
(* applied together afterwards. There is one board, one round counter and  *)
(* no message. `TurnExchange` shows that two peers that only exchange      *)
(* commitments, acknowledgements and reveals implement this game.          *)
(***************************************************************************)
EXTENDS BoardRules

VARIABLES
  cell,       \* where each role stands
  blocked,    \* the public barrier set
  step,       \* rounds completed
  captured    \* whether a capture question was answered yes

vars == <<cell, blocked, step, captured>>

Init ==
  /\ cell = StartCell
  /\ blocked = {}
  /\ step = 0
  /\ captured = FALSE

(* The effects of a round in which p's action is act[p], all at once.      *)
Apply(act) ==
  /\ cell' = [p \in Peer |-> CellAfter(cell[p], act[p])]
  /\ blocked' = blocked \cup Placed(act[Police]) \cup Placed(act[Thief])
  /\ captured' = \E p \in Peer : Caught(blocked, act[Other(p)], cell[p])

Round ==
  /\ Terminal(captured, step) = "NONE"
  /\ step' = step + 1
  /\ \E a \in Lawful(Police, blocked, cell[Police]), b \in Lawful(Thief, blocked, cell[Thief]) :
       Apply([p \in Peer |-> IF p = Police THEN a ELSE b])

Next == Round

Spec == Init /\ [][Next]_vars
=============================================================================
