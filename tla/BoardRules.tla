----------------------------- MODULE BoardRules -----------------------------
(***************************************************************************)
(* The game physics of `domain/`: the grid, the five moves, barrier        *)
(* placement, the capture question a barrier asks, and the end events.     *)
(* Every operator is a pure function of a board and a cell; no module of   *)
(* the project decides legality anywhere else, as in the code.             *)
(*                                                                         *)
(* A board is represented by its set of blocked cells (the extent is the   *)
(* constants Rows and Cols, the index origin is 0), a position by a pair.  *)
(***************************************************************************)
EXTENDS Integers, FiniteSets

CONSTANTS
  Rows, Cols,            \* board extent (`Board.rows`, `Board.cols`)
  MaxBarriers,           \* `BarrierQuota.max_barriers`
  MaxMoves,              \* `TurnLimits.max_moves`
  SurvivalThreshold,     \* `TurnLimits.survival_threshold`
  Police, Thief,         \* the two config-locked roles (`ActorRole`)
  StartCell              \* [Peer -> Cells], the locked opening positions

Peer == {Police, Thief}
Other(p) == IF p = Police THEN Thief ELSE Police

Cells == (0 .. Rows - 1) \X (0 .. Cols - 1)
Offsets == {<<-1, 0>>, <<1, 0>>, <<0, 1>>, <<0, -1>>}
MoveSet == Offsets \cup {<<0, 0>>}

(* `TurnLimits` refuses a survival threshold the ceiling cannot reach; the *)
(* locked minimums (7x7 board, 35 steps, 14 barriers) are not assumed, so  *)
(* the theorems hold for the small instances too.                          *)
ASSUME BoardAssumption ==
  /\ Rows \in Nat \ {0} /\ Cols \in Nat \ {0}
  /\ MaxBarriers \in Nat /\ MaxMoves \in Nat
  /\ SurvivalThreshold \in 1 .. MaxMoves
  /\ Police # Thief
  /\ StartCell \in [Peer -> Cells]

-----------------------------------------------------------------------------
(* Movement and placement.                                                 *)

Destination(c, m) == <<c[1] + m[1], c[2] + m[2]>>
Neighbours(c) == {Destination(c, o) : o \in Offsets}
Traversable(blocked, c) == c \in Cells /\ c \notin blocked
LegalMove(blocked, c, m) == Traversable(blocked, Destination(c, m))

Placeable(blocked, c, target) ==
  /\ target \in Neighbours(c) \cup {c}
  /\ Traversable(blocked, target)
  /\ Cardinality(blocked) < MaxBarriers

(* `PhysicalAction`: a move names a direction, never a cell, so a receiver *)
(* learns nothing of where the mover stands; a barrier names its target.   *)
Action == [kind : {"move"}, arg : MoveSet] \cup [kind : {"barrier"}, arg : Cells]

(* What role p may do from cell c: a legal move, or - for the police alone *)
(* (BAR-004) - a placement instead of it.                                  *)
Lawful(p, blocked, c) ==
  {a \in Action : \/ a.kind = "move" /\ LegalMove(blocked, c, a.arg)
                  \/ a.kind = "barrier" /\ p = Police /\ Placeable(blocked, c, a.arg)}

CellAfter(c, a) == IF a.kind = "move" THEN Destination(c, a.arg) ELSE c
Placed(a) == IF a.kind = "barrier" THEN {a.arg} ELSE {}

-----------------------------------------------------------------------------
(* Capture and end events.                                                 *)

Trapped(blocked, c) == \A n \in Neighbours(c) : ~Traversable(blocked, n)

(* The receiver's structural check of a public barrier. Adjacency is not   *)
(* checked: the placer's cell is sealed until the audit.                   *)
Acceptable(blocked, a) == a.kind = "barrier" => Traversable(blocked, a.arg)

(* The capture question a barrier asks by existing, answered by the side   *)
(* standing at `here`: it landed there, or it closed the last way out.     *)
Caught(blocked, a, here) ==
  /\ a.kind = "barrier"
  /\ Acceptable(blocked, a)
  /\ a.arg = here \/ Trapped(blocked \cup {a.arg}, here)

Outcomes == {"CAPTURE", "SURVIVAL", "NONE"}

(* Capture takes precedence over the survival threshold.                   *)
Terminal(captured, step) ==
  IF captured THEN "CAPTURE" ELSE IF step >= SurvivalThreshold THEN "SURVIVAL" ELSE "NONE"

=============================================================================
