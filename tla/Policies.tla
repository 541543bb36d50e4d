------------------------------ MODULE Policies ------------------------------
(***************************************************************************)
(* What a strategy answers to one observation: the shipped police policy   *)
(* and its mover (`app/`), the candidates that were measured against it    *)
(* and the opponents they were measured on (`research/`).                  *)
(*                                                                         *)
(* A policy is a pure function of the view it is handed. Its ranking is a  *)
(* tuple, and the least one wins; a tie is decided by the published order  *)
(* of the moves, by the order of their tokens, or by row and column.       *)
(***************************************************************************)
EXTENDS ScentPhysics, FiniteSetsExt, Functions

CONSTANTS TrapBonus, Mobile

ASSUME PolicyAssumption == TrapBonus \in Nat /\ Mobile \in Nat

LexLess(a, b) ==
  \E i \in DOMAIN a : a[i] < b[i] /\ \A j \in 1 .. i - 1 : a[j] = b[j]
Least(rank) ==
  LET ranked == {<<rank[x], x>> : x \in DOMAIN rank}
  IN (CHOOSE a \in ranked : \A b \in ranked \ {a} : LexLess(a[1], b[1]))[2]

MoveOrder(m) ==
  CASE m = <<-1, 0>> -> 1 [] m = <<1, 0>> -> 2 [] m = <<0, 1>> -> 3
    [] m = <<0, -1>> -> 4 [] m = <<0, 0>> -> 5
TokenOrder(m) ==
  CASE m = <<0, 1>> -> 1 [] m = <<-1, 0>> -> 2 [] m = <<1, 0>> -> 3
    [] m = <<0, 0>> -> 4 [] m = <<0, -1>> -> 5

Move(m) == [kind |-> "move", arg |-> m]
Wall(c) == [kind |-> "barrier", arg |-> c]

-----------------------------------------------------------------------------
(* Geometry a policy asks about.                                           *)

LegalMoves(walls, c) == {m \in MoveSet : LegalMove(walls, c, m)}

(* `reachable_from`: layer by layer, each cell with its walking distance;  *)
(* what cannot be reached is absent.                                       *)
Reachable(walls, c) ==
  LET layer[n \in 0 .. Cardinality(Cells)] ==
        IF n = 0 THEN {<<x, 0>> : x \in {c} \cap (Cells \ walls)}
        ELSE LET found == layer[n - 1]
                 frontier == {d[1] : d \in {e \in found : e[2] = n - 1}}
                 next == UNION {Neighbours(x) : x \in frontier} \cap (Cells \ walls)
             IN found \cup {<<x, n>> : x \in next \ {d[1] : d \in found}}
  IN layer[Cardinality(Cells)]

(* The cells of it. *)
Region(walls, c) == {d[1] : d \in Reachable(walls, c)}

(* What a mover minimises: the total walk to all it can reach.             *)
Spread(view, m) ==
  MapThenSumSet(LAMBDA d : d[2], Reachable(view.walls, Destination(view.own, m)))

(* `newly_trapped`: the cells this placement corners and nothing else did. *)
NewlyTrapped(walls, own, target) ==
  IF ~Placeable(walls, own, target) THEN {}
  ELSE {c \in Cells \ {target} :
          /\ Traversable(walls \cup {target}, c)
          /\ Trapped(walls \cup {target}, c)
          /\ ~Trapped(walls, c)}

Scent(view, c) == IF view.scent.evidence = 0 THEN 0 ELSE view.scent.field[c]
Distance(a, b) ==
  LET Gap(x, y) == IF x > y THEN x - y ELSE y - x
  IN Gap(a[1], b[1]) + Gap(a[2], b[2])

-----------------------------------------------------------------------------
(* The shipped policy (`competitive_strategy.py`, `baseline_strategy.py`). *)

(* Mutant: any neighbour on the board, walled or not.                      *)
TargetsUnchecked(view) == Neighbours(view.own) \cap Cells

(* `_targets`: a wall is never put on the own cell, lawful as that is.     *)
Targets(view) == {c \in Neighbours(view.own) : Placeable(view.walls, view.own, c)}

(* `_value`: expected worth of a wall against the belief alone.            *)
Worth(view, target) ==
  LET cornered == NewlyTrapped(view.walls, view.own, target)
      Share(c) == Scent(view, c) *
                    ((IF c = target THEN 1 ELSE 0)
                     + (IF c \in cornered THEN TrapBonus
                        ELSE IF c \in Neighbours(target) THEN 1 ELSE 0))
  IN MapThenSumSet(Share, Mass(view))

(* `_best_target`: the most valuable of those that clear the floor.        *)
Admitted(value, floor) == {t \in DOMAIN value : value[t] >= floor}
BestTarget(admitted, value) == Least([t \in admitted |-> <<-value[t], t[1], t[2]>>])

(* `BaselineStrategy._rank`: accessibility, then evidence, then the order. *)
BaselineMove(view) ==
  Least([m \in LegalMoves(view.walls, view.own) |->
           <<Spread(view, m), -Scent(view, Destination(view.own, m)), MoveOrder(m)>>])

(* `choose_action`: place when a target clears the floor, otherwise move.  *)
PlaceOrMove(view, floor, value, mover) ==
  LET admitted == IF Mass(view) = {} THEN {} ELSE Admitted(value, floor)
  IN IF admitted # {} THEN Wall(BestTarget(admitted, value)) ELSE Move(mover)

Worths(view) == [t \in Targets(view) |-> Worth(view, t)]
Competitive(view) == PlaceOrMove(view, MaxScent, Worths(view), BaselineMove(view))
=============================================================================
