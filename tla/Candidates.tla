----------------------------- MODULE Candidates -----------------------------
(***************************************************************************)
(* The candidate policies of `research/candidates/` and the benchmark      *)
(* opponents of `research/opponents.py`, each a function of one view.      *)
(***************************************************************************)
EXTENDS Policies

Shipped == "shipped"
CandidateNames == {"C1", "C2", "C3", "C4", "V1", "V2", "V3", "P5", "P6", "P7"}
Families == {"random_legal", "center_mobility", "evasive", "pursuit", "barrier_aware",
             "scent_aware", "adversarial_corner"}
PlacingFamilies == {"pursuit", "barrier_aware", "adversarial_corner"}

-----------------------------------------------------------------------------
(* C1: belief-weighted distance first, then as the shipped mover.          *)

PursuitCost(view, landing) ==
  MapThenSumSet(LAMBDA c : Scent(view, c) * Distance(landing, c), Mass(view))

PursuitMove(view) ==
  Least([m \in LegalMoves(view.walls, view.own) |->
           <<PursuitCost(view, Destination(view.own, m)), Spread(view, m), MoveOrder(m)>>])

C1(view) == PlaceOrMove(view, MaxScent, Worths(view), PursuitMove(view))

(* `DenialStrategy`: a floor, and the mover behind it (C2, C3, C4, V1, V2). *)
Denial(view, hundredths, mover) ==
  PlaceOrMove(view, hundredths * Scale, Worths(view), mover)

(* The most believed cell; ties fall to the lowest row, then column.       *)
Strongest(view) == Least([c \in Mass(view) |-> <<-Scent(view, c), c[1], c[2]>>])

(* V3: and the region the wall takes away from the most believed cell.     *)
Denied(view, target) ==
  LET c == Strongest(view)
      Room(walls) == Cardinality(Region(walls, c))
      lost == Room(view.walls) - Room(view.walls \cup {target})
  IN IF c = target \/ lost < 0 THEN 0 ELSE Scent(view, c) * lost

MobilityDenial(view) ==
  PlaceOrMove(view, MaxScent, [t \in Targets(view) |-> Worth(view, t) + Denied(view, t)],
              BaselineMove(view))

-----------------------------------------------------------------------------
(* P5: contain an evader that has room and is not next to us, else pursue. *)

ThreatIsImmediate(view) == \E c \in Mass(view) : Distance(view.own, c) = 1

(* `evader_room`: at least 45 hundredths of what we can walk ourselves.    *)
EvaderIsRoomy(view) ==
  LET ours == Cardinality(Region(view.walls, view.own))
      theirs == Cardinality(Region(view.walls, Strongest(view)))
  IN 100 * theirs >= 45 * (IF ours = 0 THEN 1 ELSE ours)

Arbiter(view) ==
  IF /\ Mass(view) # {}
     /\ ~ThreatIsImmediate(view)
     /\ EvaderIsRoomy(view)
  THEN MobilityDenial(view) ELSE Competitive(view)

(* P6: the move whose worst case, after the evader's best reply, is best.  *)
(* Staying is offered unchecked, to us and to the evader.                  *)
BestReply(walls, evader, pursuer) ==
  Max({Distance(pursuer, evader)}
      \cup {Distance(pursuer, Destination(evader, m)) : m \in LegalMoves(walls, evader)})

LookaheadMove(view) ==
  LET target == Strongest(view)
      Rank(m) == LET landing == Destination(view.own, m)
                 IN <<BestReply(view.walls, target, landing), Distance(landing, target),
                      TokenOrder(m)>>
  IN Least([m \in LegalMoves(view.walls, view.own) \cup {<<0, 0>>} |-> Rank(m)])

Lookahead(view) ==
  LET shipped == Competitive(view)
  IN IF Mass(view) = {} \/ shipped.kind # "move" THEN shipped ELSE Move(LookaheadMove(view))

(* P7: look ahead only while the evader has legal moves enough.            *)
EvaderMobility(view) ==
  IF Mass(view) = {} THEN 0 ELSE Cardinality(LegalMoves(view.walls, Strongest(view)))

Roomy(view) ==
  LET shipped == Competitive(view)
  IN IF shipped.kind # "move" \/ EvaderMobility(view) < Mobile THEN shipped
     ELSE Lookahead(view)

-----------------------------------------------------------------------------
(* The opponents. `random_legal` draws from a hash of seed and cell.       *)

Mobility(view, m) == Cardinality(LegalMoves(view.walls, Destination(view.own, m)))

FamilyRank(family, view, m) ==
  LET scent == Scent(view, Destination(view.own, m))
  IN CASE family = "center_mobility" -> <<-Mobility(view, m), TokenOrder(m)>>
       [] family = "evasive" -> <<-Spread(view, m), scent, MoveOrder(m)>>
       [] family = "pursuit" -> <<-scent, -Spread(view, m), MoveOrder(m)>>
       [] family = "barrier_aware" -> <<-Mobility(view, m), -Spread(view, m), MoveOrder(m)>>
       [] family = "scent_aware" -> <<scent, TokenOrder(m)>>
       [] family = "adversarial_corner" -> <<Spread(view, m), TokenOrder(m)>>

FamilyMoves(family, view) ==
  LET legal == LegalMoves(view.walls, view.own)
  IN IF family = "random_legal" THEN legal
     ELSE {Least([m \in legal |-> FamilyRank(family, view, m)])}

(* `_placement`: the police side of a family that opted in, on a neighbour *)
(* whose evidence beats the cell it would move to.                         *)
Backed(role, family, view, m) ==
  IF role # Police \/ family \notin PlacingFamilies THEN {}
  ELSE {c \in Targets(view) : Scent(view, c) > Scent(view, Destination(view.own, m))}

Opponent(role, family, view) ==
  {LET backed == Backed(role, family, view, m)
   IN IF backed = {} THEN Move(m)
      ELSE Wall(Least([c \in backed |-> <<-Scent(view, c), c[1], c[2]>>])) :
     m \in FamilyMoves(family, view)}

(* `BUILDERS`: what each name stands for. Every answer is one action, but  *)
(* for the draw of `random_legal`.                                         *)
Answers(role, policy, view) ==
  CASE policy = Shipped -> {Competitive(view)}
    [] policy = "C1" -> {C1(view)}
    [] policy = "C2" -> {Denial(view, 90, PursuitMove(view))}
    [] policy = "C3" -> {Denial(view, 30, PursuitMove(view))}
    [] policy = "C4" -> {Denial(view, 90, BaselineMove(view))}
    [] policy = "V1" -> {Denial(view, 81, BaselineMove(view))}
    [] policy = "V2" -> {Denial(view, 62, BaselineMove(view))}
    [] policy = "V3" -> {MobilityDenial(view)}
    [] policy = "P5" -> {Arbiter(view)}
    [] policy = "P6" -> {Lookahead(view)}
    [] policy = "P7" -> {Roomy(view)}
    [] policy \in Families -> Opponent(role, policy, view)
=============================================================================
