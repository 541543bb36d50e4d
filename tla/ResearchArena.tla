--------------------------- MODULE ResearchArena ---------------------------
(***************************************************************************)
(* One benchmark game (`research/game.py`): two policies, the production   *)
(* rules between them, and the scent each of them lawfully hears. A game   *)
(* starts from any two distinct cells (`research/scenario.py`) and is      *)
(* played to its end event.                                                *)
(***************************************************************************)
EXTENDS Candidates

CONSTANTS PolicePolicies, ThiefPolicies     \* who meets whom in the run

ASSUME ArenaAssumption ==
  /\ PolicePolicies \subseteq {Shipped} \cup CandidateNames \cup Families
  /\ ThiefPolicies \subseteq Families

VARIABLES
  contest,   \* [Peer -> policy]
  walls,     \* `Replay.board.blocked`
  cell,      \* `Replay.cells`
  heard,     \* `ScentTrail.heard`, folded: what each side believes
  captured,  \* `SubGame.captured`
  steps,     \* `SubGame.steps`
  refused,   \* `IllegalResearchActionError` was raised
  log        \* the turns played, for the properties

vars == <<contest, walls, cell, heard, captured, steps, refused, log>>

(* `start_cells`: never the same square, whatever the seed draws.          *)
StartCells == {s \in [Peer -> Cells] : s[Police] # s[Thief]}

Init ==
  /\ contest \in [Peer -> PolicePolicies \cup ThiefPolicies]
  /\ contest[Police] \in PolicePolicies /\ contest[Thief] \in ThiefPolicies
  /\ cell \in StartCells
  /\ walls = {}
  /\ heard = [p \in Peer |-> Unheard]
  /\ captured = FALSE
  /\ steps = 0
  /\ refused = FALSE
  /\ log = <<>>

Settled == Terminal(captured, steps)
View(p) == Observation(walls, cell[p], heard[p])

(* `Replay._check` of what was just decided: nothing but legality is open. *)
Consistent(turn) == \A p \in Peer : turn[p] \in Lawful(p, walls, cell[p])

(* Mutant: a piece is smelt where it arrives, before the round it did.     *)
RecordLanding(turn) ==
  heard' = [p \in Peer |->
              Heard(heard[p], EmissionOf[CellAfter(cell[Other(p)], turn[Other(p)])])]

(* `ScentTrail.record`: from the cell the round started on, to the other.  *)
Record(turn) ==
  heard' = [p \in Peer |-> Heard(heard[p], EmissionOf[cell[Other(p)]])]

(* The wall asks about the cell the thief decided from; the trap about the *)
(* cell and the board the round left.                                      *)
Captures(turn) ==
  \/ turn[Police].kind = "barrier" /\ turn[Police].arg = cell[Thief]
  \/ Trapped(walls \cup Placed(turn[Police]), CellAfter(cell[Thief], turn[Thief]))

(* `play_round`: both decide from the start state, then both apply.        *)
PlayRound ==
  /\ Settled = "NONE" /\ ~refused
  /\ \E pa \in Answers(Police, contest[Police], View(Police)),
        ta \in Answers(Thief, contest[Thief], View(Thief)) :
       LET turn == [p \in Peer |-> IF p = Police THEN pa ELSE ta]
       IN IF Consistent(turn)
          THEN /\ Record(turn)
               /\ walls' = walls \cup Placed(pa)
               /\ cell' = [p \in Peer |-> CellAfter(cell[p], turn[p])]
               /\ captured' = Captures(turn)
               /\ steps' = steps + 1
               /\ log' = Append(log, [cell |-> cell, turn |-> turn])
               /\ UNCHANGED <<contest, refused>>
          ELSE /\ refused' = TRUE
               /\ UNCHANGED <<contest, walls, cell, heard, captured, steps, log>>

Next == PlayRound

Spec == Init /\ [][Next]_vars

-----------------------------------------------------------------------------
Policies(p) == IF p = Police THEN {Shipped} \cup CandidateNames \cup Families ELSE Families

(* No policy, in any state a game of these reaches, answers what the       *)
(* production rules refuse, and none is left without an answer             *)
(* (`IllegalResearchActionError` and the trapped actor's `ValueError`).    *)
EveryAnswerIsLawful ==
  /\ ~refused
  /\ Settled = "NONE" =>
       \A p \in Peer : \A policy \in Policies(p) :
         LET answers == Answers(p, policy, View(p))
         IN answers # {} /\ answers \subseteq Lawful(p, walls, cell[p])

(* `reachable_from` is the walking distance: zero at home, one more than   *)
(* the nearest neighbour's elsewhere, closed under legal steps. All the    *)
(* landings of one actor see one region, which is what makes their totals  *)
(* comparable (`baseline_strategy.py`).                                    *)
DistancesAreWalks ==
  LET CellsOf(walk) == {d[1] : d \in walk}
      walks == {<<c, Reachable(walls, c)>> : c \in Cells \ walls}
  IN \A w \in walks :
       LET c == w[1]
           walk == w[2]
           seen == CellsOf(walk)
           Near(x) == {d[2] : d \in {y \in walk : y[1] \in Neighbours(x)}}
       IN /\ {d \in walk : d[1] = c \/ d[2] = 0} = {<<c, 0>>}
          /\ \A x \in seen : {y \in Neighbours(x) : Traversable(walls, y)} \subseteq seen
          /\ \A d \in walk : d[1] # c => d[2] = 1 + Min(Near(d[1]))
          /\ \A m \in LegalMoves(walls, c) : \E v \in walks :
               v[1] = Destination(c, m) /\ CellsOf(v[2]) = seen

(* Every policy is sound on every board a game reaches: what it answers is *)
(* lawful, and the distances it weighs are the walks of the board.         *)
PoliciesAreSound == EveryAnswerIsLawful /\ DistancesAreWalks

(* What a side believes is the other's trail and nothing else: at least    *)
(* each emission decayed by the turns since, at most their sum and 0.9,    *)
(* and nothing out of the window of every cell the other decided from. So  *)
(* the cell it decided from last carries a full emission, and only walls   *)
(* of evidence can be built on it. The bound is `_advance`'s: `scent.py:5` *)
(* says of the same field that a re-emission may exceed 0.9, and it never  *)
(* does.                                                                   *)
EvidenceIsTheTrail ==
  \A p \in Peer : \A c \in Cells :
    LET n == Len(log)
        Kept(x, age) == LET k[i \in 0 .. age] == IF i = 0 THEN x ELSE (9 * k[i - 1]) \div 10
                        IN k[age]
        Share(i) == LET from == log[i].cell[Other(p)]
                        o == <<c[1] - from[1], c[2] - from[2]>>
                    IN IF o \in Window5 THEN Kept(Scale * Kernel[o], n - i) ELSE 0
        tau == View(p).scent.field[c]
    IN /\ \A i \in 1 .. n : tau >= Share(i)
       /\ tau <= MapThenSumSet(Share, 1 .. n)
       /\ tau <= MaxScent
       /\ n > 0 /\ c = log[n].cell[Other(p)] => tau = MaxScent
=============================================================================
