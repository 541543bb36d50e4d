--------------------------- MODULE AlternatingGame ---------------------------
(***************************************************************************)
(* What a sub-game of the symmetric-push wire promises to a player who     *)
(* knows nothing of messages: thief and police act in turn, thief first,   *)
(* on one board that holds every barrier; a thief on whose cell the police *)
(* ended its turn only stays; and the police never acts again once it has  *)
(* caught the thief, nor once the thief has survived.                      *)
(***************************************************************************)
EXTENDS BoardRules

VARIABLES place,    \* where each role stands
          walls,    \* the barriers on the board
          turns,    \* how many turns each role has taken
          met       \* the police ended its last turn on the thief's cell

alternating == <<place, walls, turns, met>>

Stay == [kind |-> "move", arg |-> <<0, 0>>]

Init ==
  /\ place = StartCell
  /\ walls = {}
  /\ turns = [p \in Peer |-> 0]
  /\ met = FALSE

Act(p, a) ==
  /\ a \in Lawful(p, walls, place[p])
  /\ place' = [place EXCEPT ![p] = CellAfter(@, a)]
  /\ walls' = walls \cup Placed(a)
  /\ turns' = [turns EXCEPT ![p] = @ + 1]

ThiefTurn ==
  /\ turns[Thief] = turns[Police]
  /\ turns[Thief] < SurvivalThreshold
  /\ \E a \in Action : (met => a = Stay) /\ Act(Thief, a)
  /\ UNCHANGED met

PoliceTurn ==
  /\ turns[Thief] = turns[Police] + 1
  /\ turns[Thief] < SurvivalThreshold
  /\ ~met
  /\ \E a \in Action : Act(Police, a)
  /\ met' = (place'[Police] = place[Thief])

Spec == Init /\ [][ThiefTurn \/ PoliceTurn]_alternating
=============================================================================
