--------------------------- MODULE SeriesContract ---------------------------
(***************************************************************************)
(* What a series promises, with no messages: each group closes the         *)
(* sub-games in order, never one the other group has not reached, and an   *)
(* official result exists only when both groups recorded the whole series  *)
(* clean and recorded the same thing.                                      *)
(***************************************************************************)
EXTENDS Naturals, Sequences

CONSTANTS NumGames,   \* `SeriesConfig.num_games`
          Group,      \* the two participants
          Outcome,    \* what one closed sub-game may be recorded as
          Tampered    \* the outcome of a sub-game whose audit failed

VARIABLES recorded,   \* each group's outcome lines so far
          official    \* the groups whose official result exists

contract == <<recorded, official>>

Init ==
  /\ recorded = [g \in Group |-> <<>>]
  /\ official = {}

CloseSubGame(g) ==
  /\ Len(recorded[g]) < NumGames
  /\ \A h \in Group : Len(recorded[g]) <= Len(recorded[h])
  /\ \E outcome \in Outcome : recorded' = [recorded EXCEPT ![g] = Append(@, outcome)]
  /\ UNCHANGED official

Publish(g) ==
  /\ g \notin official
  /\ Len(recorded[g]) = NumGames
  /\ \A h \in Group : recorded[h] = recorded[g]
  /\ \A k \in 1 .. NumGames : recorded[g][k] # Tampered
  /\ official' = official \cup {g}
  /\ UNCHANGED recorded

Next == \E g \in Group : CloseSubGame(g) \/ Publish(g)

Spec == Init /\ [][Next]_contract
=============================================================================
