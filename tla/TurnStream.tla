----------------------------- MODULE TurnStream -----------------------------
(***************************************************************************)
(* What the delivery contract promises the sub-game loop: the turns of the *)
(* current sub-game, each once, in the order they were sealed, and nothing *)
(* else, although the wire repeats, reorders, delays and loses.            *)
(***************************************************************************)
EXTENDS Naturals, Sequences

CONSTANTS NumGames, NumTurns

VARIABLES game,    \* the sub-game being played
          sealed,  \* how many turns the peer has sealed in it
          taken    \* the turns the loop has taken, in order

stream == <<game, sealed, taken>>

Init == game = 1 /\ sealed = 0 /\ taken = <<>>

Seal ==
  /\ sealed < NumTurns
  /\ sealed' = sealed + 1
  /\ UNCHANGED <<game, taken>>

Take ==
  /\ \E upTo \in Len(taken) + 1 .. sealed :
       taken' = [k \in 1 .. upTo |-> [game |-> game, step |-> k]]
  /\ UNCHANGED <<game, sealed>>

NextGame ==
  /\ game < NumGames
  /\ Len(taken) = sealed
  /\ game' = game + 1
  /\ sealed' = 0
  /\ taken' = <<>>

Spec == Init /\ [][Seal \/ Take \/ NextGame]_stream
=============================================================================
