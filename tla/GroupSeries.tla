---------------------------- MODULE GroupSeries ----------------------------
(***************************************************************************)
(* What a group behind one gateway promises about its series: one sub-game *)
(* at a time and in order, whichever process plays it; an agreement only   *)
(* on a series that is over, and official files only of an agreed one.     *)
(***************************************************************************)
EXTENDS Naturals

CONSTANT SubGames

VARIABLES begun, settled, agreed, written

vars == <<begun, settled, agreed, written>>

Init ==
  /\ begun = 0
  /\ settled = 0
  /\ agreed = FALSE
  /\ written = FALSE

Begin ==
  /\ begun = settled
  /\ begun < SubGames
  /\ begun' = begun + 1
  /\ UNCHANGED <<settled, agreed, written>>

Settle ==
  /\ settled < begun
  /\ settled' = settled + 1
  /\ UNCHANGED <<begun, agreed, written>>

Agree ==
  /\ settled = SubGames
  /\ agreed' = TRUE
  /\ UNCHANGED <<begun, settled, written>>

Write ==
  /\ agreed
  /\ written' = TRUE
  /\ UNCHANGED <<begun, settled, agreed>>

Next == Begin \/ Settle \/ Agree \/ Write

Spec == Init /\ [][Next]_vars
=============================================================================
