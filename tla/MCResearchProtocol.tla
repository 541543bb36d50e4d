------------------------- MODULE MCResearchProtocol -------------------------
(* Two shells. Seeds of one bank collide on an opening, and so do seeds of *)
(* two banks. The edited candidate would pass every gate on the holdout    *)
(* and regress on stress; the frozen one passes both.                      *)
EXTENDS ResearchProtocol, TLC

CONSTANTS s1, s2

MCProc == {s1, s2}
MCShells == Permutations(MCProc)
MCChosenSets == {WorkingBanks}
MCDrawnOpening(seed) == seed[2] % 2
Better == [delta |-> 8, low |-> 2, high |-> 14]
Noisy == [delta |-> -6, low |-> -13, high |-> 1]
Small == [delta |-> -9, low |-> Unmeasured, high |-> Unmeasured]
Worse == [delta |-> -6, low |-> -11, high |-> -1]
MCMeasured ==
  [v \in Versions |-> [b \in WorkingBanks |->
     [overall |-> Better,
      groups |-> IF v = Frozen THEN {Better, Noisy, Small}
                 ELSE IF b = "stress" THEN {Worse} ELSE {Better}]]]
=============================================================================
