---------------------------- MODULE MCCountedRecord ----------------------------
(* Three sub-games. `Twin` ends with the totals, the sub-games won and the  *)
(* tie of `Played`, in another order; `Lost` has a winner. A start of the   *)
(* gateway departs from the plain one in one thing.                         *)
EXTENDS CountedRecord
Played == <<"CAPTURE", "CAPTURE", "TECHNICAL_LOSS">>
Twin == <<"TECHNICAL_LOSS", "CAPTURE", "CAPTURE">>
Lost == <<"CAPTURE", "SURVIVAL", "TECHNICAL_LOSS">>
Plain == [counted |-> TRUE, declared |-> "first", us |-> Played, them |-> Played,
          deployed |-> [g \in Groups |-> "declared"]]
MCFacts ==
  {Plain, [Plain EXCEPT !.us = Lost, !.them = Lost], [Plain EXCEPT !.counted = FALSE],
   [Plain EXCEPT !.declared = "amended"], [Plain EXCEPT !.them = Twin], [Plain EXCEPT !.them = Lost]}
  \cup {[Plain EXCEPT !.deployed[g] = "another"] : g \in Groups}
=============================================================================
