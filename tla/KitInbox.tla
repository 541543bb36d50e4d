------------------------------ MODULE KitInbox ------------------------------
(***************************************************************************)
(* The at-least-once receiver of the symmetric-push wire: the decision     *)
(* table of `kit_delivery.py` and the inbox of `kit_inbox.py`, as pure     *)
(* operators on an inbox and an arriving turn.                             *)
(*                                                                         *)
(* A turn is any record with a `step`; the turn itself stands for its      *)
(* commit, so two turns are equal exactly when their commits are.          *)
(***************************************************************************)
EXTENDS Naturals, Sequences, FiniteSets

CONSTANT Window     \* `KitTurnInbox.window`, the reorder window

ASSUME WindowAssumption == Window \in Nat

EmptyInbox ==
  [expected |-> 1, played |-> {}, buffered |-> {}, ready |-> <<>>, accused |-> {},
   arrived |-> FALSE]

PlayedStep(inbox, s) == \E t \in inbox.played : t.step = s

(* Mutant: whatever is not past the window is applied as it comes.         *)
DecideEagerly(inbox, turn) ==
  IF turn.step <= inbox.expected + Window THEN "APPLY" ELSE "VIOLATION"

(* `decide`: deduplicated on the commit, never on the step alone.          *)
Decide(inbox, turn) ==
  CASE turn \in inbox.played -> "ABSORB"
    [] turn \notin inbox.played /\ PlayedStep(inbox, turn.step) -> "EQUIVOCATION"
    [] ~PlayedStep(inbox, turn.step) /\ turn.step = inbox.expected -> "APPLY"
    [] turn.step \in inbox.expected + 1 .. inbox.expected + Window -> "BUFFER"
    [] turn.step > inbox.expected + Window -> "VIOLATION"
    [] OTHER -> "DISCARD"

Refuses(inbox, turn) == Decide(inbox, turn) \in {"EQUIVOCATION", "VIOLATION"}

(* The buffered turns an applied turn unblocks: the unbroken run after it. *)
Released(inbox, turn) ==
  {t \in inbox.buffered :
     /\ t.step > turn.step
     /\ \A s \in turn.step + 1 .. t.step : \E u \in inbox.buffered : u.step = s}

(* The turn and those it unblocks, in step order.                          *)
Run(inbox, turn) ==
  [i \in 1 .. 1 + Cardinality(Released(inbox, turn)) |->
     IF i = 1 THEN turn
     ELSE CHOOSE t \in Released(inbox, turn) : t.step = turn.step + i - 1]

(* Mutant: the released turns are not counted.                             *)
NextStep(inbox, turn) == turn.step + 1

NextExpected(inbox, turn) == turn.step + Len(Run(inbox, turn))

(* `_apply`: in one order, and then the loop is woken.                     *)
Apply(inbox, turn) ==
  [inbox EXCEPT !.expected = NextExpected(inbox, turn),
                !.played = @ \cup {turn} \cup Released(inbox, turn),
                !.buffered = @ \ Released(inbox, turn),
                !.ready = @ \o Run(inbox, turn),
                !.arrived = TRUE]

(* A buffered step is replaced by a later arrival for it, uncompared.      *)
Hold(inbox, turn) ==
  [inbox EXCEPT !.buffered = {t \in @ : t.step # turn.step} \cup {turn}]

(* `offer`: only an applied turn wakes the loop; equivocation is recorded. *)
Offer(inbox, turn) ==
  CASE Decide(inbox, turn) = "APPLY" -> Apply(inbox, turn)
    [] Decide(inbox, turn) = "BUFFER" -> Hold(inbox, turn)
    [] Decide(inbox, turn) = "EQUIVOCATION" -> [inbox EXCEPT !.accused = @ \cup {turn.step}]
    [] OTHER -> inbox

(* `consume`: take what was applied and clear the wake-up.                 *)
Consumed(inbox) == [inbox EXCEPT !.ready = <<>>, !.arrived = FALSE]
=============================================================================
