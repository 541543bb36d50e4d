---------------------------- MODULE ScentPhysics ----------------------------
(***************************************************************************)
(* The scent a piece leaves and what the other side makes of it            *)
(* (`domain/scent*.py`, `domain/observation.py`).                          *)
(*                                                                         *)
(* Intensities are exact decimals in the code; here they are integers in   *)
(* units of 1 / (100 * Scale). With Scale = 10^n the first n turns of a    *)
(* field are exact, as they are under the code's context of 28 digits.     *)
(***************************************************************************)
EXTENDS BoardRules, Sequences

CONSTANT Scale

ASSUME ScaleAssumption == Scale \in Nat \ {0}

(* `FIGURE_4_WEIGHTS` by squared radius; `CENTER`, the bound of the state. *)
Ring == [r \in {0, 1, 2, 4, 5, 8} |->
           CASE r = 0 -> 90 [] r = 1 -> 62 [] r = 2 -> 42
             [] r = 4 -> 20 [] r = 5 -> 14 [] r = 8 -> 4]
Window5 == (-2 .. 2) \X (-2 .. 2)
Kernel == [o \in Window5 |-> Ring[o[1] * o[1] + o[2] * o[2]]]
MaxScent == 90 * Scale

(* `ScentKernel._require_radial`: one weight per ring, never growing       *)
(* outwards, and the fixed centre.                                         *)
Radial(kernel) ==
  /\ kernel[<<0, 0>>] = 90
  /\ \A a, b \in Window5 :
       a[1] * a[1] + a[2] * a[2] >= b[1] * b[1] + b[2] * b[2] => kernel[a] <= kernel[b]
  /\ \A a \in Window5 : kernel[a] \in Nat

-----------------------------------------------------------------------------
(* The one recurrence: decay, deposit, saturate at both ends.              *)

Evolved(tau, deposit) ==
  LET next == (9 * tau) \div 10 + deposit
  IN IF next > MaxScent THEN MaxScent ELSE IF next < 0 THEN 0 ELSE next

(* `require_truthful_examples`: what the two peers lock is what it does.   *)
Examples ==
  {[before |-> 90, deposit |-> 0, after |-> 81], [before |-> 90, deposit |-> 90, after |-> 90]}
Truthful(example) ==
  Evolved(Scale * example.before, Scale * example.deposit) = Scale * example.after

(* `ScentField`: one intensity per cell of the board, walls included.      *)
ZeroField == [c \in Cells |-> 0]
Deposits(source) ==
  [c \in Cells |->
     LET o == <<c[1] - source[1], c[2] - source[2]>>
     IN IF o \in Window5 THEN Scale * Kernel[o] ELSE 0]
Advance(field, deposits) == [c \in Cells |-> Evolved(field[c], deposits[c])]

(* `emission_of`: the positive cells of an empty field after one source.   *)
EmissionOf == [source \in Cells |->
  LET field == Advance(ZeroField, Deposits(source))
  IN [c \in {x \in Cells : field[x] > 0} |-> field[c]]]

(* `ScentEmission.at`: nothing where it deposits nothing.                  *)
EmittedAt(emission, c) == IF c \in DOMAIN emission THEN emission[c] ELSE 0

Absorbed(field, emission) == Advance(field, [c \in Cells |-> EmittedAt(emission, c)])

(* `observed_field`, `ScentBelief`: the fold over the emissions heard, one *)
(* per completed turn, and how many they were. The code keeps the list and *)
(* folds it when it looks; the fold is what can be told apart.             *)
Unheard == [field |-> ZeroField, evidence |-> 0]
Heard(belief, emission) ==
  [field |-> Absorbed(belief.field, emission), evidence |-> belief.evidence + 1]

(* `Observation`: the walls, the own cell and the belief; nothing in it    *)
(* could hold the other side's cell.                                       *)
Observation(walls, own, belief) == [walls |-> walls, own |-> own, scent |-> belief]

(* `believed_cells`: every cell that carries evidence.                     *)
Mass(view) ==
  IF view.scent.evidence = 0 THEN {} ELSE {c \in Cells : view.scent.field[c] > 0}

ASSUME ModelAgreed ==
  /\ Radial(Kernel)
  /\ \A example \in Examples : Truthful(example)
=============================================================================
