------------------------- MODULE KitSubGame_proofs -------------------------
(***************************************************************************)
(* What is proved of the symmetric-push wire. First of a sub-game between  *)
(* two role backends, for every board, quota, threshold and reorder        *)
(* window, and whatever is lost, repeated or late; then of the receiver    *)
(* itself, behind an external client that may be a window of turns ahead.  *)
(* The two specifications share the inbox and no variable.                 *)
(*                                                                         *)
(* The sub-game's argument counts turns. What one side has pushed, what    *)
(* the other's inbox was offered of it and what its loop has consumed of   *)
(* that differ by one at most, all the way round (`CountLink`); so an      *)
(* inbox never buffers, holds one turn at most, and refuses nothing. The   *)
(* sealed records then say what each loop knows: its cell, its board, the  *)
(* answer it owes (`HistoryLink`, `BoardLink`, `AnswerLink`), and how it   *)
(* ends (`PoliceEnd`, `ThiefEnd`).                                         *)
(*                                                                         *)
(* The receiver's argument is one of order: what was played lies below the *)
(* expected step, what is buffered above it (`ReceiverLink`), and what was *)
(* taken and is ready is exactly the turns below it (`TakenLink`).         *)
(***************************************************************************)
EXTENDS KitSubGame, KitDelivery, FiniteSetTheorems, SequenceTheorems, TLAPS

Over == {"settle", "finalSent", "disclose", "auditSent", "awaitAudit", "done"}
InPlay == {"turn", "turnSent", "awaitTurn"}
Acked == {"awaitTurn", "disclose", "auditSent", "awaitAudit", "done"}

Answers == [kind : {"answer"}, claim : Cells, caught : BOOLEAN]
Turns ==
  [kind : {"turn"}, step : Nat, commit : [action : Action, cell : Cells],
   barrier : SUBSET Cells, claim : SUBSET Cells, answer : {None} \cup Answers,
   survival : BOOLEAN]
Audits == [kind : {"audit"}, claim : Outcomes]
Inboxes ==
  [expected : Nat \ {0}, played : SUBSET Turns, buffered : {{}}, ready : Seq(Turns),
   accused : {{}}, arrived : BOOLEAN]

TypeOK ==
  /\ pc \in [Peer -> InPlay \cup Over \cup {"failed"}]
  /\ cell \in [Peer -> Cells]
  /\ blocked \in [Peer -> SUBSET Cells]
  /\ step \in [Peer -> Nat]
  /\ pending \in [Peer -> {None} \cup Answers]
  /\ inbox \in [Peer -> Inboxes]
  /\ audit \in [Peer -> {None} \cup Audits]
  /\ outcome \in [Peer -> Outcomes]
  /\ pushed \in [Peer -> SUBSET Turns]
  /\ call \in [Peer -> {None} \cup Turns \cup Audits]
  /\ reply \in [Peer -> {None, Ok, Error}]

(* One record is sealed and pushed per step, the last of them from where p *)
(* stands, and each says in the open what p's role may say.                *)
HistoryLink(p) ==
  /\ \A s \in 1 .. step[p] : \E turn \in pushed[p] : turn.step = s
  /\ \A turn \in pushed[p] :
       /\ turn.step \in 1 .. step[p]
       /\ turn.step = step[p] => turn.commit.cell = cell[p]
       /\ \A again \in pushed[p] : again.step = turn.step => again = turn
       /\ turn.claim = IF p = Police THEN {turn.commit.cell} ELSE {}
       /\ p = Police => turn.answer = None
       /\ p = Thief => turn.barrier = {}
       /\ turn.survival <=> Survived(p, turn.step)

(* How many of the other's turns p's inbox was offered, and p consumed.    *)
Heard(p) == inbox[p].expected - 1
Taken(p) == IF inbox[p].arrived THEN Heard(p) - 1 ELSE Heard(p)

InboxLink(p) ==
  /\ inbox[p].played = {turn \in pushed[Other(p)] : turn.step <= Heard(p)}
  /\ Heard(p) \in {step[Other(p)], step[Other(p)] - 1}
  /\ IF inbox[p].arrived
     THEN \E turn \in pushed[Other(p)] : turn.step = Heard(p) /\ inbox[p].ready = <<turn>>
     ELSE inbox[p].ready = <<>>

(* All counts are within one of each other, and where a loop stands says   *)
(* whose turn it takes it to be.                                           *)
CountLink ==
  /\ Taken(Thief) <= step[Thief] /\ step[Thief] <= Taken(Thief) + 1
  /\ step[Police] <= Taken(Police) /\ Taken(Police) <= step[Police] + 1
  /\ pc[Thief] \in {"turn", "settle"} => step[Thief] = Taken(Thief)
  /\ pc[Thief] \in {"turnSent", "awaitTurn"} \cup (Over \ {"settle"})
       => step[Thief] = Taken(Thief) + 1
  /\ pc[Police] \in {"turn"} \cup Over => Taken(Police) = step[Police] + 1
  /\ pc[Police] \in {"turnSent", "awaitTurn"} => Taken(Police) = step[Police]

(* A request is outstanding only while its loop waits for the answer, and  *)
(* an acknowledgement says that what was sent has come in.                 *)
CallLink(p) ==
  /\ call[p] # None => reply[p] = None
  /\ pc[p] \in Calling <=> (call[p] # None \/ reply[p] # None)
  /\ call[p] \in Turns => /\ pc[p] \in {"turnSent", "finalSent"}
                          /\ call[p] \in pushed[p] /\ call[p].step = step[p]
  /\ call[p] \in Audits => pc[p] = "auditSent"
  /\ pc[p] \in Acked \/ reply[p] = Ok => Heard(Other(p)) = step[p]
  /\ pc[p] \in {"awaitAudit", "done"} \/ (pc[p] = "auditSent" /\ reply[p] = Ok)
       => audit[Other(p)] # None

(* The two boards are one, but for a barrier on its way.                   *)
BoardLink ==
  /\ Taken(Thief) = step[Police] => blocked[Thief] = blocked[Police]
  /\ Taken(Thief) < step[Police] =>
       \A turn \in pushed[Police] :
         turn.step = step[Police] => blocked[Police] = blocked[Thief] \cup turn.barrier

(* A claim is answered from the cell the thief stood on when it was made.  *)
AnswersClaim(answer, asked, stood) ==
  /\ answer # None
  /\ {answer.claim} = asked.claim
  /\ answer.caught = (asked.claim = {stood})

AnswerLink ==
  /\ pending[Police] = None
  /\ pc[Thief] \in {"turn", "settle"} /\ step[Thief] > 0 =>
       \A asked \in pushed[Police] :
         asked.step = step[Thief] => AnswersClaim(pending[Thief], asked, cell[Thief])
  /\ \A turn, before \in pushed[Thief] : \A asked \in pushed[Police] :
       turn.step = asked.step + 1 /\ before.step = asked.step =>
         AnswersClaim(turn.answer, asked, before.commit.cell)

(* What the turn at step s of the thief says: an answer before a claim.    *)
Said(s, end) == \A turn \in pushed[Thief] : turn.step = s => SaidBy(turn) = end

PoliceEnd ==
  /\ Taken(Police) > 0 => Said(Taken(Police), outcome[Police])
  /\ Taken(Police) = 0 => outcome[Police] = "NONE"
  /\ pc[Police] \in InPlay => outcome[Police] = "NONE"
  /\ pc[Police] \in Over => outcome[Police] # "NONE"
  /\ outcome[Police] # "NONE" => Taken(Police) = step[Police] + 1
  /\ outcome[Police] = "CAPTURE" => cell[Police] = cell[Thief]
  /\ pc[Police] # "finalSent"

Walled == SelfCaptured(Thief, blocked[Thief], cell[Thief])

ThiefEnd ==
  /\ step[Thief] <= SurvivalThreshold
  /\ pc[Thief] \in {"turn", "awaitTurn", "settle"} => step[Thief] < SurvivalThreshold
  /\ pc[Thief] \in InPlay => outcome[Thief] = "NONE" /\ ~Walled
  /\ pc[Thief] = "turn" => ~Says([answer |-> pending[Thief]], TRUE)
  /\ pc[Thief] = "settle" => outcome[Thief] = "CAPTURE" /\ step[Thief] > 0
  /\ pc[Thief] \in Over => outcome[Thief] # "NONE"
  /\ outcome[Thief] = "CAPTURE" => cell[Police] = cell[Thief] \/ Walled
  /\ outcome[Thief] = "SURVIVAL" =>
       step[Thief] = SurvivalThreshold /\ step[Thief] = Taken(Thief) + 1
  /\ step[Thief] = Taken(Thief) + 1 =>
       \A turn \in pushed[Thief] : turn.step = step[Thief] =>
         /\ outcome[Thief] # "CAPTURE" => ~Says(turn, TRUE)
         /\ outcome[Thief] = "CAPTURE" =>
              /\ Taken(Thief) = step[Police] => (Says(turn, TRUE) <=> cell[Police] = cell[Thief])
              /\ Taken(Thief) < step[Police] => ~Says(turn, TRUE)
              /\ Says(turn, TRUE) \/ causes # {}

(* Once the police stood where the thief stood, it does not move again.    *)
MetLink ==
  \A asked \in pushed[Police] : \A turn \in pushed[Thief] :
    asked.step = turn.step /\ asked.claim = {turn.commit.cell} => asked.step = step[Police]

CauseLink ==
  \A p \in Peer : pc[p] = "failed" \/ reply[p] = Error => causes # {}

SubGameInv ==
  /\ TypeOK
  /\ \A p \in Peer : HistoryLink(p) /\ InboxLink(p) /\ CallLink(p)
  /\ CountLink /\ BoardLink /\ AnswerLink
  /\ PoliceEnd /\ ThiefEnd /\ MetLink /\ CauseLink

-----------------------------------------------------------------------------
(* There are two roles, and Other is the opposite one.                     *)
LEMMA PeerFacts ==
  /\ Police \in Peer /\ Thief \in Peer /\ Police # Thief
  /\ Other(Police) = Thief /\ Other(Thief) = Police
  /\ \A p \in Peer : p = Police \/ p = Thief
  /\ \A p \in Peer : Other(p) \in Peer /\ Other(p) # p /\ Other(Other(p)) = p
  BY BoardAssumption DEF Peer, Other

LEMMA BoardFacts ==
  /\ Rows \in Nat /\ Cols \in Nat /\ Rows > 0 /\ Cols > 0
  /\ MaxMoves \in Nat /\ SurvivalThreshold \in Nat
  /\ 1 <= SurvivalThreshold /\ SurvivalThreshold <= MaxMoves
  /\ StartCell \in [Peer -> Cells]
  BY BoardAssumption

(* What a lawful action does keeps piece and barrier on the board, and a   *)
(* thief only moves (`legal_actions`).                                     *)
LEMMA LawfulStays ==
  ASSUME NEW p \in Peer, NEW b \in SUBSET Cells, NEW c \in Cells, NEW a \in Lawful(p, b, c)
  PROVE  /\ a \in Action
         /\ CellAfter(c, a) \in Cells
         /\ Placed(a) \subseteq Cells
         /\ p = Thief => Placed(a) = {} /\ a.arg \in MoveSet /\ CellAfter(c, a) = Destination(c, a.arg)
                         /\ CellAfter(c, a) \notin b
  BY PeerFacts DEF Lawful, Action, CellAfter, Placed, LegalMove, Traversable, Placeable

LEMMA CellIsPair ==
  ASSUME NEW c \in Cells
  PROVE  c[1] \in 0 .. Rows - 1 /\ c[2] \in 0 .. Cols - 1 /\ c = <<c[1], c[2]>>
  BY BoardFacts DEF Cells

(* A thief that can move back is not trapped, wherever it went.            *)
LEMMA StaysFree ==
  ASSUME NEW b \in SUBSET Cells, NEW c \in Cells, NEW a \in Lawful(Thief, b, c),
         ~SelfCaptured(Thief, b, c)
  PROVE  ~SelfCaptured(Thief, b, CellAfter(c, a))
<1>. DEFINE m == a.arg
            d == Destination(c, m)
<1>1. /\ m \in MoveSet /\ CellAfter(c, a) = d /\ d \in Cells /\ d \notin b
  BY LawfulStays, PeerFacts
<1>2. c \notin b /\ ~Trapped(b, c)  BY DEF SelfCaptured
<1>3. /\ c[1] \in Int /\ c[2] \in Int /\ c = <<c[1], c[2]>>  BY CellIsPair, BoardFacts
<1>4. CASE m = <<0, 0>>
  <2>1. d = c  BY <1>3, <1>4 DEF Destination
  <2>. QED  BY <1>1, <1>2, <2>1 DEF SelfCaptured
<1>5. CASE m \in Offsets
  <2>1. m[1] \in Int /\ m[2] \in Int /\ <<-m[1], -m[2]>> \in Offsets
    BY <1>5 DEF Offsets
  <2>2. Destination(d, <<-m[1], -m[2]>>) = c
    BY <1>3, <2>1 DEF Destination
  <2>3. c \in Neighbours(d)  BY <2>1, <2>2 DEF Neighbours
  <2>. QED  BY <1>1, <1>2, <2>3 DEF SelfCaptured, Trapped, Traversable
<1>. QED  BY <1>1, <1>4, <1>5 DEF MoveSet

(* On the empty board nobody is trapped.                                   *)
LEMMA FreeAtFirst ==
  ASSUME NEW c \in Cells
  PROVE  ~SelfCaptured(Thief, {}, c)
<1>1. c[1] \in 0 .. Rows - 1 /\ c[2] \in 0 .. Cols - 1  BY CellIsPair
<1>2. \E n \in Neighbours(c) : n \in Cells
  <2>1. CASE Rows > 1
    <3>1. CASE c[1] = 0
      <4>1. Destination(c, <<1, 0>>) \in Cells  BY <1>1, <2>1, <3>1, BoardFacts DEF Destination, Cells
      <4>. QED  BY <4>1 DEF Neighbours, Offsets
    <3>2. CASE c[1] # 0
      <4>1. Destination(c, <<-1, 0>>) \in Cells  BY <1>1, <2>1, <3>2, BoardFacts DEF Destination, Cells
      <4>. QED  BY <4>1 DEF Neighbours, Offsets
    <3>. QED  BY <3>1, <3>2
  <2>2. CASE Cols > 1
    <3>1. CASE c[2] = 0
      <4>1. Destination(c, <<0, 1>>) \in Cells  BY <1>1, <2>2, <3>1, BoardFacts DEF Destination, Cells
      <4>. QED  BY <4>1 DEF Neighbours, Offsets
    <3>2. CASE c[2] # 0
      <4>1. Destination(c, <<0, -1>>) \in Cells  BY <1>1, <2>2, <3>2, BoardFacts DEF Destination, Cells
      <4>. QED  BY <4>1 DEF Neighbours, Offsets
    <3>. QED  BY <3>1, <3>2
  <2>. QED  BY <2>1, <2>2, KitBoardAssumption
<1>. QED  BY <1>2 DEF SelfCaptured, Trapped, Traversable

(* The forced last STAY is a lawful move that stays where it is.           *)
LEMMA StayFacts ==
  ASSUME NEW c \in Cells
  PROVE  /\ Stay \in Action /\ Stay.arg = <<0, 0>> /\ Placed(Stay) = {}
         /\ CellAfter(c, Stay) = c
         /\ \A p \in Peer, b \in SUBSET Cells :
              LegalMove(b, c, Stay.arg) => Stay \in Lawful(p, b, c)
<1>1. Stay \in Action /\ Stay.kind = "move" /\ Stay.arg = <<0, 0>>
  BY DEF Stay, Action, MoveSet
<1>2. c[1] \in Int /\ c[2] \in Int /\ c = <<c[1], c[2]>>  BY CellIsPair, BoardFacts
<1>3. Destination(c, <<0, 0>>) = c  BY <1>2 DEF Destination
<1>. QED  BY <1>1, <1>3 DEF CellAfter, Placed, Lawful

(* Messages of different kinds differ.                                     *)
LEMMA KindFacts ==
  /\ None.kind = "none" /\ Ok.kind = "ok" /\ Error.kind = "error"
  /\ \A turn \in Turns : turn.kind = "turn" /\ turn # None
  /\ \A disclosure \in Audits : disclosure.kind = "audit" /\ disclosure # None
  /\ \A turn \in Turns, disclosure \in Audits : turn # disclosure
  /\ \A answer \in Answers : answer # None
  /\ Ok # None /\ Error # None /\ Ok # Error
  BY DEF None, Ok, Error, Turns, Audits, Answers

-----------------------------------------------------------------------------
(* The counts go round within one: nobody is two turns ahead of anybody.   *)
LEMMA Counts ==
  ASSUME SubGameInv
  PROVE  /\ \A p \in Peer : step[p] \in Nat /\ Heard(p) \in Nat /\ Taken(p) \in Nat
         /\ step[Police] <= Taken(Police) /\ Taken(Police) <= Heard(Police)
         /\ Heard(Police) <= step[Thief] /\ step[Thief] <= Taken(Thief) + 1
         /\ Taken(Thief) <= Heard(Thief) /\ Heard(Thief) <= step[Police]
<1>1. \A p \in Peer : /\ step[p] \in Nat /\ inbox[p].expected \in Nat \ {0}
                      /\ Heard(p) \in {step[Other(p)], step[Other(p)] - 1}
  BY DEF SubGameInv, TypeOK, Inboxes, InboxLink
<1>2. \A p \in Peer : Heard(p) \in Nat /\ Taken(p) \in Int /\ Taken(p) <= Heard(p)
  BY <1>1 DEF Heard, Taken
<1>3. ASSUME NEW p \in Peer PROVE Taken(p) >= 0
  <2>1. CASE inbox[p].arrived
    <3>1. PICK turn \in pushed[Other(p)] : turn.step = Heard(p)
      BY <2>1 DEF SubGameInv, InboxLink
    <3>2. Other(p) \in Peer /\ HistoryLink(Other(p))  BY PeerFacts DEF SubGameInv
    <3>3. turn.step \in 1 .. step[Other(p)] /\ step[Other(p)] \in Nat  BY <1>1, <3>1, <3>2 DEF HistoryLink
    <3>4. Heard(p) >= 1  BY <3>1, <3>3
    <3>. QED  BY <1>2, <2>1, <3>4 DEF Taken
  <2>2. CASE ~inbox[p].arrived  BY <1>2, <2>2 DEF Taken
  <2>. QED  BY <2>1, <2>2
<1>. QED  BY <1>1, <1>2, <1>3, PeerFacts DEF SubGameInv, CountLink

(* An inbox is offered only the turn it expects or one it has played, so   *)
(* it refuses nothing, and what it applies it hands over alone (`offer`).  *)
LEMMA OfferFacts ==
  ASSUME SubGameInv, NEW p \in Peer, NEW turn \in pushed[p]
  PROVE  LET box == inbox[Other(p)]
         IN /\ ~Refuses(box, turn)
            /\ \/ turn.step <= Heard(Other(p)) /\ Offer(box, turn) = box
               \/ /\ turn.step = Heard(Other(p)) + 1 /\ turn.step = step[p]
                  /\ box.arrived = FALSE
                  /\ Offer(box, turn) =
                       [expected |-> box.expected + 1, played |-> box.played \cup {turn},
                        buffered |-> {}, ready |-> <<turn>>, accused |-> {}, arrived |-> TRUE]
<1>. DEFINE q == Other(p)
            box == inbox[q]
<1>1. /\ q \in Peer /\ Other(q) = p  BY PeerFacts
<1>2. /\ box \in Inboxes /\ turn \in Turns /\ turn.step \in 1 .. step[p] /\ step[p] \in Nat
      /\ \A again \in pushed[p] : again.step = turn.step => again = turn
  <2>1. HistoryLink(p)  BY DEF SubGameInv
  <2>2. /\ turn.step \in 1 .. step[p]
        /\ \A again \in pushed[p] : again.step = turn.step => again = turn
    BY <2>1 DEF HistoryLink
  <2>3. box \in Inboxes /\ turn \in Turns /\ step[p] \in Nat  BY <1>1 DEF SubGameInv, TypeOK
  <2>. QED  BY <2>2, <2>3
<1>3. /\ box.played = {t \in pushed[p] : t.step <= Heard(q)}
      /\ Heard(q) \in {step[p], step[p] - 1}
      /\ ~box.arrived => box.ready = <<>>
  BY <1>1 DEF SubGameInv, InboxLink
<1>4. /\ box.expected \in Nat \ {0} /\ box.buffered = {} /\ box.accused = {}
      /\ box.arrived \in BOOLEAN /\ turn.step \in Nat
      /\ box = [expected |-> box.expected, played |-> box.played, buffered |-> box.buffered,
                ready |-> box.ready, accused |-> box.accused, arrived |-> box.arrived]
      /\ Heard(q) = box.expected - 1
  BY <1>2 DEF Inboxes, Turns, Heard
<1>5. CASE turn.step <= Heard(q)
  <2>1. turn \in box.played /\ turn.step < box.expected  BY <1>3, <1>4, <1>5
  <2>2. Decide(box, turn) = "ABSORB"
    <3>. HIDE DEF box
    <3>1. turn.step \notin box.expected + 1 .. box.expected + Window  BY <1>4, <2>1
    <3>2. ~(turn.step > box.expected + Window)  BY <1>4, <2>1, WindowAssumption
    <3>. QED  BY <2>1, <3>1, <3>2 DEF Decide, PlayedStep
  <2>. QED  BY <1>5, <2>2 DEF Refuses, Offer
<1>6. CASE turn.step > Heard(q)
  <2>1. turn.step = step[p] /\ turn.step = Heard(q) + 1 /\ turn.step = box.expected
    BY <1>2, <1>3, <1>4, <1>6
  <2>2. turn \notin box.played /\ ~PlayedStep(box, turn.step)
    BY <1>3, <1>4, <2>1 DEF PlayedStep
  <2>3. Decide(box, turn) = "APPLY"
    <3>. HIDE DEF box
    <3>1. turn.step \notin box.expected + 1 .. box.expected + Window  BY <1>4, <2>1
    <3>2. ~(turn.step > box.expected + Window)  BY <1>4, <2>1, WindowAssumption
    <3>. QED  BY <2>1, <2>2, <3>1, <3>2 DEF Decide
  <2>4. box.arrived = FALSE
    <3>1. /\ step[Police] <= Taken(Police) /\ Taken(Police) <= Heard(Police)
          /\ Heard(Police) <= step[Thief] /\ step[Thief] <= Taken(Thief) + 1
          /\ Taken(Thief) <= Heard(Thief) /\ Heard(Thief) <= step[Police]
          /\ \A r \in Peer : step[r] \in Nat /\ Heard(r) \in Nat /\ Taken(r) \in Nat
      BY Counts
    <3>2. q = Police => p = Thief  BY <1>1, PeerFacts
    <3>3. q = Thief => p = Police  BY <1>1, PeerFacts
    <3>4. Taken(q) = Heard(q)
      <4>1. Taken(q) \in Int /\ Heard(q) \in Nat /\ step[p] \in Nat  BY <1>1, <3>1
      <4>2. q = Police \/ q = Thief  BY <1>1, PeerFacts
      <4>3. /\ Taken(Police) \in Int /\ Heard(Police) \in Nat /\ step[Police] \in Nat
            /\ Taken(Thief) \in Int /\ Heard(Thief) \in Nat /\ step[Thief] \in Nat
        BY <3>1, PeerFacts
      <4>4. CASE q = Police
        <5>1. p = Thief  BY <3>2, <4>4
        <5>2. step[Thief] = Heard(Police) + 1  BY <2>1, <4>4, <5>1
        <5>3. Taken(Police) = Heard(Police)  BY <3>1, <4>3, <5>2
        <5>. QED  BY <4>4, <5>3
      <4>5. CASE q = Thief
        <5>1. p = Police  BY <3>3, <4>5
        <5>2. step[Police] = Heard(Thief) + 1  BY <2>1, <4>5, <5>1
        <5>3. Taken(Thief) = Heard(Thief)  BY <3>1, <4>3, <5>2
        <5>. QED  BY <4>5, <5>3
      <4>. QED  BY <4>2, <4>4, <4>5
    <3>. QED  BY <1>4, <3>1, <3>4, <1>1 DEF Taken
  <2>5. Released(box, turn) = {}  BY <1>4 DEF Released
  <2>6. Run(box, turn) = [i \in 1 .. 1 |-> turn]
    <3>1. 1 + Cardinality(Released(box, turn)) = 1  BY <2>5, FS_EmptySet
    <3>. QED  BY <3>1 DEF Run
  <2>7. [i \in 1 .. 1 |-> turn] = <<turn>>  OBVIOUS
  <2>8. NextExpected(box, turn) = box.expected + 1
    BY <2>1, <2>6, <2>7, <1>4 DEF NextExpected
  <2>9. box.ready \o Run(box, turn) = <<turn>>
    <3>1. box.ready = <<>>  BY <1>3, <2>4
    <3>2. <<>> \o <<turn>> = <<turn>>  OBVIOUS
    <3>. QED  BY <2>6, <2>7, <3>1, <3>2
  <2>10. Offer(box, turn) = Apply(box, turn)  BY <2>3 DEF Offer
  <2>11. Apply(box, turn) =
           [expected |-> box.expected + 1, played |-> box.played \cup {turn},
            buffered |-> {}, ready |-> <<turn>>, accused |-> {}, arrived |-> TRUE]
    <3>. HIDE DEF box
    <3>1. /\ box.played \cup {turn} \cup {} = box.played \cup {turn}
          /\ box.buffered \ {} = {}
      BY <1>4
    <3>2. Apply(box, turn) =
            [box EXCEPT !.expected = box.expected + 1, !.played = box.played \cup {turn},
                        !.buffered = {}, !.ready = <<turn>>, !.arrived = TRUE]
      BY <2>5, <2>8, <2>9, <3>1 DEF Apply
    <3>. QED  BY <1>4, <3>2
  <2>. QED  BY <2>1, <2>3, <2>4, <2>10, <2>11 DEF Refuses
<1>7. turn.step \in Nat /\ Heard(q) \in Int  BY <1>4
<1>8. \/ turn.step <= Heard(q)
      \/ turn.step > Heard(q)
  BY <1>7
<1>. QED  BY <1>5, <1>6, <1>8

-----------------------------------------------------------------------------
(* Before the first turn.                                                  *)
LEMMA SubGameInit == Init => SubGameInv
<1>. SUFFICES ASSUME Init PROVE SubGameInv  OBVIOUS
<1>. USE DEF Init
<1>1. \A p \in Peer : /\ inbox[p] = EmptyInbox /\ step[p] = 0 /\ pushed[p] = {}
                      /\ call[p] = None /\ reply[p] = None /\ outcome[p] = "NONE"
                      /\ blocked[p] = {} /\ pending[p] = None /\ audit[p] = None
                      /\ cell[p] \in Cells
  BY BoardFacts
<1>2. /\ EmptyInbox \in Inboxes /\ EmptyInbox.expected = 1 /\ EmptyInbox.arrived = FALSE
      /\ EmptyInbox.ready = <<>> /\ EmptyInbox.played = {}
  BY DEF EmptyInbox, Inboxes
<1>3. \A p \in Peer : Heard(p) = 0 /\ Taken(p) = 0  BY <1>1, <1>2 DEF Heard, Taken
<1>4. pc[Thief] = "turn" /\ pc[Police] = "awaitTurn"  BY PeerFacts
<1>5. TypeOK  BY <1>1, <1>2, BoardFacts DEF TypeOK, InPlay, Outcomes
<1>6. ASSUME NEW p \in Peer PROVE HistoryLink(p) /\ InboxLink(p) /\ CallLink(p)
  <2>1. HistoryLink(p)  BY <1>1 DEF HistoryLink
  <2>2. InboxLink(p)  BY <1>1, <1>2, <1>3, PeerFacts DEF InboxLink
  <2>3. CallLink(p)
    <3>1. pc[p] \notin Calling /\ pc[p] \notin {"awaitAudit", "done", "auditSent"}
      BY <1>4, PeerFacts DEF Calling
    <3>2. None \notin Turns /\ None \notin Audits  BY KindFacts
    <3>3. Heard(Other(p)) = step[p]  BY <1>1, <1>3, PeerFacts
    <3>. QED  BY <1>1, <3>1, <3>2, <3>3 DEF CallLink
  <2>. QED  BY <2>1, <2>2, <2>3
<1>7. CountLink  BY <1>1, <1>3, <1>4, PeerFacts DEF CountLink, Over
<1>8. BoardLink /\ AnswerLink /\ MetLink
  BY <1>1, <1>3, PeerFacts DEF BoardLink, AnswerLink, MetLink
<1>9. PoliceEnd  BY <1>1, <1>3, <1>4, PeerFacts DEF PoliceEnd, Over
<1>10. ThiefEnd
  <2>1. ~Walled  BY <1>1, FreeAtFirst, PeerFacts DEF Walled
  <2>2. ~Says([answer |-> pending[Thief]], TRUE)  BY <1>1, PeerFacts DEF Says
  <2>3. /\ step[Thief] = 0 /\ Taken(Thief) = 0 /\ pc[Thief] = "turn" /\ outcome[Thief] = "NONE"
        /\ pc[Thief] \notin Over
    BY <1>1, <1>3, <1>4, PeerFacts DEF Over
  <2>. HIDE DEF Init
  <2>4. pc[Thief] = "turn" => ~Says([answer |-> pending[Thief]], TRUE)  BY <2>2
  <2>5. ~(step[Thief] = Taken(Thief) + 1)  BY <2>3
  <2>6. /\ step[Thief] <= SurvivalThreshold /\ step[Thief] < SurvivalThreshold  BY <2>3, BoardFacts
  <2>. QED  BY <2>1, <2>3, <2>4, <2>5, <2>6 DEF ThiefEnd
<1>11. CauseLink  BY <1>1, <1>4, PeerFacts, KindFacts DEF CauseLink
<1>. QED  BY <1>5, <1>6, <1>7, <1>8, <1>9, <1>10, <1>11 DEF SubGameInv

-----------------------------------------------------------------------------
(* Steps of the control alone: a loop that ended goes on towards its       *)
(* return, or a loop fails, and nothing of the game changes.               *)
Ending == {"disclose", "auditSent", "awaitAudit", "done"}

GoesOn(p, label) ==
  \/ label = "failed"
  \/ pc[p] \in Over \ {"settle"} /\ label \in Ending
  \/ p = Police /\ pc[p] = "settle" /\ label \in Ending

GameStays == UNCHANGED <<play, inbox, outcome, pushed>> /\ causes \subseteq causes'

Control == pc' = pc \/ \E p \in Peer : \E label \in Ending \cup {"failed"} : GoesOn(p, label) /\ Goto(p, label)

LEMMA ControlKeeps ==
  ASSUME SubGameInv, GameStays, Control
  PROVE  /\ \A p \in Peer : HistoryLink(p)' /\ InboxLink(p)'
         /\ CountLink' /\ BoardLink' /\ AnswerLink' /\ PoliceEnd' /\ ThiefEnd' /\ MetLink'
<1>. USE DEF SubGameInv
<1>1. /\ cell' = cell /\ blocked' = blocked /\ step' = step /\ pending' = pending
      /\ inbox' = inbox /\ outcome' = outcome /\ pushed' = pushed
  BY DEF GameStays, play
<1>2. ASSUME NEW p \in Peer PROVE HistoryLink(p)'
  <2>1. HistoryLink(p)  OBVIOUS
  <2>. QED  BY <1>1, <2>1 DEF HistoryLink
<1>3. \A p \in Peer : Heard(p)' = Heard(p) /\ Taken(p)' = Taken(p)  BY <1>1 DEF Heard, Taken
<1>4. \A p \in Peer : InboxLink(p)'  BY <1>1, <1>3 DEF InboxLink
<1>5. BoardLink'  BY <1>1, <1>3, PeerFacts DEF BoardLink
<1>6. MetLink'  BY <1>1 DEF MetLink
<1>7. \A p \in Peer :
        \/ pc'[p] = pc[p]
        \/ pc'[p] = "failed"
        \/ pc[p] \in Over /\ pc'[p] \in Ending /\ (p = Thief => pc[p] # "settle")
  <2>1. CASE pc' = pc  BY <2>1
  <2>2. CASE pc' # pc
    <3>1. PICK p \in Peer, label \in Ending \cup {"failed"} : GoesOn(p, label) /\ Goto(p, label)
      BY <2>2 DEF Control
    <3>2. pc'[p] = label /\ \A r \in Peer : r # p => pc'[r] = pc[r]
      BY <3>1 DEF Goto, TypeOK
    <3>3. \/ label = "failed"
          \/ pc[p] \in Over /\ label \in Ending /\ (p = Thief => pc[p] # "settle")
      BY <3>1, PeerFacts DEF GoesOn, Over
    <3>. QED  BY <3>2, <3>3
  <2>. QED  BY <2>1, <2>2
<1>8. CountLink'  BY <1>1, <1>3, <1>7, PeerFacts DEF CountLink, Over, Ending
<1>9. AnswerLink'
  <2>1. pc'[Thief] \in {"turn", "settle"} => pc[Thief] \in {"turn", "settle"}
    BY <1>7, PeerFacts DEF Ending
  <2>. QED  BY <1>1, <2>1 DEF AnswerLink, AnswersClaim
<1>10. PoliceEnd'
  <2>1. /\ pc'[Police] \in InPlay => pc[Police] \in InPlay
        /\ pc'[Police] \in Over => pc[Police] \in Over
        /\ pc'[Police] # "finalSent"
    BY <1>7, PeerFacts DEF Ending, InPlay, Over, PoliceEnd
  <2>2. \A s, end : Said(s, end)' <=> Said(s, end)  BY <1>1 DEF Said
  <2>. QED  BY <1>1, <1>3, <2>1, <2>2, PeerFacts DEF PoliceEnd
<1>11. ThiefEnd'
  <2>1. /\ pc'[Thief] \in InPlay => pc[Thief] \in InPlay
        /\ pc'[Thief] \in Over => pc[Thief] \in Over
        /\ \A label \in {"turn", "awaitTurn", "settle"} : pc'[Thief] = label => pc[Thief] = label
    BY <1>7, PeerFacts DEF Ending, InPlay, Over
  <2>2. Walled' = Walled  BY <1>1 DEF Walled
  <2>3. causes \subseteq causes'  BY DEF GameStays
  <2>. QED  BY <1>1, <1>3, <2>1, <2>2, <2>3, PeerFacts DEF ThiefEnd
<1>. QED  BY <1>2, <1>4, <1>5, <1>6, <1>8, <1>9, <1>10, <1>11

(* The types of what a step of the control may change.                     *)
LEMMA ControlTypes ==
  ASSUME SubGameInv, GameStays, Control,
         audit' \in [Peer -> {None} \cup Audits],
         call' \in [Peer -> {None} \cup Turns \cup Audits],
         reply' \in [Peer -> {None, Ok, Error}]
  PROVE  TypeOK'
<1>1. pc' \in [Peer -> InPlay \cup Over \cup {"failed"}]
  BY DEF SubGameInv, TypeOK, Control, Goto, Ending, Over
<1>. QED  BY <1>1 DEF SubGameInv, TypeOK, GameStays, play

(* A step of the control keeps the invariant when it keeps the shape of    *)
(* the calls, and has a cause for what it fails.                           *)
LEMMA ControlStep ==
  ASSUME SubGameInv, GameStays, Control, TypeOK',
         \A p \in Peer : CallLink(p)', CauseLink'
  PROVE  SubGameInv'
  BY ControlKeeps DEF SubGameInv

(* Only p's own loop and its outstanding request change.                   *)
LEMMA OwnCallLink ==
  ASSUME SubGameInv, GameStays, NEW p \in Peer, CallLink(p)',
         pc' = [pc EXCEPT ![p] = pc'[p]], call' = [call EXCEPT ![p] = call'[p]],
         reply' = [reply EXCEPT ![p] = reply'[p]],
         \A r \in Peer : audit[r] # None => audit'[r] # None
  PROVE  \A r \in Peer : CallLink(r)'
<1>. SUFFICES ASSUME NEW r \in Peer, r # p PROVE CallLink(r)'  OBVIOUS
<1>1. pc'[r] = pc[r] /\ call'[r] = call[r] /\ reply'[r] = reply[r]
  BY DEF SubGameInv, TypeOK
<1>2. pushed' = pushed /\ step' = step /\ Heard(Other(r))' = Heard(Other(r))
  BY DEF GameStays, play, Heard
<1>3. CallLink(r) /\ Other(r) \in Peer  BY PeerFacts DEF SubGameInv
<1>. QED  BY <1>1, <1>2, <1>3 DEF CallLink

(* No lawful action.                                                       *)
LEMMA KeepsNoAction ==
  ASSUME SubGameInv, NEW p \in Peer, NoAction(p)
  PROVE  SubGameInv'
<1>. USE DEF NoAction
<1>0. /\ pc \in [Peer -> InPlay \cup Over \cup {"failed"}] /\ audit \in [Peer -> {None} \cup Audits]
      /\ call \in [Peer -> {None} \cup Turns \cup Audits] /\ reply \in [Peer -> {None, Ok, Error}]
      /\ CallLink(p) /\ CauseLink
  BY DEF SubGameInv, TypeOK
<1>1. GameStays  BY DEF GameStays, play, network
<1>2. Control
  <2>1. GoesOn(p, "failed")  BY DEF GoesOn
  <2>2. Goto(p, "failed")  OBVIOUS
  <2>. QED  BY <2>1, <2>2 DEF Control, Ending
<1>3. TypeOK'
  <2>1. audit' = audit /\ call' = call /\ reply' = reply  BY DEF network
  <2>. QED  BY <1>0, <1>1, <1>2, <2>1, ControlTypes
<1>4. pushed' = pushed /\ step' = step /\ Heard(Other(p))' = Heard(Other(p))
  BY <1>1 DEF GameStays, play, Heard
<1>5. \A r \in Peer : CallLink(r)'
  <2>1. pc' = [pc EXCEPT ![p] = pc'[p]] /\ call' = call /\ reply' = reply /\ audit' = audit
    BY <1>0 DEF Goto, network
  <2>2. CallLink(p)'
    BY <1>0, <1>4, <2>1, KindFacts DEF Goto, CallLink, Calling, Acked
  <2>. QED  BY <1>0, <1>1, <2>1, <2>2, OwnCallLink
<1>6. CauseLink'
  <2>1. causes' # {}
    OBVIOUS
  <2>. QED  BY <2>1 DEF CauseLink
<1>. QED  BY <1>1, <1>2, <1>3, <1>5, <1>6, ControlStep

(* The last STAY is refused.                                               *)
LEMMA KeepsFinalRefused ==
  ASSUME SubGameInv, NEW p \in Peer, FinalRefused(p)
  PROVE  SubGameInv'
<1>. USE DEF FinalRefused
<1>0. /\ pc \in [Peer -> InPlay \cup Over \cup {"failed"}] /\ audit \in [Peer -> {None} \cup Audits]
      /\ call \in [Peer -> {None} \cup Turns \cup Audits] /\ reply \in [Peer -> {None, Ok, Error}]
      /\ CallLink(p) /\ CauseLink
  BY DEF SubGameInv, TypeOK
<1>1. GameStays  BY DEF GameStays, play, network
<1>2. Control
  <2>1. GoesOn(p, "failed")  BY DEF GoesOn
  <2>2. Goto(p, "failed")  OBVIOUS
  <2>. QED  BY <2>1, <2>2 DEF Control, Ending
<1>3. TypeOK'
  <2>1. audit' = audit /\ call' = call /\ reply' = reply  BY DEF network
  <2>. QED  BY <1>0, <1>1, <1>2, <2>1, ControlTypes
<1>4. pushed' = pushed /\ step' = step /\ Heard(Other(p))' = Heard(Other(p))
  BY <1>1 DEF GameStays, play, Heard
<1>5. \A r \in Peer : CallLink(r)'
  <2>1. pc' = [pc EXCEPT ![p] = pc'[p]] /\ call' = call /\ reply' = reply /\ audit' = audit
    BY <1>0 DEF Goto, network
  <2>2. CallLink(p)'
    BY <1>0, <1>4, <2>1, KindFacts DEF Goto, CallLink, Calling, Acked
  <2>. QED  BY <1>0, <1>1, <2>1, <2>2, OwnCallLink
<1>6. CauseLink'
  <2>1. causes' # {}
    OBVIOUS
  <2>. QED  BY <2>1 DEF CauseLink
<1>. QED  BY <1>1, <1>2, <1>3, <1>5, <1>6, ControlStep

(* The police owes nothing when the game has ended.                        *)
LEMMA KeepsSettleSilently ==
  ASSUME SubGameInv, NEW p \in Peer, SettleSilently(p)
  PROVE  SubGameInv'
<1>. USE DEF SettleSilently
<1>0. /\ pc \in [Peer -> InPlay \cup Over \cup {"failed"}] /\ audit \in [Peer -> {None} \cup Audits]
      /\ call \in [Peer -> {None} \cup Turns \cup Audits] /\ reply \in [Peer -> {None, Ok, Error}]
      /\ CallLink(p) /\ CauseLink
  BY DEF SubGameInv, TypeOK
<1>1. GameStays  BY DEF GameStays, play, network
<1>2. Control
  <2>1. p = Police
    <3>1. SUFFICES ASSUME p = Thief PROVE FALSE  BY PeerFacts
    <3>2. step[Thief] < SurvivalThreshold  BY <3>1 DEF SubGameInv, ThiefEnd
    <3>3. Owes(p)  BY <3>1, <3>2, BoardFacts, PeerFacts DEF Owes, SubGameInv, TypeOK
    <3>. QED  BY <3>3
  <2>2. GoesOn(p, "disclose")  BY <2>1 DEF GoesOn, Ending
  <2>3. Goto(p, "disclose")  OBVIOUS
  <2>. QED  BY <2>2, <2>3 DEF Control, Ending
<1>3. TypeOK'
  <2>1. audit' = audit /\ call' = call /\ reply' = reply  BY DEF network
  <2>. QED  BY <1>0, <1>1, <1>2, <2>1, ControlTypes
<1>4. pushed' = pushed /\ step' = step /\ Heard(Other(p))' = Heard(Other(p))
  BY <1>1 DEF GameStays, play, Heard
<1>5. \A r \in Peer : CallLink(r)'
  <2>1. pc' = [pc EXCEPT ![p] = pc'[p]] /\ call' = call /\ reply' = reply /\ audit' = audit
    BY <1>0 DEF Goto, network
  <2>2. p = Police
    <3>1. SUFFICES ASSUME p = Thief PROVE FALSE  BY PeerFacts
    <3>2. step[Thief] < SurvivalThreshold  BY <3>1 DEF SubGameInv, ThiefEnd
    <3>. QED  BY <3>1, <3>2, BoardFacts, PeerFacts DEF Owes, SubGameInv, TypeOK
  <2>3. Heard(Other(p)) = step[p]
    <3>1. Taken(Police) = step[Police] + 1  BY <2>2 DEF SubGameInv, CountLink, Over
    <3>. QED  BY <2>2, <3>1, Counts, PeerFacts
  <2>4. CallLink(p)'
    BY <1>0, <1>4, <2>1, <2>3, KindFacts DEF Goto, CallLink, Calling, Acked
  <2>. QED  BY <1>0, <1>1, <2>1, <2>4, OwnCallLink
<1>6. CauseLink'
  <2>1. reply' = reply /\ pc'[p] # "failed" /\ (\A r \in Peer : r # p => pc'[r] = pc[r])
    BY <1>0 DEF Goto, network
  <2>. QED  BY <1>0, <1>1, <2>1 DEF CauseLink, GameStays
<1>. QED  BY <1>1, <1>2, <1>3, <1>5, <1>6, ControlStep

(* The forced last turn was acknowledged.                                  *)
LEMMA KeepsFinalAnswered ==
  ASSUME SubGameInv, NEW p \in Peer, FinalAnswered(p)
  PROVE  SubGameInv'
<1>. USE DEF FinalAnswered
<1>0. /\ pc \in [Peer -> InPlay \cup Over \cup {"failed"}] /\ audit \in [Peer -> {None} \cup Audits]
      /\ call \in [Peer -> {None} \cup Turns \cup Audits] /\ reply \in [Peer -> {None, Ok, Error}]
      /\ CallLink(p) /\ CauseLink
  BY DEF SubGameInv, TypeOK
<1>1. GameStays  BY DEF GameStays, play, network
<1>2. Control
  <2>1. GoesOn(p, "disclose")  BY DEF GoesOn, Over, Ending
  <2>2. Goto(p, "disclose")  OBVIOUS
  <2>. QED  BY <2>1, <2>2 DEF Control, Ending
<1>3. TypeOK'
  <2>1. audit' = audit /\ call' = call  OBVIOUS
  <2>2. reply' \in [Peer -> {None, Ok, Error}]  BY <1>0
  <2>. QED  BY <1>0, <1>1, <1>2, <2>1, <2>2, ControlTypes
<1>4. pushed' = pushed /\ step' = step /\ Heard(Other(p))' = Heard(Other(p))
  BY <1>1 DEF GameStays, play, Heard
<1>5. \A r \in Peer : CallLink(r)'
  <2>1. /\ pc' = [pc EXCEPT ![p] = pc'[p]] /\ call' = [call EXCEPT ![p] = call'[p]]
        /\ reply' = [reply EXCEPT ![p] = reply'[p]] /\ audit' = audit
    BY <1>0 DEF Goto
  <2>2. reply'[p] = None /\ call'[p] = call[p] /\ call[p] = None  BY <1>0, KindFacts DEF CallLink
  <2>3. CallLink(p)'
    BY <1>0, <1>4, <2>1, <2>2, KindFacts DEF Goto, CallLink, Calling, Acked
  <2>. QED  BY <1>0, <1>1, <2>1, <2>3, OwnCallLink
<1>6. CauseLink'
  <2>1. /\ pc'[p] # "failed" /\ (\A r \in Peer : r # p => pc'[r] = pc[r])
        /\ reply'[p] = None /\ (\A r \in Peer : r # p => reply'[r] = reply[r])
    BY <1>0 DEF Goto
  <2>. QED  BY <1>0, <1>1, <2>1, KindFacts DEF CauseLink, GameStays
<1>. QED  BY <1>1, <1>2, <1>3, <1>5, <1>6, ControlStep

(* The disclosure is sent.                                                 *)
LEMMA KeepsDisclose ==
  ASSUME SubGameInv, NEW p \in Peer, Disclose(p)
  PROVE  SubGameInv'
<1>. USE DEF Disclose
<1>0. /\ pc \in [Peer -> InPlay \cup Over \cup {"failed"}] /\ audit \in [Peer -> {None} \cup Audits]
      /\ call \in [Peer -> {None} \cup Turns \cup Audits] /\ reply \in [Peer -> {None, Ok, Error}]
      /\ CallLink(p) /\ CauseLink
  BY DEF SubGameInv, TypeOK
<1>1. GameStays  BY DEF GameStays, play, network
<1>2. Control
  <2>1. GoesOn(p, "auditSent")  BY DEF GoesOn, Over, Ending
  <2>2. Goto(p, "auditSent")  OBVIOUS
  <2>. QED  BY <2>1, <2>2 DEF Control, Ending
<1>3. TypeOK'
  <2>1. audit' = audit /\ reply' = reply  OBVIOUS
  <2>2. Disclosure(p) \in Audits  BY DEF Disclosure, Audits, SubGameInv, TypeOK
  <2>3. call' \in [Peer -> {None} \cup Turns \cup Audits]  BY <1>0, <2>2
  <2>. QED  BY <1>0, <1>1, <1>2, <2>1, <2>3, ControlTypes
<1>4. pushed' = pushed /\ step' = step /\ Heard(Other(p))' = Heard(Other(p))
  BY <1>1 DEF GameStays, play, Heard
<1>5. \A r \in Peer : CallLink(r)'
  <2>1. /\ pc' = [pc EXCEPT ![p] = pc'[p]] /\ call' = [call EXCEPT ![p] = call'[p]]
        /\ reply' = [reply EXCEPT ![p] = reply'[p]] /\ audit' = audit
    BY <1>0 DEF Goto
  <2>2. Disclosure(p) \in Audits  BY DEF Disclosure, Audits, SubGameInv, TypeOK
  <2>3. reply'[p] = None /\ call'[p] = Disclosure(p) /\ pc'[p] = "auditSent"
    BY <1>0 DEF Goto, CallLink, Calling
  <2>4. CallLink(p)'
    <3>1. call'[p] # None /\ call'[p] \notin Turns  BY <2>2, <2>3, KindFacts
    <3>2. Heard(Other(p)) = step[p]  BY <1>0 DEF CallLink, Acked
    <3>. QED  BY <1>4, <2>3, <3>1, <3>2, KindFacts DEF CallLink, Calling
  <2>. QED  BY <1>0, <1>1, <2>1, <2>4, OwnCallLink
<1>6. CauseLink'
  <2>1. reply' = reply /\ pc'[p] # "failed" /\ (\A r \in Peer : r # p => pc'[r] = pc[r])
    BY <1>0 DEF Goto, network
  <2>. QED  BY <1>0, <1>1, <2>1 DEF CauseLink, GameStays
<1>. QED  BY <1>1, <1>2, <1>3, <1>5, <1>6, ControlStep

(* ... and acknowledged.                                                   *)
LEMMA KeepsAuditAnswered ==
  ASSUME SubGameInv, NEW p \in Peer, AuditAnswered(p)
  PROVE  SubGameInv'
<1>. USE DEF AuditAnswered
<1>0. /\ pc \in [Peer -> InPlay \cup Over \cup {"failed"}] /\ audit \in [Peer -> {None} \cup Audits]
      /\ call \in [Peer -> {None} \cup Turns \cup Audits] /\ reply \in [Peer -> {None, Ok, Error}]
      /\ CallLink(p) /\ CauseLink
  BY DEF SubGameInv, TypeOK
<1>1. GameStays  BY DEF GameStays, play, network
<1>2. Control
  <2>1. GoesOn(p, "awaitAudit")  BY DEF GoesOn, Over, Ending
  <2>2. Goto(p, "awaitAudit")  OBVIOUS
  <2>. QED  BY <2>1, <2>2 DEF Control, Ending
<1>3. TypeOK'
  <2>1. audit' = audit /\ call' = call  OBVIOUS
  <2>2. reply' \in [Peer -> {None, Ok, Error}]  BY <1>0
  <2>. QED  BY <1>0, <1>1, <1>2, <2>1, <2>2, ControlTypes
<1>4. pushed' = pushed /\ step' = step /\ Heard(Other(p))' = Heard(Other(p))
  BY <1>1 DEF GameStays, play, Heard
<1>5. \A r \in Peer : CallLink(r)'
  <2>1. /\ pc' = [pc EXCEPT ![p] = pc'[p]] /\ call' = [call EXCEPT ![p] = call'[p]]
        /\ reply' = [reply EXCEPT ![p] = reply'[p]] /\ audit' = audit
    BY <1>0 DEF Goto
  <2>2. reply'[p] = None /\ call'[p] = call[p] /\ call[p] = None  BY <1>0, KindFacts DEF CallLink
  <2>3. CallLink(p)'
    BY <1>0, <1>4, <2>1, <2>2, KindFacts DEF Goto, CallLink, Calling, Acked
  <2>. QED  BY <1>0, <1>1, <2>1, <2>3, OwnCallLink
<1>6. CauseLink'
  <2>1. /\ pc'[p] # "failed" /\ (\A r \in Peer : r # p => pc'[r] = pc[r])
        /\ reply'[p] = None /\ (\A r \in Peer : r # p => reply'[r] = reply[r])
    BY <1>0 DEF Goto
  <2>. QED  BY <1>0, <1>1, <2>1, KindFacts DEF CauseLink, GameStays
<1>. QED  BY <1>1, <1>2, <1>3, <1>5, <1>6, ControlStep

(* The sub-game returns.                                                   *)
LEMMA KeepsReturn ==
  ASSUME SubGameInv, NEW p \in Peer, Return(p)
  PROVE  SubGameInv'
<1>. USE DEF Return
<1>0. /\ pc \in [Peer -> InPlay \cup Over \cup {"failed"}] /\ audit \in [Peer -> {None} \cup Audits]
      /\ call \in [Peer -> {None} \cup Turns \cup Audits] /\ reply \in [Peer -> {None, Ok, Error}]
      /\ CallLink(p) /\ CauseLink
  BY DEF SubGameInv, TypeOK
<1>1. GameStays  BY DEF GameStays, play, network
<1>2. Control
  <2>1. GoesOn(p, "done")  BY DEF GoesOn, Over, Ending
  <2>2. Goto(p, "done")  OBVIOUS
  <2>. QED  BY <2>1, <2>2 DEF Control, Ending
<1>3. TypeOK'
  <2>1. audit' = audit /\ call' = call /\ reply' = reply  BY DEF network
  <2>. QED  BY <1>0, <1>1, <1>2, <2>1, ControlTypes
<1>4. pushed' = pushed /\ step' = step /\ Heard(Other(p))' = Heard(Other(p))
  BY <1>1 DEF GameStays, play, Heard
<1>5. \A r \in Peer : CallLink(r)'
  <2>1. pc' = [pc EXCEPT ![p] = pc'[p]] /\ call' = call /\ reply' = reply /\ audit' = audit
    BY <1>0 DEF Goto, network
  <2>2. CallLink(p)'
    BY <1>0, <1>4, <2>1, KindFacts DEF Goto, CallLink, Calling, Acked
  <2>. QED  BY <1>0, <1>1, <2>1, <2>2, OwnCallLink
<1>6. CauseLink'
  <2>1. reply' = reply /\ pc'[p] # "failed" /\ (\A r \in Peer : r # p => pc'[r] = pc[r])
    BY <1>0 DEF Goto, network
  <2>. QED  BY <1>0, <1>1, <2>1 DEF CauseLink, GameStays
<1>. QED  BY <1>1, <1>2, <1>3, <1>5, <1>6, ControlStep

(* A request that failed leaves the loop.                                  *)
LEMMA KeepsSendFailed ==
  ASSUME SubGameInv, NEW p \in Peer, SendFailed(p)
  PROVE  SubGameInv'
<1>. USE DEF SendFailed
<1>0. /\ pc \in [Peer -> InPlay \cup Over \cup {"failed"}] /\ audit \in [Peer -> {None} \cup Audits]
      /\ call \in [Peer -> {None} \cup Turns \cup Audits] /\ reply \in [Peer -> {None, Ok, Error}]
      /\ CallLink(p) /\ CauseLink
  BY DEF SubGameInv, TypeOK
<1>1. GameStays  BY DEF GameStays, play, network
<1>2. Control
  <2>1. GoesOn(p, "failed")  BY DEF GoesOn
  <2>2. Goto(p, "failed")  OBVIOUS
  <2>. QED  BY <2>1, <2>2 DEF Control, Ending
<1>3. TypeOK'
  <2>1. audit' = audit /\ call' = call  OBVIOUS
  <2>2. reply' \in [Peer -> {None, Ok, Error}]  BY <1>0
  <2>. QED  BY <1>0, <1>1, <1>2, <2>1, <2>2, ControlTypes
<1>4. pushed' = pushed /\ step' = step /\ Heard(Other(p))' = Heard(Other(p))
  BY <1>1 DEF GameStays, play, Heard
<1>5. \A r \in Peer : CallLink(r)'
  <2>1. /\ pc' = [pc EXCEPT ![p] = pc'[p]] /\ call' = [call EXCEPT ![p] = call'[p]]
        /\ reply' = [reply EXCEPT ![p] = reply'[p]] /\ audit' = audit
    BY <1>0 DEF Goto
  <2>2. reply'[p] = None /\ call'[p] = call[p] /\ call[p] = None  BY <1>0, KindFacts DEF CallLink
  <2>3. CallLink(p)'
    BY <1>0, <1>4, <2>1, <2>2, KindFacts DEF Goto, CallLink, Calling, Acked
  <2>. QED  BY <1>0, <1>1, <2>1, <2>3, OwnCallLink
<1>6. CauseLink'
  <2>1. causes' # {}
    BY <1>0 DEF CauseLink
  <2>. QED  BY <2>1 DEF CauseLink
<1>. QED  BY <1>1, <1>2, <1>3, <1>5, <1>6, ControlStep

(* A disclosure comes in.                                                  *)
LEMMA KeepsDeliverAudit ==
  ASSUME SubGameInv, NEW p \in Peer, DeliverAudit(p)
  PROVE  SubGameInv'
<1>. USE DEF DeliverAudit
<1>0. /\ pc \in [Peer -> InPlay \cup Over \cup {"failed"}] /\ audit \in [Peer -> {None} \cup Audits]
      /\ call \in [Peer -> {None} \cup Turns \cup Audits] /\ reply \in [Peer -> {None, Ok, Error}]
      /\ CallLink(p) /\ CauseLink
  BY DEF SubGameInv, TypeOK
<1>1. GameStays  BY DEF GameStays, play, network, Served
<1>2. Control
  BY DEF Control
<1>3. TypeOK'
  <2>1. call[p] \in Audits  BY <1>0, KindFacts DEF Turns
  <2>. QED  BY <1>0, <1>1, <1>2, <2>1, PeerFacts, ControlTypes DEF Served
<1>4. pushed' = pushed /\ step' = step /\ Heard(Other(p))' = Heard(Other(p))
  BY <1>1 DEF GameStays, play, Heard
<1>5. \A r \in Peer : CallLink(r)'
  <2>1. call[p] \in Audits /\ call[p] # None  BY <1>0, KindFacts DEF Turns
  <2>2. /\ pc' = [pc EXCEPT ![p] = pc'[p]] /\ call' = [call EXCEPT ![p] = call'[p]]
        /\ reply' = [reply EXCEPT ![p] = reply'[p]]
    BY <1>0 DEF Served
  <2>3. /\ audit'[Other(p)] # None
        /\ \A r \in Peer : audit[r] # None => audit'[r] # None
    BY <1>0, <2>1, PeerFacts
  <2>4. reply'[p] = Ok /\ call'[p] = None /\ pc'[p] = "auditSent" /\ pc[p] = "auditSent"
    BY <1>0, <2>1 DEF Served, CallLink
  <2>5. CallLink(p)'
    BY <1>0, <1>4, <2>3, <2>4, KindFacts DEF CallLink, Calling, Acked
  <2>. QED  BY <1>0, <1>1, <2>2, <2>3, <2>5, OwnCallLink
<1>6. CauseLink'
  <2>1. pc' = pc /\ reply'[p] = Ok /\ (\A r \in Peer : r # p => reply'[r] = reply[r])
    BY <1>0 DEF Served
  <2>. QED  BY <1>0, <1>1, <2>1, KindFacts DEF CauseLink, GameStays
<1>. QED  BY <1>1, <1>2, <1>3, <1>5, <1>6, ControlStep

(* A request is lost.                                                      *)
LEMMA KeepsLoseCall ==
  ASSUME SubGameInv, NEW p \in Peer, LoseCall(p)
  PROVE  SubGameInv'
<1>. USE DEF LoseCall
<1>0. /\ pc \in [Peer -> InPlay \cup Over \cup {"failed"}] /\ audit \in [Peer -> {None} \cup Audits]
      /\ call \in [Peer -> {None} \cup Turns \cup Audits] /\ reply \in [Peer -> {None, Ok, Error}]
      /\ CallLink(p) /\ CauseLink
  BY DEF SubGameInv, TypeOK
<1>1. GameStays  BY DEF GameStays, play, network, Served, Lost
<1>2. Control
  BY DEF Control
<1>3. TypeOK'
  BY <1>0, <1>1, <1>2, PeerFacts, ControlTypes DEF Served
<1>4. pushed' = pushed /\ step' = step /\ Heard(Other(p))' = Heard(Other(p))
  BY <1>1 DEF GameStays, play, Heard
<1>5. \A r \in Peer : CallLink(r)'
  <2>1. /\ pc' = [pc EXCEPT ![p] = pc'[p]] /\ call' = [call EXCEPT ![p] = call'[p]]
        /\ reply' = [reply EXCEPT ![p] = reply'[p]] /\ audit' = audit
    BY <1>0 DEF Served
  <2>2. reply'[p] = Error /\ call'[p] = None /\ pc'[p] = pc[p]  BY <1>0 DEF Served
  <2>3. CallLink(p)'
    BY <1>0, <1>4, <2>1, <2>2, KindFacts DEF CallLink, Calling, Acked
  <2>. QED  BY <1>0, <1>1, <2>1, <2>3, OwnCallLink
<1>6. CauseLink'
  <2>1. causes' # {}
    <3>1. pc[Other(p)] = "failed" => causes # {}  BY <1>0, PeerFacts DEF CauseLink
    <3>. QED  BY <3>1 DEF Lost
  <2>. QED  BY <2>1 DEF CauseLink
<1>. QED  BY <1>1, <1>2, <1>3, <1>5, <1>6, ControlStep

(* An acknowledgement is lost.                                             *)
LEMMA KeepsLoseReply ==
  ASSUME SubGameInv, NEW p \in Peer, LoseReply(p)
  PROVE  SubGameInv'
<1>. USE DEF LoseReply
<1>0. /\ pc \in [Peer -> InPlay \cup Over \cup {"failed"}] /\ audit \in [Peer -> {None} \cup Audits]
      /\ call \in [Peer -> {None} \cup Turns \cup Audits] /\ reply \in [Peer -> {None, Ok, Error}]
      /\ CallLink(p) /\ CauseLink
  BY DEF SubGameInv, TypeOK
<1>1. GameStays  BY DEF GameStays, play, network, Lost
<1>2. Control
  BY DEF Control
<1>3. TypeOK'
  BY <1>0, <1>1, <1>2, PeerFacts, ControlTypes
<1>4. pushed' = pushed /\ step' = step /\ Heard(Other(p))' = Heard(Other(p))
  BY <1>1 DEF GameStays, play, Heard
<1>5. \A r \in Peer : CallLink(r)'
  <2>1. /\ pc' = [pc EXCEPT ![p] = pc'[p]] /\ call' = [call EXCEPT ![p] = call'[p]]
        /\ reply' = [reply EXCEPT ![p] = reply'[p]] /\ audit' = audit
    BY <1>0
  <2>2. reply'[p] = Error /\ call'[p] = call[p] /\ pc'[p] = pc[p] /\ call[p] = None
    BY <1>0, KindFacts DEF CallLink
  <2>3. CallLink(p)'
    BY <1>0, <1>4, <2>1, <2>2, KindFacts DEF CallLink, Calling, Acked
  <2>. QED  BY <1>0, <1>1, <2>1, <2>3, OwnCallLink
<1>6. CauseLink'
  <2>1. causes' # {}
    <3>1. pc[Other(p)] = "failed" => causes # {}  BY <1>0, PeerFacts DEF CauseLink
    <3>. QED  BY <3>1 DEF Lost
  <2>. QED  BY <2>1 DEF CauseLink
<1>. QED  BY <1>1, <1>2, <1>3, <1>5, <1>6, ControlStep

(* A process dies.                                                        *)
LEMMA KeepsCrash ==
  ASSUME SubGameInv, NEW p \in Peer, Crash(p)
  PROVE  SubGameInv'
<1>. USE DEF Crash
<1>0. /\ pc \in [Peer -> InPlay \cup Over \cup {"failed"}] /\ audit \in [Peer -> {None} \cup Audits]
      /\ call \in [Peer -> {None} \cup Turns \cup Audits] /\ reply \in [Peer -> {None, Ok, Error}]
      /\ CallLink(p) /\ CauseLink
  BY DEF SubGameInv, TypeOK
<1>1. GameStays  BY DEF GameStays, play, network, Served
<1>2. Control
  <2>1. GoesOn(p, "failed")  BY DEF GoesOn
  <2>2. Goto(p, "failed")  OBVIOUS
  <2>. QED  BY <2>1, <2>2 DEF Control, Ending
<1>3. TypeOK'
  BY <1>0, <1>1, <1>2, PeerFacts, ControlTypes DEF Served
<1>4. pushed' = pushed /\ step' = step /\ Heard(Other(p))' = Heard(Other(p))
  BY <1>1 DEF GameStays, play, Heard
<1>5. \A r \in Peer : CallLink(r)'
  <2>1. /\ pc' = [pc EXCEPT ![p] = pc'[p]] /\ call' = [call EXCEPT ![p] = call'[p]]
        /\ reply' = [reply EXCEPT ![p] = reply'[p]] /\ audit' = audit
    BY <1>0 DEF Goto, Served
  <2>2. reply'[p] = None /\ call'[p] = None /\ pc'[p] = "failed"  BY <1>0 DEF Goto, Served
  <2>3. CallLink(p)'
    BY <1>4, <2>1, <2>2, KindFacts DEF CallLink, Calling, Acked
  <2>. QED  BY <1>0, <1>1, <2>1, <2>3, OwnCallLink
<1>6. CauseLink'
  <2>1. causes' # {}
    OBVIOUS
  <2>. QED  BY <2>1 DEF CauseLink
<1>. QED  BY <1>1, <1>2, <1>3, <1>5, <1>6, ControlStep

(* Two sides that both wait for nothing that is under way: a cause is on   *)
(* record, because the thief's end could not be said.                      *)
LEMMA SilenceHasCause ==
  ASSUME SubGameInv, NEW p \in Peer, pc[p] \in Suspended, ~Arrived(p),
         pc[Other(p)] # "failed", ~Runnable(Other(p)), call[Other(p)] = None
  PROVE  causes # {}
<1>. DEFINE q == Other(p)
<1>. USE DEF SubGameInv
<1>1. q \in Peer /\ Other(q) = p  BY PeerFacts
<1>2. reply[q] = None /\ ~Arrived(q) /\ pc[q] \notin Ready  BY DEF Runnable
<1>3. pc[q] \in {"awaitTurn", "awaitAudit", "done"}
  <2>1. pc[q] \notin Calling  BY <1>1, <1>2 DEF CallLink
  <2>2. pc[q] \in InPlay \cup Over  BY <1>1 DEF TypeOK
  <2>. QED  BY <1>2, <2>1, <2>2 DEF InPlay, Over, Calling, Ready
<1>4. pc[p] \in {"awaitTurn", "awaitAudit"}  BY DEF Suspended
<1>5. Heard(q) = step[p] /\ Heard(p) = step[q]  BY <1>1, <1>3, <1>4 DEF CallLink, Acked
<1>6. \A r \in Peer : pc[r] = "awaitTurn" /\ ~Arrived(r) => Taken(r) = Heard(r)
  BY DEF Arrived, Taken
<1>7. pc[p] = "awaitTurn" \/ pc[q] = "awaitTurn"
  <2>1. SUFFICES ASSUME pc[p] = "awaitAudit", pc[q] \in {"awaitAudit", "done"} PROVE FALSE
    BY <1>3, <1>4
  <2>2. audit[p] # None  BY <1>1, <2>1 DEF CallLink
  <2>. QED  BY <2>1, <2>2 DEF Arrived
<1>8. PICK r \in {Police, Thief} : pc[r] = "awaitTurn" /\ Taken(r) = Heard(r)
  BY <1>1, <1>2, <1>6, <1>7, PeerFacts
<1>9. Heard(Police) = step[Thief] /\ Heard(Thief) = step[Police]
  BY <1>1, <1>5, PeerFacts
<1>10. /\ pc[Police] \in {"awaitTurn", "awaitAudit", "done"}
       /\ pc[Thief] \in {"awaitTurn", "awaitAudit", "done"}
  BY <1>1, <1>3, <1>4, PeerFacts
<1>11. step[Thief] = Taken(Thief) + 1
  BY <1>10 DEF CountLink, Over
<1>12. CASE r = Police
  <2>1. Taken(Police) = step[Police] /\ Taken(Police) = step[Thief]
    BY <1>8, <1>9, <1>12 DEF CountLink
  <2>2. pc[Thief] # "awaitTurn"
    <3>1. SUFFICES ASSUME pc[Thief] = "awaitTurn" PROVE FALSE  OBVIOUS
    <3>2. Taken(Thief) = Heard(Thief)  BY <1>1, <1>2, <1>6, <3>1, PeerFacts
    <3>. QED  BY <1>9, <1>11, <2>1, <3>2, Counts, PeerFacts
  <2>3. pc[Thief] \in Over /\ outcome[Thief] # "NONE"  BY <1>10, <2>2 DEF Over, ThiefEnd
  <2>4. outcome[Police] = "NONE"  BY <1>8, <1>12 DEF PoliceEnd, InPlay
  <2>5. Taken(Police) > 0  BY <1>11, <2>1, Counts, PeerFacts
  <2>6. PICK turn \in pushed[Thief] : turn.step = step[Thief]
    <3>1. step[Thief] \in 1 .. step[Thief]  BY <2>1, <2>5, Counts, PeerFacts
    <3>. QED  BY <3>1, PeerFacts DEF HistoryLink
  <2>7. SaidBy(turn) = "NONE"  BY <2>1, <2>4, <2>5, <2>6 DEF PoliceEnd, Said
  <2>8. ~Says(turn, TRUE) /\ ~turn.survival  BY <2>7 DEF SaidBy
  <2>9. outcome[Thief] # "SURVIVAL"
    <3>1. turn.survival <=> Survived(Thief, turn.step)
      <4>1. HistoryLink(Thief)  BY PeerFacts
      <4>. HIDE DEF SubGameInv
      <4>. QED  BY <4>1 DEF HistoryLink
    <3>2. outcome[Thief] = "SURVIVAL" => step[Thief] = SurvivalThreshold  BY DEF ThiefEnd
    <3>. QED  BY <2>6, <2>8, <3>1, <3>2, BoardFacts DEF Survived
  <2>10. outcome[Thief] = "CAPTURE"  BY <2>3, <2>9, PeerFacts DEF TypeOK, Outcomes
  <2>. QED  BY <1>11, <2>6, <2>8, <2>10 DEF ThiefEnd
<1>13. CASE r = Thief
  <2>1. Taken(Thief) = step[Police] /\ step[Thief] = step[Police] + 1
    BY <1>8, <1>9, <1>11, <1>13
  <2>2. pc[Police] # "awaitTurn"
    <3>1. SUFFICES ASSUME pc[Police] = "awaitTurn" PROVE FALSE  OBVIOUS
    <3>2. Taken(Police) = Heard(Police)  BY <1>1, <1>2, <1>6, <3>1, PeerFacts
    <3>3. Taken(Police) = step[Police]  BY <3>1 DEF CountLink
    <3>. QED  BY <1>9, <2>1, <3>2, <3>3, Counts, PeerFacts
  <2>3. /\ outcome[Police] # "NONE" /\ Taken(Police) = step[Police] + 1
    BY <1>10, <2>2 DEF Over, PoliceEnd, CountLink
  <2>4. step[Thief] < SurvivalThreshold /\ outcome[Thief] = "NONE"
    BY <1>8, <1>13 DEF ThiefEnd, InPlay
  <2>5. PICK turn \in pushed[Thief] : turn.step = step[Thief]
    <3>1. step[Thief] \in 1 .. step[Thief]  BY <2>1, Counts, PeerFacts
    <3>. QED  BY <3>1, PeerFacts DEF HistoryLink
  <2>6. ~Says(turn, TRUE)  BY <1>11, <2>4, <2>5 DEF ThiefEnd
  <2>7. ~turn.survival
    <3>1. turn.survival <=> Survived(Thief, turn.step)
      <4>1. HistoryLink(Thief)  BY PeerFacts
      <4>. HIDE DEF SubGameInv
      <4>. QED  BY <4>1 DEF HistoryLink
    <3>. QED  BY <2>4, <2>5, <3>1, BoardFacts, Counts, PeerFacts DEF Survived
  <2>8. SaidBy(turn) = "NONE"  BY <2>6, <2>7 DEF SaidBy
  <2>9. Taken(Police) > 0 /\ Taken(Police) = step[Thief]  BY <2>1, <2>3, Counts, PeerFacts
  <2>10. outcome[Police] = "NONE"  BY <2>5, <2>8, <2>9 DEF PoliceEnd, Said
  <2>. QED  BY <2>3, <2>10
<1>. QED  BY <1>12, <1>13

(* A deadline passes.                                                      *)
LEMMA KeepsTimeout ==
  ASSUME SubGameInv, NEW p \in Peer, Timeout(p)
  PROVE  SubGameInv'
<1>. USE DEF Timeout
<1>0. /\ pc \in [Peer -> InPlay \cup Over \cup {"failed"}] /\ audit \in [Peer -> {None} \cup Audits]
      /\ call \in [Peer -> {None} \cup Turns \cup Audits] /\ reply \in [Peer -> {None, Ok, Error}]
      /\ CallLink(p) /\ CauseLink
  BY DEF SubGameInv, TypeOK
<1>1. GameStays  BY DEF GameStays, play, network
<1>2. Control
  <2>1. GoesOn(p, "failed")  BY DEF GoesOn
  <2>2. Goto(p, "failed")  OBVIOUS
  <2>. QED  BY <2>1, <2>2 DEF Control, Ending
<1>3. TypeOK'
  <2>1. audit' = audit /\ call' = call /\ reply' = reply  BY DEF network
  <2>. QED  BY <1>0, <1>1, <1>2, <2>1, ControlTypes
<1>4. pushed' = pushed /\ step' = step /\ Heard(Other(p))' = Heard(Other(p))
  BY <1>1 DEF GameStays, play, Heard
<1>5. \A r \in Peer : CallLink(r)'
  <2>1. pc' = [pc EXCEPT ![p] = pc'[p]] /\ call' = call /\ reply' = reply /\ audit' = audit
    BY <1>0 DEF Goto, network
  <2>2. CallLink(p)'
    BY <1>0, <1>4, <2>1, KindFacts DEF Goto, CallLink, Calling, Acked, Waiting, Suspended
  <2>. QED  BY <1>0, <1>1, <2>1, <2>2, OwnCallLink
<1>6. CauseLink'
  <2>1. causes' # {}
    <3>1. CASE pc[Other(p)] = "failed"
      BY <1>0, <1>1, <3>1, PeerFacts DEF CauseLink, GameStays
    <3>2. CASE pc[Other(p)] # "failed" /\ ~(Runnable(Other(p)) \/ call[Other(p)] # None)
      BY <1>1, <3>2, SilenceHasCause DEF Waiting, GameStays
    <3>3. CASE pc[Other(p)] # "failed" /\ (Runnable(Other(p)) \/ call[Other(p)] # None)
      BY <3>3
    <3>. QED  BY <3>1, <3>2, <3>3
  <2>. QED  BY <2>1 DEF CauseLink
<1>. QED  BY <1>1, <1>2, <1>3, <1>5, <1>6, ControlStep

-----------------------------------------------------------------------------
(* A turn comes in, from the call or as a copy: what p's peer holds grows  *)
(* by the turn it was waiting for or not at all.                           *)
LEMMA KeepsOffer ==
  ASSUME SubGameInv, NEW p \in Peer, NEW turn \in pushed[p],
         inbox' = [inbox EXCEPT ![Other(p)] = Offer(@, turn)],
         UNCHANGED <<pc, play, audit, outcome, pushed, causes>>,
         UNCHANGED network \/ (call[p] = turn /\ Served(p, Ok))
  PROVE  SubGameInv'
<1>. DEFINE q == Other(p)
            box == inbox[q]
<1>. USE DEF SubGameInv
<1>1. q \in Peer /\ q # p /\ Other(q) = p  BY PeerFacts
<1>2. /\ cell' = cell /\ blocked' = blocked /\ step' = step /\ pending' = pending /\ pc' = pc
      /\ audit' = audit /\ outcome' = outcome /\ pushed' = pushed /\ causes' = causes
  BY DEF play
<1>3. /\ inbox \in [Peer -> Inboxes] /\ turn \in Turns
      /\ inbox' = [inbox EXCEPT ![q] = Offer(box, turn)]
  BY DEF TypeOK
<1>4. /\ inbox'[q] = Offer(box, turn) /\ \A r \in Peer : r # q => inbox'[r] = inbox[r]
  BY <1>1, <1>3
<1>5. \/ turn.step <= Heard(q) /\ Offer(box, turn) = box
      \/ /\ turn.step = Heard(q) + 1 /\ turn.step = step[p]
         /\ box.arrived = FALSE
         /\ Offer(box, turn) =
              [expected |-> box.expected + 1, played |-> box.played \cup {turn},
               buffered |-> {}, ready |-> <<turn>>, accused |-> {}, arrived |-> TRUE]
  BY OfferFacts
<1>6. /\ box.expected \in Nat \ {0} /\ box.played \in SUBSET Turns /\ box \in Inboxes
      /\ Heard(q) = box.expected - 1 /\ step[p] \in Nat
  BY <1>1, <1>3, Counts DEF Inboxes, Heard
<1>7. Offer(box, turn) \in Inboxes
  <2>1. <<turn>> \in Seq(Turns)  BY <1>3
  <2>2. box.played \cup {turn} \in SUBSET Turns /\ box.expected + 1 \in Nat \ {0}  BY <1>3, <1>6
  <2>3. [expected |-> box.expected + 1, played |-> box.played \cup {turn}, buffered |-> {},
         ready |-> <<turn>>, accused |-> {}, arrived |-> TRUE] \in Inboxes
    BY <2>1, <2>2 DEF Inboxes
  <2>. QED  BY <1>5, <1>6, <2>3
<1>8. /\ Taken(q)' = Taken(q)
      /\ \/ Heard(q)' = Heard(q) /\ inbox'[q] = inbox[q] /\ turn.step <= Heard(q)
         \/ Heard(q)' = step[p] /\ Heard(q)' = Heard(q) + 1
  BY <1>4, <1>5, <1>6 DEF Heard, Taken
<1>9. \A r \in Peer : r # q => Heard(r)' = Heard(r) /\ Taken(r)' = Taken(r)
  BY <1>4 DEF Heard, Taken
<1>10. \A r \in Peer : Taken(r)' = Taken(r)  BY <1>8, <1>9
<1>11. TypeOK'
  <2>1. inbox' \in [Peer -> Inboxes]  BY <1>1, <1>3, <1>7
  <2>2. call' \in [Peer -> {None} \cup Turns \cup Audits] /\ reply' \in [Peer -> {None, Ok, Error}]
    BY DEF TypeOK, network, Served
  <2>. QED  BY <1>2, <2>1, <2>2 DEF TypeOK
<1>12. \A r \in Peer : HistoryLink(r)'
  <2>. SUFFICES ASSUME NEW r \in Peer PROVE HistoryLink(r)'  OBVIOUS
  <2>1. HistoryLink(r)  OBVIOUS
  <2>. HIDE DEF SubGameInv
  <2>. QED  BY <1>2, <2>1 DEF HistoryLink
<1>13. \A r \in Peer : InboxLink(r)'
  <2>1. ASSUME NEW r \in Peer, r # q PROVE InboxLink(r)'
    <3>1. InboxLink(r) /\ inbox'[r] = inbox[r] /\ Heard(r)' = Heard(r)  BY <1>4, <1>9, <2>1
    <3>. QED  BY <1>2, <3>1 DEF InboxLink
  <2>2. InboxLink(q)'
    <3>1. CASE Heard(q)' = Heard(q) /\ inbox'[q] = inbox[q]
      <4>1. InboxLink(q)  BY <1>1
      <4>. QED  BY <1>2, <3>1, <4>1 DEF InboxLink
    <3>2. CASE Heard(q)' = Heard(q) + 1
      <4>1. /\ turn.step = Heard(q) + 1 /\ turn.step = step[p]
            /\ inbox'[q] =
                 [expected |-> box.expected + 1, played |-> box.played \cup {turn},
                  buffered |-> {}, ready |-> <<turn>>, accused |-> {}, arrived |-> TRUE]
        BY <1>4, <1>5, <1>6, <3>2 DEF Heard
      <4>2. /\ inbox'[q].played = box.played \cup {turn} /\ inbox'[q].ready = <<turn>>
            /\ inbox'[q].arrived = TRUE
        BY <4>1
      <4>3. box.played = {t \in pushed[p] : t.step <= Heard(q)}  BY <1>1 DEF InboxLink
      <4>4. \A t \in pushed[p] : t.step \in Nat /\ (t.step = turn.step => t = turn)
        <5>1. HistoryLink(p)  OBVIOUS
        <5>2. \A t \in pushed[p] : t.step \in 1 .. step[p]  BY <5>1 DEF HistoryLink
        <5>3. \A t \in pushed[p] : t.step = turn.step => t = turn  BY <5>1 DEF HistoryLink
        <5>. QED  BY <1>6, <5>2, <5>3
      <4>5. inbox'[q].played = {t \in pushed[p] : t.step <= Heard(q)'}
        BY <1>6, <3>2, <4>1, <4>2, <4>3, <4>4
      <4>. QED  BY <1>1, <1>2, <3>2, <4>1, <4>2, <4>5 DEF InboxLink
    <3>. QED  BY <1>8, <3>1, <3>2
  <2>. QED  BY <2>1, <2>2
<1>14. \A r \in Peer : CallLink(r)'
  <2>1. ASSUME NEW r \in Peer PROVE Heard(Other(r)) = step[r] => Heard(Other(r))' = step[r]
    <3>1. CASE r = p
      <4>1. turn.step \in 1 .. step[p]  BY DEF HistoryLink
      <4>. QED  BY <1>6, <1>8, <3>1, <4>1
    <3>2. CASE r # p  BY <1>1, <1>9, <3>2, PeerFacts
    <3>. QED  BY <3>1, <3>2
  <2>2. CASE UNCHANGED network
    <3>. SUFFICES ASSUME NEW r \in Peer PROVE CallLink(r)'  OBVIOUS
    <3>1. CallLink(r) /\ call' = call /\ reply' = reply  BY <2>2 DEF network
    <3>. QED  BY <1>2, <2>1, <3>1 DEF CallLink
  <2>3. CASE call[p] = turn /\ Served(p, Ok)
    <3>1. /\ call'[p] = None /\ reply'[p] = Ok
          /\ \A r \in Peer : r # p => call'[r] = call[r] /\ reply'[r] = reply[r]
      BY <2>3 DEF Served, TypeOK
    <3>2. ASSUME NEW r \in Peer, r # p PROVE CallLink(r)'
      <4>1. CallLink(r) /\ call'[r] = call[r] /\ reply'[r] = reply[r]  BY <3>1, <3>2
      <4>. QED  BY <1>2, <2>1, <4>1 DEF CallLink
    <3>3. CallLink(p)'
      <4>1. CallLink(p) /\ call[p] # None /\ call[p] \in Turns  BY <1>3, <2>3, KindFacts
      <4>2. turn.step = step[p] /\ pc[p] \in {"turnSent", "finalSent"}
        BY <2>3, <4>1 DEF CallLink
      <4>3. Heard(q)' = step[p]
        <5>1. Heard(q) <= step[p]  BY <1>1, <1>6 DEF InboxLink
        <5>. QED  BY <1>6, <1>8, <4>2, <5>1
      <4>4. None \notin Turns /\ None \notin Audits  BY KindFacts
      <4>. QED  BY <1>2, <3>1, <4>1, <4>2, <4>3, <4>4, KindFacts DEF CallLink, Calling, Acked
    <3>. QED  BY <3>2, <3>3
  <2>. QED  BY <2>2, <2>3
<1>15. CountLink'  BY <1>2, <1>10, PeerFacts DEF CountLink
<1>16. BoardLink'  BY <1>2, <1>10, PeerFacts DEF BoardLink
<1>17. AnswerLink' /\ MetLink'  BY <1>2 DEF AnswerLink, AnswersClaim, MetLink
<1>18. PoliceEnd'
  <2>1. \A s, end : Said(s, end)' <=> Said(s, end)  BY <1>2 DEF Said
  <2>. QED  BY <1>2, <1>10, <2>1, PeerFacts DEF PoliceEnd
<1>19. ThiefEnd'
  <2>1. Walled' = Walled  BY <1>2 DEF Walled
  <2>. QED  BY <1>2, <1>10, <2>1, PeerFacts DEF ThiefEnd
<1>20. CauseLink'
  <2>1. \A r \in Peer : reply'[r] = Error => reply[r] = Error
    BY KindFacts DEF network, Served, TypeOK
  <2>. QED  BY <1>2, <2>1 DEF CauseLink
<1>. QED  BY <1>11, <1>12, <1>13, <1>14, <1>15, <1>16, <1>17, <1>18, <1>19, <1>20

LEMMA KeepsDeliverTurn ==
  ASSUME SubGameInv, NEW p \in Peer, DeliverTurn(p)
  PROVE  SubGameInv'
<1>1. call[p] \in Turns  BY KindFacts DEF DeliverTurn, SubGameInv, TypeOK
<1>2. call[p] \in pushed[p]  BY <1>1 DEF SubGameInv, CallLink
<1>3. ~Refuses(inbox[Other(p)], call[p])  BY <1>2, OfferFacts
<1>. QED  BY <1>2, <1>3, KeepsOffer DEF DeliverTurn

LEMMA KeepsDeliverCopy ==
  ASSUME SubGameInv, NEW p \in Peer, DeliverCopy(p)
  PROVE  SubGameInv'
  BY KeepsOffer DEF DeliverCopy

(* Our turn was acknowledged: only a thief that survived has ended.        *)
LEMMA KeepsTurnAnswered ==
  ASSUME SubGameInv, NEW p \in Peer, TurnAnswered(p)
  PROVE  SubGameInv'
<1>. USE DEF SubGameInv
<1>1. /\ pc[p] = "turnSent" /\ reply[p] = Ok /\ call[p] = None
      /\ call' = call /\ audit' = audit /\ causes' = causes
      /\ cell' = cell /\ blocked' = blocked /\ step' = step /\ pending' = pending
      /\ inbox' = inbox /\ pushed' = pushed
  BY KindFacts DEF TurnAnswered, play, CallLink
<1>2. OwnVerdict(p) = IF Survived(p, step[p]) THEN "SURVIVAL" ELSE "NONE"
  <2>1. ~SelfCaptured(p, blocked[p], cell[p])
    BY <1>1, PeerFacts DEF ThiefEnd, Walled, InPlay, SelfCaptured
  <2>. QED  BY <2>1 DEF OwnVerdict
<1>3. /\ outcome' = [outcome EXCEPT ![p] = OwnVerdict(p)]
      /\ pc' = [pc EXCEPT ![p] = IF Survived(p, step[p]) THEN "disclose" ELSE "awaitTurn"]
      /\ reply' = [reply EXCEPT ![p] = None]
  BY <1>2 DEF TurnAnswered, Goto
<1>4. /\ pc'[p] = (IF Survived(p, step[p]) THEN "disclose" ELSE "awaitTurn")
      /\ outcome'[p] = (IF Survived(p, step[p]) THEN "SURVIVAL" ELSE "NONE")
      /\ reply'[p] = None
      /\ \A r \in Peer : r # p => pc'[r] = pc[r] /\ outcome'[r] = outcome[r] /\ reply'[r] = reply[r]
  BY <1>2, <1>3 DEF TypeOK
<1>5. \A r \in Peer : Heard(r)' = Heard(r) /\ Taken(r)' = Taken(r)  BY <1>1 DEF Heard, Taken
<1>6. TypeOK'
  BY <1>1, <1>2, <1>3 DEF TypeOK, InPlay, Over, Outcomes
<1>7. \A r \in Peer : HistoryLink(r)'
  <2>. SUFFICES ASSUME NEW r \in Peer PROVE HistoryLink(r)'  OBVIOUS
  <2>1. HistoryLink(r)  OBVIOUS
  <2>. HIDE DEF SubGameInv
  <2>. QED  BY <1>1, <2>1 DEF HistoryLink
<1>8. \A r \in Peer : InboxLink(r)'  BY <1>1, <1>5 DEF InboxLink
<1>9. \A r \in Peer : CallLink(r)'
  <2>. SUFFICES ASSUME NEW r \in Peer PROVE CallLink(r)'  OBVIOUS
  <2>1. CallLink(r) /\ Heard(Other(r))' = Heard(Other(r))  BY <1>5, PeerFacts
  <2>2. CASE r = p
    BY <1>1, <1>4, <2>1, <2>2, KindFacts DEF CallLink, Calling, Acked
  <2>3. CASE r # p  BY <1>1, <1>4, <2>1, <2>3 DEF CallLink
  <2>. QED  BY <2>2, <2>3
<1>10. p = Police => pc'[p] = "awaitTurn" /\ outcome'[p] = "NONE" /\ outcome[p] = "NONE"
  BY <1>1, <1>4, PeerFacts DEF Survived, PoliceEnd, InPlay
<1>11. CountLink'
  <2>1. CASE p = Police
    BY <1>1, <1>4, <1>5, <1>10, <2>1, PeerFacts DEF CountLink, Over
  <2>2. CASE p = Thief
    BY <1>1, <1>4, <1>5, <2>2, PeerFacts DEF CountLink, Over
  <2>. QED  BY <2>1, <2>2, PeerFacts
<1>12. BoardLink'  BY <1>1, <1>5, PeerFacts DEF BoardLink
<1>13. MetLink'  BY <1>1 DEF MetLink
<1>14. AnswerLink'
  <2>1. pc'[Thief] \in {"turn", "settle"} => pc[Thief] \in {"turn", "settle"}
    BY <1>4, PeerFacts
  <2>. QED  BY <1>1, <2>1 DEF AnswerLink, AnswersClaim
<1>15. PoliceEnd'
  <2>1. outcome'[Police] = outcome[Police] /\ (pc'[Police] = pc[Police] \/ (p = Police /\ pc'[Police] = "awaitTurn"))
    BY <1>4, <1>10, PeerFacts
  <2>2. \A s, end : Said(s, end)' <=> Said(s, end)  BY <1>1 DEF Said
  <2>. QED  BY <1>1, <1>5, <1>10, <2>1, <2>2, PeerFacts DEF PoliceEnd, InPlay, Over
<1>16. ThiefEnd'
  <2>1. Walled' = Walled  BY <1>1 DEF Walled
  <2>2. CASE p = Police
    <3>1. ThiefEnd  OBVIOUS
    <3>2. /\ pc'[Thief] = pc[Thief] /\ outcome'[Thief] = outcome[Thief]
          /\ Taken(Thief)' = Taken(Thief)
      BY <1>4, <1>5, <2>2, PeerFacts
    <3>. HIDE DEF SubGameInv
    <3>. QED  BY <1>1, <2>1, <3>1, <3>2 DEF ThiefEnd
  <2>3. CASE p = Thief
    <3>1. step[Thief] = Taken(Thief) + 1 /\ outcome[Thief] = "NONE" /\ ~Walled
          /\ step[Thief] <= SurvivalThreshold
      BY <1>1, <2>3 DEF CountLink, ThiefEnd, InPlay
    <3>2. Survived(Thief, step[Thief]) <=> step[Thief] = SurvivalThreshold
      BY <3>1, BoardFacts, Counts, PeerFacts DEF Survived
    <3>3. \A turn \in pushed[Thief] : turn.step = step[Thief] => ~Says(turn, TRUE)
      BY <3>1 DEF ThiefEnd
    <3>4. CASE Survived(Thief, step[Thief])
      <4>1. pc'[Thief] = "disclose" /\ outcome'[Thief] = "SURVIVAL"  BY <1>4, <2>3, <3>4
      <4>. QED  BY <1>1, <1>5, <2>1, <3>1, <3>2, <3>3, <3>4, <4>1, PeerFacts DEF ThiefEnd, InPlay, Over
    <3>5. CASE ~Survived(Thief, step[Thief])
      <4>1. pc'[Thief] = "awaitTurn" /\ outcome'[Thief] = "NONE"  BY <1>4, <2>3, <3>5
      <4>2. step[Thief] < SurvivalThreshold
        BY <3>1, <3>2, <3>5, BoardFacts, Counts, PeerFacts
      <4>. QED  BY <1>1, <1>5, <2>1, <3>1, <3>3, <4>1, <4>2, PeerFacts DEF ThiefEnd, InPlay, Over
    <3>. QED  BY <3>4, <3>5
  <2>. QED  BY <2>2, <2>3, PeerFacts
<1>17. CauseLink'
  <2>1. pc'[p] # "failed"  BY <1>4
  <2>. QED  BY <1>1, <1>4, <2>1, KindFacts DEF CauseLink
<1>. QED  BY <1>6, <1>7, <1>8, <1>9, <1>11, <1>12, <1>13, <1>14, <1>15, <1>16, <1>17

-----------------------------------------------------------------------------
(* A loop consumes one turn at a time, the last the inbox was offered.     *)
LEMMA ConsumeFacts ==
  ASSUME SubGameInv, NEW p \in Peer, Consume(p)
  PROVE  /\ pc[p] = "awaitTurn" /\ inbox[p].arrived
         /\ UNCHANGED <<cell, step, audit, pushed, call, reply, causes>>
         /\ inbox' = [inbox EXCEPT ![p] = Consumed(@)]
         /\ \E turn \in pushed[Other(p)] : \E end \in Outcomes :
              /\ turn.step = Heard(p)
              /\ end = VerdictOn(p, turn, blocked[p] \cup turn.barrier)
              /\ blocked' = [blocked EXCEPT ![p] = @ \cup turn.barrier]
              /\ pending' = [pending EXCEPT ![p] = IF AnswerTo(turn, cell[p]) = None THEN @
                                                   ELSE AnswerTo(turn, cell[p])]
              /\ outcome' = [outcome EXCEPT ![p] = end]
              /\ pc' = [pc EXCEPT ![p] = IF end = "NONE" THEN "turn" ELSE "settle"]
<1>. USE DEF SubGameInv
<1>1. pc[p] = "awaitTurn" /\ inbox[p].arrived  BY DEF Consume, Arrived
<1>2. PICK turn \in pushed[Other(p)] : turn.step = Heard(p) /\ inbox[p].ready = <<turn>>
  BY <1>1 DEF InboxLink
<1>. DEFINE batch == inbox[p].ready
<1>3. Len(batch) = 1 /\ batch[1] = turn /\ SubSeq(batch, 1, 1) = batch
  <2>1. turn \in Turns  BY PeerFacts DEF TypeOK
  <2>2. <<turn>> \in Seq(Turns) /\ Len(<<turn>>) = 1 /\ <<turn>>[1] = turn  BY <2>1
  <2>3. SubSeq(<<turn>>, 1, 1) = <<turn>>  BY <2>2, SubSeqFull
  <2>. QED  BY <1>2, <2>2, <2>3
<1>4. BarriersOf(batch) = turn.barrier
  <2>1. {batch[i].barrier : i \in 1 .. Len(batch)} = {turn.barrier}  BY <1>3
  <2>2. UNION {turn.barrier} = turn.barrier  OBVIOUS
  <2>. QED  BY <2>1, <2>2 DEF BarriersOf
<1>. DEFINE board == blocked[p] \cup turn.barrier
            end == VerdictOn(p, turn, board)
            verdict(i) == VerdictOn(p, batch[i], blocked[p] \cup BarriersOf(SubSeq(batch, 1, i)))
            ends == {i \in 1 .. Len(batch) : verdict(i) # "NONE"}
            first == CHOOSE i \in ends : \A j \in ends : i <= j
<1>5. end \in Outcomes
  BY DEF VerdictOn, SaidBy, Outcomes
<1>6. (IF ends = {} THEN "NONE" ELSE verdict(first)) = end
  <2>1. verdict(1) = end  BY <1>3, <1>4
  <2>2. \A i : i \in 1 .. Len(batch) <=> i = 1  BY <1>3
  <2>. HIDE DEF verdict, end
  <2>3. CASE end = "NONE"
    <3>1. ends = {}  BY <2>1, <2>2, <2>3
    <3>. HIDE DEF ends
    <3>. QED  BY <2>3, <3>1
  <2>4. CASE end # "NONE"
    <3>1. ends = {1}  BY <2>1, <2>2, <2>4
    <3>. HIDE DEF ends
    <3>2. \E i \in ends : \A j \in ends : i <= j  BY <3>1
    <3>3. first \in ends  BY <3>2
    <3>. HIDE DEF first
    <3>4. first = 1 /\ ends # {}  BY <3>1, <3>3
    <3>. QED  BY <2>1, <3>4
  <2>. QED  BY <2>3, <2>4
<1>. HIDE DEF end, board
<1>7. outcome' = [outcome EXCEPT ![p] = end]
  <2>1. outcome' = [outcome EXCEPT ![p] = IF ends = {} THEN "NONE" ELSE verdict(first)]
    BY DEF Consume
  <2>. HIDE DEF verdict, ends, first
  <2>. QED  BY <1>6, <2>1
<1>8. pc' = [pc EXCEPT ![p] = IF end = "NONE" THEN "turn" ELSE "settle"]
  BY <1>6 DEF Consume, Goto
<1>9. blocked' = [blocked EXCEPT ![p] = @ \cup turn.barrier]
  BY <1>3, <1>4 DEF Consume
<1>10. pending' = [pending EXCEPT ![p] = IF AnswerTo(turn, cell[p]) = None THEN @
                                         ELSE AnswerTo(turn, cell[p])]
  BY <1>3 DEF Consume
<1>11. /\ UNCHANGED <<cell, step, audit, pushed, call, reply, causes>>
       /\ inbox' = [inbox EXCEPT ![p] = Consumed(@)]
  BY DEF Consume, network
<1>. QED  BY <1>1, <1>2, <1>5, <1>7, <1>8, <1>9, <1>10, <1>11 DEF end, board

(* What a consumption leaves of the inboxes and the calls.                 *)
LEMMA ConsumeCounts ==
  ASSUME SubGameInv, NEW p \in Peer, Consume(p)
  PROVE  /\ Heard(p)' = Heard(p) /\ Taken(p) = Heard(p) - 1 /\ Taken(p)' = Heard(p)
         /\ Heard(Other(p))' = Heard(Other(p)) /\ Taken(Other(p))' = Taken(Other(p))
         /\ inbox' \in [Peer -> Inboxes]
         /\ \A r \in Peer : HistoryLink(r)' /\ InboxLink(r)' /\ CallLink(r)'
         /\ CauseLink' /\ MetLink'
<1>. USE DEF SubGameInv
<1>1. /\ pc[p] = "awaitTurn" /\ inbox[p].arrived
      /\ cell' = cell /\ step' = step /\ audit' = audit /\ pushed' = pushed
      /\ call' = call /\ reply' = reply /\ causes' = causes
      /\ inbox' = [inbox EXCEPT ![p] = Consumed(@)]
      /\ \E label \in {"turn", "settle"} : pc' = [pc EXCEPT ![p] = label]
  <2>1. \A end : (IF end = "NONE" THEN "turn" ELSE "settle") \in {"turn", "settle"}  OBVIOUS
  <2>. QED  BY ConsumeFacts, <2>1
<1>2. /\ inbox \in [Peer -> Inboxes] /\ Other(p) \in Peer /\ Other(p) # p
  BY PeerFacts DEF TypeOK
<1>3. /\ inbox'[p] = [inbox[p] EXCEPT !.ready = <<>>, !.arrived = FALSE]
      /\ \A r \in Peer : r # p => inbox'[r] = inbox[r]
  BY <1>1, <1>2 DEF Consumed
<1>4. /\ inbox'[p] \in Inboxes /\ inbox'[p].expected = inbox[p].expected
      /\ inbox'[p].played = inbox[p].played /\ inbox'[p].ready = <<>> /\ inbox'[p].arrived = FALSE
  <2>1. <<>> \in Seq(Turns)  OBVIOUS
  <2>2. inbox[p] \in Inboxes  BY <1>2
  <2>. QED  BY <1>3, <2>1, <2>2 DEF Inboxes
<1>5. inbox' \in [Peer -> Inboxes]  BY <1>1, <1>2, <1>3, <1>4
<1>6. /\ Heard(p)' = Heard(p) /\ Taken(p) = Heard(p) - 1 /\ Taken(p)' = Heard(p)
      /\ \A r \in Peer : r # p => Heard(r)' = Heard(r) /\ Taken(r)' = Taken(r)
  BY <1>1, <1>3, <1>4 DEF Heard, Taken
<1>7. \A r \in Peer : HistoryLink(r)'
  <2>. SUFFICES ASSUME NEW r \in Peer PROVE HistoryLink(r)'  OBVIOUS
  <2>1. HistoryLink(r)  OBVIOUS
  <2>. QED  BY <1>1, <2>1 DEF HistoryLink
<1>8. \A r \in Peer : InboxLink(r)'
  <2>. SUFFICES ASSUME NEW r \in Peer PROVE InboxLink(r)'  OBVIOUS
  <2>1. InboxLink(r) /\ Heard(r)' = Heard(r)  BY <1>6
  <2>2. CASE r = p  BY <1>1, <1>4, <2>1, <2>2 DEF InboxLink
  <2>3. CASE r # p  BY <1>1, <1>3, <2>1, <2>3 DEF InboxLink
  <2>. QED  BY <2>2, <2>3
<1>9. PICK label \in {"turn", "settle"} : pc' = [pc EXCEPT ![p] = label]  BY <1>1
<1>10. pc'[p] = label /\ \A r \in Peer : r # p => pc'[r] = pc[r]  BY <1>9 DEF TypeOK
<1>11. \A r \in Peer : CallLink(r)'
  <2>. SUFFICES ASSUME NEW r \in Peer PROVE CallLink(r)'  OBVIOUS
  <2>1. CallLink(r) /\ Heard(Other(r))' = Heard(Other(r))  BY <1>6, PeerFacts
  <2>2. CASE r = p
    <3>1. call[p] = None /\ reply[p] = None  BY <1>1, <2>1, <2>2 DEF CallLink, Calling
    <3>. QED  BY <1>1, <1>10, <2>1, <2>2, <3>1, KindFacts DEF CallLink, Calling, Acked
  <2>3. CASE r # p  BY <1>1, <1>10, <2>1, <2>3 DEF CallLink
  <2>. QED  BY <2>2, <2>3
<1>12. CauseLink'  BY <1>1, <1>10 DEF CauseLink
<1>13. MetLink'  BY <1>1 DEF MetLink
<1>. QED  BY <1>2, <1>5, <1>6, <1>7, <1>8, <1>11, <1>12, <1>13

(* The turn a police consumes speaks for the thief's end: the thief's last *)
(* STAY left it where the claim found it.                                  *)
LEMMA KeepsPoliceConsume ==
  ASSUME SubGameInv, Consume(Police)
  PROVE  SubGameInv'
<1>. USE DEF SubGameInv
<1>1. PICK turn \in pushed[Thief], end \in Outcomes :
        /\ turn.step = Heard(Police)
        /\ end = VerdictOn(Police, turn, blocked[Police] \cup turn.barrier)
        /\ blocked' = [blocked EXCEPT ![Police] = @ \cup turn.barrier]
        /\ pending' = [pending EXCEPT ![Police] = IF AnswerTo(turn, cell[Police]) = None THEN @
                                                  ELSE AnswerTo(turn, cell[Police])]
        /\ outcome' = [outcome EXCEPT ![Police] = end]
        /\ pc' = [pc EXCEPT ![Police] = IF end = "NONE" THEN "turn" ELSE "settle"]
  BY ConsumeFacts, PeerFacts
<1>2. /\ pc[Police] = "awaitTurn"
      /\ cell' = cell /\ step' = step /\ audit' = audit /\ pushed' = pushed
      /\ call' = call /\ reply' = reply /\ causes' = causes
  BY ConsumeFacts, PeerFacts
<1>3. /\ Taken(Police) = Heard(Police) - 1 /\ Taken(Police)' = Heard(Police)
      /\ Taken(Thief)' = Taken(Thief)
      /\ inbox' \in [Peer -> Inboxes]
      /\ \A r \in Peer : HistoryLink(r)' /\ InboxLink(r)' /\ CallLink(r)'
      /\ CauseLink' /\ MetLink'
  BY ConsumeCounts, PeerFacts
<1>4. /\ turn.barrier = {} /\ turn.claim = {}
      /\ turn.survival <=> Survived(Thief, turn.step)
      /\ \A again \in pushed[Thief] : again.step = turn.step => again = turn
  <2>1. HistoryLink(Thief)  BY PeerFacts
  <2>. QED  BY <2>1, PeerFacts DEF HistoryLink
<1>5. end = SaidBy(turn)
  <2>1. ~SelfCaptured(Police, blocked[Police] \cup turn.barrier, cell[Police])
    BY PeerFacts DEF SelfCaptured
  <2>2. ~Survived(Police, step[Police])  BY PeerFacts DEF Survived
  <2>3. cell[Police] \notin turn.claim  BY <1>4
  <2>. QED  BY <1>1, <2>1, <2>2, <2>3 DEF VerdictOn
<1>6. AnswerTo(turn, cell[Police]) = None  BY <1>4 DEF AnswerTo
<1>7. /\ blocked' = blocked /\ pending' = pending
      /\ pc'[Police] = (IF end = "NONE" THEN "turn" ELSE "settle") /\ pc'[Thief] = pc[Thief]
      /\ outcome'[Police] = end /\ outcome'[Thief] = outcome[Thief]
  BY <1>1, <1>4, <1>6, PeerFacts DEF TypeOK
<1>8. Taken(Police) = step[Police]  BY <1>2 DEF CountLink
<1>9. /\ Heard(Police) = step[Police] + 1 /\ step[Thief] = step[Police] + 1
      /\ Taken(Thief) = step[Police] /\ turn.step = step[Thief]
  BY <1>1, <1>3, <1>8, Counts, PeerFacts
<1>10. TypeOK'
  BY <1>1, <1>2, <1>3, <1>7, PeerFacts DEF TypeOK, InPlay, Over
<1>11. CountLink'
  BY <1>2, <1>3, <1>7, <1>9, Counts, PeerFacts DEF CountLink, Over
<1>12. BoardLink'  BY <1>2, <1>3, <1>7, PeerFacts DEF BoardLink
<1>13. AnswerLink'  BY <1>2, <1>7 DEF AnswerLink, AnswersClaim
<1>14. PoliceEnd'
  <2>1. Said(step[Thief], end)'
    BY <1>1, <1>2, <1>4, <1>5, <1>9 DEF Said
  <2>2. end = "CAPTURE" => cell[Police] = cell[Thief]
    <3>1. SUFFICES ASSUME end = "CAPTURE" PROVE cell[Police] = cell[Thief]  OBVIOUS
    <3>2. Says(turn, TRUE)  BY <1>5, <3>1 DEF SaidBy
    <3>3. step[Thief] = Taken(Thief) + 1  BY <1>9
    <3>4. outcome[Thief] = "CAPTURE"  BY <1>9, <3>2, <3>3 DEF ThiefEnd
    <3>. QED  BY <1>9, <3>2, <3>3, <3>4 DEF ThiefEnd
  <2>3. Taken(Police)' = step'[Police] + 1 /\ Taken(Police)' > 0 /\ Taken(Police)' = step[Thief]
    BY <1>2, <1>3, <1>9, Counts, PeerFacts
  <2>4. /\ pc'[Police] \in InPlay => outcome'[Police] = "NONE"
        /\ pc'[Police] \in Over => outcome'[Police] # "NONE"
        /\ pc'[Police] # "finalSent"
    BY <1>7 DEF InPlay, Over
  <2>. QED  BY <1>2, <1>7, <2>1, <2>2, <2>3, <2>4 DEF PoliceEnd
<1>15. ThiefEnd'
  <2>1. Walled' = Walled  BY <1>2, <1>7 DEF Walled
  <2>. QED  BY <1>2, <1>3, <1>7, <2>1 DEF ThiefEnd
<1>. QED  BY <1>3, <1>10, <1>11, <1>12, <1>13, <1>14, <1>15

(* The thief answers the claim from where it stands, on the board the      *)
(* police was on, and ends itself only if it was caught or walled in.      *)
LEMMA KeepsThiefConsume ==
  ASSUME SubGameInv, Consume(Thief)
  PROVE  SubGameInv'
<1>. USE DEF SubGameInv
<1>1. PICK turn \in pushed[Police], end \in Outcomes :
        /\ turn.step = Heard(Thief)
        /\ end = VerdictOn(Thief, turn, blocked[Thief] \cup turn.barrier)
        /\ blocked' = [blocked EXCEPT ![Thief] = @ \cup turn.barrier]
        /\ pending' = [pending EXCEPT ![Thief] = IF AnswerTo(turn, cell[Thief]) = None THEN @
                                                 ELSE AnswerTo(turn, cell[Thief])]
        /\ outcome' = [outcome EXCEPT ![Thief] = end]
        /\ pc' = [pc EXCEPT ![Thief] = IF end = "NONE" THEN "turn" ELSE "settle"]
  BY ConsumeFacts, PeerFacts
<1>2. /\ pc[Thief] = "awaitTurn"
      /\ cell' = cell /\ step' = step /\ audit' = audit /\ pushed' = pushed
      /\ call' = call /\ reply' = reply /\ causes' = causes
  BY ConsumeFacts, PeerFacts
<1>3. /\ Taken(Thief) = Heard(Thief) - 1 /\ Taken(Thief)' = Heard(Thief)
      /\ Taken(Police)' = Taken(Police)
      /\ inbox' \in [Peer -> Inboxes]
      /\ \A r \in Peer : HistoryLink(r)' /\ InboxLink(r)' /\ CallLink(r)'
      /\ CauseLink' /\ MetLink'
  BY ConsumeCounts, PeerFacts
<1>4. step[Thief] = Taken(Thief) + 1  BY <1>2 DEF CountLink
<1>5. /\ Heard(Thief) = step[Thief] /\ step[Police] = step[Thief] /\ turn.step = step[Police]
      /\ Taken(Thief) < step[Police]
  BY <1>1, <1>3, <1>4, Counts, PeerFacts
<1>6. /\ turn.claim = {cell[Police]} /\ turn.answer = None /\ ~turn.survival
      /\ \A again \in pushed[Police] : again.step = turn.step => again = turn
  <2>1. HistoryLink(Police)  BY PeerFacts
  <2>. QED  BY <1>5, <2>1, PeerFacts DEF HistoryLink, Survived
<1>7. /\ blocked[Thief] \cup turn.barrier = blocked[Police]
      /\ cell[Thief] \in Cells /\ cell[Police] \in Cells /\ turn \in Turns
  <2>1. blocked[Thief] \cup turn.barrier = blocked[Police]  BY <1>5 DEF BoardLink
  <2>. QED  BY <2>1, PeerFacts DEF TypeOK
<1>8. /\ step[Thief] < SurvivalThreshold /\ outcome[Thief] = "NONE"
  BY <1>2 DEF ThiefEnd, InPlay
<1>. DEFINE walled == SelfCaptured(Thief, blocked[Police], cell[Thief])
<1>9. end = IF walled \/ cell[Police] = cell[Thief] THEN "CAPTURE" ELSE "NONE"
  <2>1. SaidBy(turn) = "NONE"  BY <1>6 DEF SaidBy, Says
  <2>2. ~Survived(Thief, step[Thief])  BY <1>8, BoardFacts, Counts, PeerFacts DEF Survived
  <2>3. cell[Thief] \in turn.claim <=> cell[Police] = cell[Thief]  BY <1>6
  <2>. HIDE DEF SubGameInv
  <2>. QED  BY <1>1, <1>7, <2>1, <2>2, <2>3 DEF VerdictOn
<1>10. AnswerTo(turn, cell[Thief]) =
         [kind |-> "answer", claim |-> cell[Police], caught |-> (cell[Thief] \in {cell[Police]})]
  BY <1>6 DEF AnswerTo
<1>11. /\ AnswerTo(turn, cell[Thief]) \in Answers
       /\ AnswerTo(turn, cell[Thief]).claim = cell[Police]
       /\ AnswerTo(turn, cell[Thief]).caught = (cell[Thief] \in {cell[Police]})
       /\ AnswerTo(turn, cell[Thief]) # None
  BY <1>7, <1>10, KindFacts DEF Answers
<1>12. /\ blocked'[Thief] = blocked[Police] /\ blocked'[Police] = blocked[Police]
       /\ pending'[Thief] = AnswerTo(turn, cell[Thief]) /\ pending'[Police] = pending[Police]
       /\ pc'[Thief] = (IF end = "NONE" THEN "turn" ELSE "settle") /\ pc'[Police] = pc[Police]
       /\ outcome'[Thief] = end /\ outcome'[Police] = outcome[Police]
  BY <1>1, <1>7, <1>11, PeerFacts DEF TypeOK
<1>13. TypeOK'
  <2>1. blocked' \in [Peer -> SUBSET Cells]  BY <1>1, <1>7, PeerFacts DEF TypeOK
  <2>2. pending' \in [Peer -> {None} \cup Answers]  BY <1>1, <1>11, PeerFacts DEF TypeOK
  <2>3. pc' \in [Peer -> InPlay \cup Over \cup {"failed"}]
    BY <1>1, PeerFacts DEF TypeOK, InPlay, Over
  <2>. QED  BY <1>1, <1>2, <1>3, <2>1, <2>2, <2>3 DEF TypeOK
<1>14. Taken(Thief)' = step[Thief] /\ step'[Thief] = Taken(Thief)' /\ Taken(Thief)' = step[Police]
  BY <1>2, <1>3, <1>5
<1>15. CountLink'
  BY <1>2, <1>3, <1>5, <1>12, <1>14, Counts, PeerFacts DEF CountLink, Over
<1>16. BoardLink'  BY <1>2, <1>12, <1>14, Counts, PeerFacts DEF BoardLink
<1>17. AnswerLink'
  <2>1. \A asked \in pushed[Police] :
          asked.step = step[Thief] => AnswersClaim(pending'[Thief], asked, cell[Thief])
    <3>. SUFFICES ASSUME NEW asked \in pushed[Police], asked.step = step[Thief]
                  PROVE AnswersClaim(pending'[Thief], asked, cell[Thief])
      OBVIOUS
    <3>1. asked = turn  BY <1>5, <1>6
    <3>2. (cell[Thief] \in {cell[Police]}) = ({cell[Police]} = {cell[Thief]})  OBVIOUS
    <3>. QED  BY <1>6, <1>11, <1>12, <3>1, <3>2 DEF AnswersClaim
  <2>2. \A r, before \in pushed[Thief] : \A asked \in pushed[Police] :
          r.step = asked.step + 1 /\ before.step = asked.step =>
            AnswersClaim(r.answer, asked, before.commit.cell)
    BY DEF AnswerLink
  <2>. QED  BY <1>2, <1>12, <2>1, <2>2 DEF AnswerLink, AnswersClaim
<1>18. PoliceEnd'
  <2>1. \A s, e : Said(s, e)' <=> Said(s, e)  BY <1>2 DEF Said
  <2>. QED  BY <1>2, <1>3, <1>12, <2>1, PeerFacts DEF PoliceEnd
<1>19. ThiefEnd'
  <2>1. Walled' <=> walled  BY <1>2, <1>12 DEF Walled
  <2>2. end = "NONE" => ~Says([answer |-> pending'[Thief]], TRUE)
    BY <1>9, <1>11, <1>12 DEF Says
  <2>3. ~(step'[Thief] = Taken(Thief)' + 1)  BY <1>14, Counts, PeerFacts
  <2>4. step'[Thief] <= SurvivalThreshold /\ step'[Thief] < SurvivalThreshold
    BY <1>2, <1>8, BoardFacts, Counts, PeerFacts
  <2>5. CASE end = "NONE"
    <3>1. pc'[Thief] = "turn" /\ outcome'[Thief] = "NONE" /\ ~Walled'
      BY <1>9, <1>12, <2>1, <2>5
    <3>. QED  BY <2>2, <2>3, <2>4, <2>5, <3>1 DEF ThiefEnd, InPlay, Over
  <2>6. CASE end # "NONE"
    <3>1. /\ pc'[Thief] = "settle" /\ outcome'[Thief] = "CAPTURE"
          /\ (cell'[Police] = cell'[Thief] \/ Walled')
          /\ step'[Thief] > 0
      BY <1>2, <1>5, <1>9, <1>12, <2>1, <2>6, Counts, PeerFacts
    <3>. QED  BY <2>3, <2>4, <3>1 DEF ThiefEnd, InPlay, Over
  <2>. QED  BY <2>5, <2>6
<1>. QED  BY <1>3, <1>13, <1>15, <1>16, <1>17, <1>18, <1>19

LEMMA KeepsConsume ==
  ASSUME SubGameInv, NEW p \in Peer, Consume(p)
  PROVE  SubGameInv'
  BY KeepsPoliceConsume, KeepsThiefConsume, PeerFacts

-----------------------------------------------------------------------------
(* p pushes a half-turn, of its loop or to settle.                         *)
Pushes(p, action, waiting) ==
  /\ pc[p] \in {"turn", "settle"} /\ (p = Police => pc[p] = "turn")
  /\ action \in Lawful(p, blocked[p], cell[p]) /\ waiting \in {"turnSent", "finalSent"}
  /\ Push(p, action, waiting) /\ UNCHANGED <<inbox, audit, outcome, reply>>

(* A half-turn is pushed when all counts say it is p's: everything pushed  *)
(* before was offered and consumed.                                        *)
LEMMA PushCounts ==
  ASSUME SubGameInv, NEW p \in Peer, NEW action, NEW waiting, Pushes(p, action, waiting)
  PROVE  /\ Heard(Other(p)) = step[p] /\ Taken(Other(p)) = step[p]
         /\ p = Thief => step[Police] = step[Thief] /\ Taken(Thief) = step[Thief]
         /\ p = Police => step[Thief] = step[Police] + 1 /\ Taken(Police) = step[Police] + 1
         /\ \A r \in Peer : Heard(r)' = Heard(r) /\ Taken(r)' = Taken(r)
<1>1. pc[p] \in {"turn", "settle"} /\ (p = Police => pc[p] = "turn") /\ inbox' = inbox
  BY DEF Pushes
<1>2. /\ \A r \in Peer : step[r] \in Nat /\ Heard(r) \in Nat /\ Taken(r) \in Nat
      /\ step[Police] <= Taken(Police) /\ Taken(Police) <= Heard(Police)
      /\ Heard(Police) <= step[Thief] /\ step[Thief] <= Taken(Thief) + 1
      /\ Taken(Thief) <= Heard(Thief) /\ Heard(Thief) <= step[Police]
  BY Counts
<1>3. \A r \in Peer : Heard(r)' = Heard(r) /\ Taken(r)' = Taken(r)  BY <1>1 DEF Heard, Taken
<1>4. /\ p = Thief => step[Thief] = Taken(Thief)
      /\ p = Police => Taken(Police) = step[Police] + 1
  BY <1>1 DEF SubGameInv, CountLink
<1>5. /\ p = Thief => /\ step[Police] = step[Thief] /\ Taken(Thief) = step[Thief]
                      /\ Heard(Police) = step[Thief] /\ Taken(Police) = step[Thief]
      /\ p = Police => /\ step[Thief] = step[Police] + 1 /\ Taken(Police) = step[Police] + 1
                       /\ Heard(Thief) = step[Police] /\ Taken(Thief) = step[Police]
  BY <1>2, <1>4, PeerFacts
<1>6. Heard(Other(p)) = step[p] /\ Taken(Other(p)) = step[p]  BY <1>5, PeerFacts
<1>. QED  BY <1>3, <1>5, <1>6

(* What a half-turn says.                                                  *)
LEMMA TurnFacts ==
  ASSUME SubGameInv, NEW p \in Peer, NEW action \in Lawful(p, blocked[p], cell[p])
  PROVE  /\ HalfTurn(p, action) \in Turns
         /\ HalfTurn(p, action).step = step[p] + 1
         /\ HalfTurn(p, action).commit.cell = CellAfter(cell[p], action)
         /\ HalfTurn(p, action).barrier = Placed(action)
         /\ HalfTurn(p, action).claim =
              IF p = Police THEN {HalfTurn(p, action).commit.cell} ELSE {}
         /\ HalfTurn(p, action).answer = pending[p]
         /\ HalfTurn(p, action).survival <=> Survived(p, step[p] + 1)
         /\ CellAfter(cell[p], action) \in Cells /\ Placed(action) \in SUBSET Cells
         /\ p = Thief => Placed(action) = {}
<1>1. /\ cell[p] \in Cells /\ blocked[p] \in SUBSET Cells /\ step[p] \in Nat
      /\ pending[p] \in {None} \cup Answers
  BY DEF SubGameInv, TypeOK
<1>2. /\ action \in Action /\ CellAfter(cell[p], action) \in Cells
      /\ Placed(action) \in SUBSET Cells /\ (p = Thief => Placed(action) = {})
  BY <1>1, LawfulStays
<1>3. HalfTurn(p, action) \in Turns
  <2>1. Survived(p, step[p] + 1) \in BOOLEAN  BY DEF Survived
  <2>2. [action |-> action, cell |-> CellAfter(cell[p], action)] \in [action : Action, cell : Cells]
    BY <1>2
  <2>3. (IF p = Police THEN {CellAfter(cell[p], action)} ELSE {}) \in SUBSET Cells  BY <1>2
  <2>. QED  BY <1>1, <1>2, <2>1, <2>2, <2>3 DEF HalfTurn, Turns
<1>4. /\ HalfTurn(p, action).step = step[p] + 1
      /\ HalfTurn(p, action).commit.cell = CellAfter(cell[p], action)
      /\ HalfTurn(p, action).barrier = Placed(action)
      /\ HalfTurn(p, action).claim =
           IF p = Police THEN {HalfTurn(p, action).commit.cell} ELSE {}
      /\ HalfTurn(p, action).answer = pending[p]
      /\ HalfTurn(p, action).survival <=> Survived(p, step[p] + 1)
  BY DEF HalfTurn
<1>. QED  BY <1>2, <1>3, <1>4

(* What it changes.                                                        *)
LEMMA PushMoves ==
  ASSUME SubGameInv, NEW p \in Peer, NEW action, NEW waiting, Pushes(p, action, waiting)
  PROVE  /\ TypeOK'
         /\ cell'[p] = CellAfter(cell[p], action)
         /\ blocked'[p] = blocked[p] \cup Placed(action)
         /\ step'[p] = step[p] + 1 /\ pending'[p] = None /\ pc'[p] = waiting
         /\ pushed'[p] = pushed[p] \cup {HalfTurn(p, action)} /\ call'[p] = HalfTurn(p, action)
         /\ \A r \in Peer : r # p =>
              /\ cell'[r] = cell[r] /\ blocked'[r] = blocked[r] /\ step'[r] = step[r]
              /\ pending'[r] = pending[r] /\ pushed'[r] = pushed[r] /\ call'[r] = call[r]
              /\ pc'[r] = pc[r]
<1>1. /\ action \in Lawful(p, blocked[p], cell[p])
      /\ Push(p, action, waiting) /\ waiting \in {"turnSent", "finalSent"}
      /\ inbox' = inbox /\ audit' = audit /\ outcome' = outcome /\ reply' = reply
  BY DEF Pushes
<1>. DEFINE turn == HalfTurn(p, action)
<1>2. /\ turn \in Turns /\ turn.commit.cell = CellAfter(cell[p], action)
      /\ CellAfter(cell[p], action) \in Cells /\ Placed(action) \in SUBSET Cells
  BY <1>1, TurnFacts
<1>3. /\ cell' = [cell EXCEPT ![p] = turn.commit.cell]
      /\ blocked' = [blocked EXCEPT ![p] = @ \cup Placed(action)]
      /\ step' = [step EXCEPT ![p] = @ + 1]
      /\ pending' = [pending EXCEPT ![p] = None]
      /\ pushed' = [pushed EXCEPT ![p] = @ \cup {turn}]
      /\ call' = [call EXCEPT ![p] = turn]
      /\ pc' = [pc EXCEPT ![p] = waiting]
  BY <1>1 DEF Push, Goto
<1>. HIDE DEF turn
<1>4. /\ cell'[p] = turn.commit.cell
      /\ blocked'[p] = blocked[p] \cup Placed(action)
      /\ step'[p] = step[p] + 1 /\ pending'[p] = None
      /\ pushed'[p] = pushed[p] \cup {turn} /\ call'[p] = turn /\ pc'[p] = waiting
      /\ \A r \in Peer : r # p =>
           /\ cell'[r] = cell[r] /\ blocked'[r] = blocked[r] /\ step'[r] = step[r]
           /\ pending'[r] = pending[r] /\ pushed'[r] = pushed[r] /\ call'[r] = call[r]
           /\ pc'[r] = pc[r]
  BY <1>3 DEF SubGameInv, TypeOK
<1>5. TypeOK'
  <2>1. /\ cell' \in [Peer -> Cells] /\ blocked' \in [Peer -> SUBSET Cells] /\ step' \in [Peer -> Nat]
        /\ pending' \in [Peer -> {None} \cup Answers]
    BY <1>2, <1>3 DEF SubGameInv, TypeOK
  <2>2. pushed' \in [Peer -> SUBSET Turns] /\ call' \in [Peer -> {None} \cup Turns \cup Audits]
    BY <1>2, <1>3 DEF SubGameInv, TypeOK
  <2>3. pc' \in [Peer -> InPlay \cup Over \cup {"failed"}]
    BY <1>1, <1>3 DEF SubGameInv, TypeOK, InPlay, Over
  <2>. QED  BY <1>1, <2>1, <2>2, <2>3 DEF SubGameInv, TypeOK
<1>. QED  BY <1>2, <1>4, <1>5 DEF turn

(* What is pushed joins the history and leaves as a call; no inbox knows.  *)
LEMMA PushKeeps ==
  ASSUME SubGameInv, NEW p \in Peer, NEW action, NEW waiting,
         Pushes(p, action, waiting), causes \subseteq causes'
  PROVE  CauseLink' /\ \A r \in Peer : HistoryLink(r)' /\ InboxLink(r)' /\ CallLink(r)'
<1>. DEFINE turn == HalfTurn(p, action)
<1>3. /\ inbox' = inbox /\ audit' = audit /\ outcome' = outcome /\ reply' = reply
      /\ waiting \in {"turnSent", "finalSent"} /\ action \in Lawful(p, blocked[p], cell[p])
      /\ pc[p] \in {"turn", "settle"}
  BY DEF Pushes
<1>1. /\ turn \in Turns
      /\ turn.step = step[p] + 1
      /\ turn.commit.cell = CellAfter(cell[p], action)
      /\ turn.barrier = Placed(action)
      /\ turn.claim = IF p = Police THEN {turn.commit.cell} ELSE {}
      /\ turn.answer = pending[p]
      /\ turn.survival <=> Survived(p, step[p] + 1)
      /\ p = Thief => turn.barrier = {}
  <2>1. turn.answer = pending[p]  BY DEF HalfTurn
  <2>2. turn.survival <=> Survived(p, step[p] + 1)  BY DEF HalfTurn
  <2>3. turn \in Turns  BY <1>3, TurnFacts
  <2>4. turn.barrier = Placed(action)  BY DEF HalfTurn
  <2>5. p = Thief => Placed(action) = {}  BY <1>3, TurnFacts
  <2>6. p = Thief => turn.barrier = {}  BY <2>4, <2>5
  <2>7. turn.claim = IF p = Police THEN {turn.commit.cell} ELSE {}  BY DEF HalfTurn
  <2>8. turn.step = step[p] + 1 /\ turn.commit.cell = CellAfter(cell[p], action)  BY DEF HalfTurn
  <2>. HIDE DEF turn
  <2>. QED  BY <2>1, <2>2, <2>3, <2>4, <2>6, <2>7, <2>8
<1>2. /\ pushed'[p] = pushed[p] \cup {turn} /\ call'[p] = turn /\ step'[p] = step[p] + 1
      /\ cell'[p] = turn.commit.cell /\ pc'[p] = waiting
      /\ \A r \in Peer : r # p => /\ pushed'[r] = pushed[r] /\ call'[r] = call[r]
                                  /\ step'[r] = step[r] /\ cell'[r] = cell[r] /\ pc'[r] = pc[r]
  BY <1>1, PushMoves
<1>. HIDE DEF turn
<1>4. /\ step[p] \in Nat /\ Other(p) \in Peer /\ Other(p) # p /\ Other(Other(p)) = p
  BY PeerFacts DEF SubGameInv, TypeOK
<1>5. Heard(Other(p)) = step[p] /\ \A r \in Peer : Heard(r)' = Heard(r)  BY PushCounts
<1>7. \A old \in pushed[p] : old.step \in 1 .. step[p] /\ old.step # step[p] + 1
  <2>1. HistoryLink(p)  BY DEF SubGameInv
  <2>2. \A old \in pushed[p] : old.step \in 1 .. step[p]  BY <2>1 DEF HistoryLink
  <2>. QED  BY <1>1, <1>2, <1>3, <1>4, <1>5, <2>2
<1>8. HistoryLink(p)'
  <2>1. HistoryLink(p)  BY DEF SubGameInv
  <2>2. \A s \in 1 .. step'[p] : \E t \in pushed'[p] : t.step = s
    <3>. SUFFICES ASSUME NEW s \in 1 .. step'[p] PROVE \E t \in pushed'[p] : t.step = s  OBVIOUS
    <3>1. s \in 1 .. step[p] \/ s = step[p] + 1  BY <1>1, <1>2, <1>3, <1>4, <1>5
    <3>. QED  BY <1>1, <1>2, <1>3, <1>4, <1>5, <2>1, <3>1 DEF HistoryLink
  <2>3. ASSUME NEW t \in pushed'[p]
        PROVE /\ t.step \in 1 .. step'[p]
              /\ t.step = step'[p] => t.commit.cell = cell'[p]
              /\ \A again \in pushed'[p] : again.step = t.step => again = t
    <3>1. t = turn \/ t \in pushed[p]  BY <1>1, <1>2, <1>3, <1>4, <1>5
    <3>2. t.step \in 1 .. step'[p]  BY <1>1, <1>2, <1>3, <1>4, <1>5, <1>7, <3>1
    <3>3. t.step = step'[p] => t = turn  BY <1>1, <1>2, <1>3, <1>4, <1>5, <1>7, <3>1
    <3>4. \A again \in pushed'[p] : again.step = t.step => again = t
      <4>. SUFFICES ASSUME NEW again \in pushed'[p], again.step = t.step PROVE again = t  OBVIOUS
      <4>1. again = turn \/ again \in pushed[p]  BY <1>1, <1>2, <1>3, <1>4, <1>5
      <4>2. \A x, y \in pushed[p] : x.step = y.step => x = y  BY <2>1 DEF HistoryLink
      <4>. QED  BY <1>1, <1>2, <1>3, <1>4, <1>5, <1>7, <3>1, <4>1, <4>2
    <3>. QED  BY <1>1, <1>2, <1>3, <1>4, <1>5, <3>2, <3>3, <3>4
  <2>4. ASSUME NEW t \in pushed'[p]
        PROVE /\ t.claim = IF p = Police THEN {t.commit.cell} ELSE {}
              /\ p = Police => t.answer = None
              /\ p = Thief => t.barrier = {}
              /\ t.survival <=> Survived(p, t.step)
    <3>1. t = turn \/ t \in pushed[p]  BY <1>1, <1>2, <1>3, <1>4, <1>5
    <3>2. p = Police => turn.answer = None  BY <1>1, <1>2, <1>3, <1>4, <1>5 DEF SubGameInv, AnswerLink
    <3>3. CASE t = turn  BY <1>1, <3>2, <3>3
    <3>4. CASE t \in pushed[p]  BY <2>1, <3>4 DEF HistoryLink
    <3>. QED  BY <3>1, <3>3, <3>4
  <2>. QED  BY <2>2, <2>3, <2>4 DEF HistoryLink
<1>9. \A r \in Peer : r # p => HistoryLink(r)'
  <2>. SUFFICES ASSUME NEW r \in Peer, r # p PROVE HistoryLink(r)'  OBVIOUS
  <2>1. HistoryLink(r)  BY DEF SubGameInv
  <2>2. pushed'[r] = pushed[r] /\ step'[r] = step[r] /\ cell'[r] = cell[r]  BY <1>1, <1>2, <1>3, <1>4, <1>5
  <2>. QED  BY <2>1, <2>2 DEF HistoryLink
<1>10. \A r \in Peer : InboxLink(r)'
  <2>1. InboxLink(Other(p))'
    <3>1. InboxLink(Other(p))  BY <1>1, <1>2, <1>3, <1>4, <1>5 DEF SubGameInv
    <3>2. {t \in pushed[p] \cup {turn} : t.step <= step[p]} = {t \in pushed[p] : t.step <= step[p]}
      BY <1>1, <1>2, <1>3, <1>4, <1>5
    <3>3. step[p] \in {step'[p], step'[p] - 1}  BY <1>1, <1>2, <1>3, <1>4, <1>5
    <3>4. Heard(Other(p))' = step[p]  BY <1>1, <1>2, <1>3, <1>4, <1>5
    <3>. QED  BY <1>1, <1>2, <1>3, <1>4, <1>5, <3>1, <3>2, <3>3, <3>4 DEF InboxLink
  <2>2. ASSUME NEW r \in Peer, r # Other(p) PROVE InboxLink(r)'
    <3>1. InboxLink(r) /\ Other(r) # p /\ Other(r) \in Peer /\ Heard(r)' = Heard(r)
      BY <1>1, <1>2, <1>3, <1>4, <1>5, <2>2, PeerFacts DEF SubGameInv
    <3>. QED  BY <1>1, <1>2, <1>3, <1>4, <1>5, <3>1 DEF InboxLink
  <2>. QED  BY <2>1, <2>2
<1>11. \A r \in Peer : CallLink(r)'
  <2>. SUFFICES ASSUME NEW r \in Peer PROVE CallLink(r)'  OBVIOUS
  <2>1. CallLink(r) /\ Heard(Other(r))' = Heard(Other(r)) /\ Other(r) \in Peer
    BY <1>1, <1>2, <1>3, <1>4, <1>5, PeerFacts DEF SubGameInv
  <2>2. CASE r = p
    <3>1. reply'[p] = None /\ call'[p] # None /\ call'[p] \in Turns
      BY <1>1, <1>2, <1>3, <1>4, <1>5, <2>1, <2>2, KindFacts DEF CallLink, Calling
    <3>2. /\ pc'[p] \in {"turnSent", "finalSent"} /\ call'[p] \in pushed'[p]
          /\ call'[p].step = step'[p] /\ call'[p] \notin Audits
      BY <1>1, <1>2, <1>3, <1>4, <1>5, KindFacts
    <3>. QED  BY <2>2, <3>1, <3>2, KindFacts DEF CallLink, Calling, Acked
  <2>3. CASE r # p  BY <1>1, <1>2, <1>3, <1>4, <1>5, <2>1, <2>3 DEF CallLink
  <2>. QED  BY <2>2, <2>3
<1>12. CauseLink'
  <2>1. \A r \in Peer : pc'[r] = "failed" => pc[r] = "failed"  BY <1>1, <1>2, <1>3, <1>4, <1>5
  <2>. QED  BY <1>1, <1>2, <1>3, <1>4, <1>5, <2>1 DEF SubGameInv, CauseLink
<1>. QED  BY <1>8, <1>9, <1>10, <1>11, <1>12

(* The thief's half-turn answers the last claim; the police has settled    *)
(* nothing yet.                                                            *)
LEMMA ThiefPushKeeps ==
  ASSUME SubGameInv, NEW action, NEW waiting, Pushes(Thief, action, waiting)
  PROVE  CountLink' /\ BoardLink' /\ AnswerLink' /\ PoliceEnd' /\ MetLink'
<1>. DEFINE turn == HalfTurn(Thief, action)
<1>1. /\ audit' = audit /\ outcome' = outcome /\ pc[Thief] \in {"turn", "settle"}
      /\ waiting \in {"turnSent", "finalSent"} /\ action \in Lawful(Thief, blocked[Thief], cell[Thief])
  BY DEF Pushes
<1>2. /\ turn.step = step[Thief] + 1 /\ turn.answer = pending[Thief] /\ turn.claim = {}
  BY PeerFacts DEF HalfTurn
<1>3. turn \in Turns /\ Placed(action) = {}  BY <1>1, TurnFacts, PeerFacts
<1>4. /\ pushed'[Thief] = pushed[Thief] \cup {turn} /\ step'[Thief] = step[Thief] + 1
      /\ blocked'[Thief] = blocked[Thief] \cup Placed(action) /\ pc'[Thief] = waiting
      /\ \A r \in Peer : r # Thief =>
           /\ pushed'[r] = pushed[r] /\ step'[r] = step[r] /\ cell'[r] = cell[r]
           /\ blocked'[r] = blocked[r] /\ pending'[r] = pending[r] /\ pc'[r] = pc[r]
  BY PushMoves, PeerFacts
<1>. HIDE DEF turn
<1>5. /\ pushed'[Police] = pushed[Police] /\ step'[Police] = step[Police] /\ cell'[Police] = cell[Police]
      /\ blocked'[Police] = blocked[Police] /\ blocked'[Thief] = blocked[Thief]
      /\ pending'[Police] = pending[Police] /\ pc'[Police] = pc[Police]
  BY <1>3, <1>4, PeerFacts
<1>6. /\ Taken(Thief)' = Taken(Thief) /\ Taken(Police)' = Taken(Police)
      /\ step[Police] = step[Thief] /\ Taken(Thief) = step[Thief] /\ Taken(Police) = step[Thief]
      /\ step[Thief] \in Nat
  <2>1. /\ Taken(Other(Thief)) = step[Thief] /\ step[Police] = step[Thief]
        /\ Taken(Thief) = step[Thief] /\ \A r \in Peer : Taken(r)' = Taken(r)
    BY PushCounts, PeerFacts
  <2>2. step[Thief] \in Nat  BY PeerFacts DEF SubGameInv, TypeOK
  <2>. QED  BY <2>1, <2>2, PeerFacts
<1>7. \A old \in pushed[Thief] : old.step \in 1 .. step[Thief]
  <2>1. HistoryLink(Thief)  BY PeerFacts DEF SubGameInv
  <2>. QED  BY <2>1 DEF HistoryLink
<1>8. \A asked \in pushed[Police] : asked.step \in 1 .. step[Police]
  <2>1. HistoryLink(Police)  BY PeerFacts DEF SubGameInv
  <2>. QED  BY <2>1 DEF HistoryLink
<1>9. CountLink /\ BoardLink /\ AnswerLink /\ PoliceEnd /\ MetLink  BY DEF SubGameInv
<1>10. CountLink'
  BY <1>1, <1>4, <1>5, <1>6, <1>9 DEF CountLink, Over
<1>11. BoardLink'  BY <1>5, <1>6, <1>9 DEF BoardLink
<1>12. AnswerLink'
  <2>1. pc'[Thief] \notin {"turn", "settle"}  BY <1>1, <1>4
  <2>2. ASSUME NEW t \in pushed'[Thief], NEW before \in pushed'[Thief], NEW asked \in pushed'[Police],
               t.step = asked.step + 1, before.step = asked.step
        PROVE AnswersClaim(t.answer, asked, before.commit.cell)
    <3>1. asked \in pushed[Police] /\ asked.step \in 1 .. step[Thief]  BY <1>5, <1>6, <1>8
    <3>2. before \in pushed[Thief]
      <4>1. before # turn  BY <1>2, <1>6, <2>2, <3>1
      <4>. QED  BY <1>4, <4>1
    <3>3. CASE t \in pushed[Thief]  BY <1>9, <2>2, <3>1, <3>2, <3>3 DEF AnswerLink
    <3>4. CASE t = turn
      <4>1. asked.step = step[Thief] /\ step[Thief] > 0  BY <1>2, <1>6, <2>2, <3>1, <3>4
      <4>2. AnswersClaim(pending[Thief], asked, cell[Thief])
        BY <1>1, <1>9, <3>1, <4>1 DEF AnswerLink
      <4>3. before.commit.cell = cell[Thief]
        <5>1. HistoryLink(Thief)  BY PeerFacts DEF SubGameInv
        <5>2. before.step = step[Thief]  BY <2>2, <4>1
        <5>. QED  BY <3>2, <5>1, <5>2 DEF HistoryLink
      <4>. QED  BY <1>2, <3>4, <4>2, <4>3
    <3>. QED  BY <1>4, <3>3, <3>4
  <2>3. pending'[Police] = None  BY <1>5, <1>9 DEF AnswerLink
  <2>4. \A t, before \in pushed'[Thief] : \A asked \in pushed'[Police] :
          t.step = asked.step + 1 /\ before.step = asked.step =>
            AnswersClaim(t.answer, asked, before.commit.cell)
    BY <2>2
  <2>5. \A a, b, c : AnswersClaim(a, b, c)' <=> AnswersClaim(a, b, c)  BY DEF AnswersClaim
  <2>. QED  BY <2>1, <2>3, <2>4 DEF AnswerLink, AnswersClaim
<1>13. PoliceEnd'
  <2>1. outcome[Police] = "NONE"  BY <1>6, <1>9, PeerFacts DEF PoliceEnd, SubGameInv, TypeOK
  <2>2. Taken(Police) > 0 => Said(Taken(Police), outcome[Police])  BY <1>9 DEF PoliceEnd
  <2>3. Taken(Police) > 0 => \A t \in pushed'[Thief] : t.step = Taken(Police) => SaidBy(t) = outcome[Police]
    <3>. SUFFICES ASSUME Taken(Police) > 0, NEW t \in pushed'[Thief], t.step = Taken(Police)
                  PROVE SaidBy(t) = outcome[Police]
      OBVIOUS
    <3>1. t \in pushed[Thief]  BY <1>2, <1>4, <1>6
    <3>. QED  BY <2>2, <3>1 DEF Said
  <2>4. pc'[Police] \in Over => FALSE  BY <1>5, <1>9, <2>1 DEF PoliceEnd
  <2>. QED  BY <1>1, <1>5, <1>6, <1>9, <2>1, <2>3, <2>4 DEF PoliceEnd, Said
<1>14. MetLink'
  <2>. SUFFICES ASSUME NEW asked \in pushed'[Police], NEW t \in pushed'[Thief],
                       asked.step = t.step, asked.claim = {t.commit.cell}
                PROVE asked.step = step'[Police]
    BY DEF MetLink
  <2>1. asked \in pushed[Police] /\ asked.step \in 1 .. step[Thief]  BY <1>5, <1>6, <1>8
  <2>2. t \in pushed[Thief]  BY <1>2, <1>4, <1>6, <2>1
  <2>. QED  BY <1>5, <1>9, <2>1, <2>2 DEF MetLink
<1>. QED  BY <1>10, <1>11, <1>12, <1>13, <1>14

(* A thief that moves was not caught, and is not walled in where it goes.  *)
LEMMA KeepsThiefTurn ==
  ASSUME SubGameInv, TakeTurn(Thief)
  PROVE  SubGameInv'
<1>1. PICK action \in Lawful(Thief, blocked[Thief], cell[Thief]) : Push(Thief, action, "turnSent")
  BY DEF TakeTurn
<1>2. /\ pc[Thief] = "turn" /\ causes' = causes /\ outcome' = outcome
      /\ Pushes(Thief, action, "turnSent")
  BY <1>1, PeerFacts DEF TakeTurn, Pushes
<1>. DEFINE turn == HalfTurn(Thief, action)
<1>3. CauseLink' /\ \A r \in Peer : HistoryLink(r)' /\ InboxLink(r)' /\ CallLink(r)'
  BY <1>2, PushKeeps, PeerFacts
<1>4. CountLink' /\ BoardLink' /\ AnswerLink' /\ PoliceEnd' /\ MetLink'
  BY <1>2, ThiefPushKeeps
<1>5. TypeOK' /\ pushed'[Thief] = pushed[Thief] \cup {turn} /\ step'[Thief] = step[Thief] + 1
      /\ blocked'[Thief] = blocked[Thief] \cup Placed(action) /\ pc'[Thief] = "turnSent"
      /\ cell'[Thief] = CellAfter(cell[Thief], action)
  BY <1>2, PushMoves, PeerFacts
<1>6. turn.step = step[Thief] + 1 /\ turn.answer = pending[Thief]  BY DEF HalfTurn
<1>7. Placed(action) = {}  BY <1>1, TurnFacts, PeerFacts
<1>. HIDE DEF turn
<1>8. /\ step[Thief] < SurvivalThreshold /\ outcome[Thief] = "NONE" /\ ~Walled
      /\ ~Says([answer |-> pending[Thief]], TRUE)
  BY <1>2 DEF SubGameInv, ThiefEnd, InPlay
<1>9. ~Walled'
  <2>1. blocked[Thief] \in SUBSET Cells /\ cell[Thief] \in Cells
    BY PeerFacts DEF SubGameInv, TypeOK
  <2>2. ~SelfCaptured(Thief, blocked[Thief], CellAfter(cell[Thief], action))
    BY <1>1, <1>8, <2>1, StaysFree DEF Walled
  <2>3. blocked'[Thief] = blocked[Thief]  BY <1>5, <1>7
  <2>. QED  BY <1>5, <2>2, <2>3 DEF Walled
<1>10. ~Says(turn, TRUE)  BY <1>6, <1>8 DEF Says
<1>11. \A t \in pushed'[Thief] : t.step = step'[Thief] => ~Says(t, TRUE)
  <2>1. HistoryLink(Thief)  BY PeerFacts DEF SubGameInv
  <2>2. \A old \in pushed[Thief] : old.step \in 1 .. step[Thief]  BY <2>1 DEF HistoryLink
  <2>3. step[Thief] \in Nat  BY PeerFacts DEF SubGameInv, TypeOK
  <2>4. \A t \in pushed'[Thief] : t.step = step'[Thief] => t = turn  BY <1>5, <2>2, <2>3
  <2>. QED  BY <1>10, <2>4
<1>12. step'[Thief] <= SurvivalThreshold
  <2>1. step[Thief] \in Nat  BY PeerFacts DEF SubGameInv, TypeOK
  <2>. QED  BY <1>5, <1>8, <2>1, BoardFacts
<1>13. ThiefEnd'
  BY <1>2, <1>5, <1>8, <1>9, <1>11, <1>12 DEF ThiefEnd, InPlay, Over
<1>. QED  BY <1>3, <1>4, <1>5, <1>13 DEF SubGameInv

(* The last STAY leaves the thief where the claim found it.                *)
LEMMA KeepsSendFinal ==
  ASSUME SubGameInv, NEW p \in Peer, SendFinal(p)
  PROVE  SubGameInv'
<1>1. p = Thief
  <2>1. p = Police => pending[p] = None  BY DEF SubGameInv, AnswerLink
  <2>. QED  BY <2>1, PeerFacts DEF SendFinal, Owes
<1>2. cell[Thief] \in Cells /\ blocked[Thief] \in SUBSET Cells /\ step[Thief] \in Nat
  BY PeerFacts DEF SubGameInv, TypeOK
<1>3. Stay \in Lawful(Thief, blocked[Thief], cell[Thief])
  <2>1. LegalMove(blocked[Thief], cell[Thief], Stay.arg)  BY <1>1 DEF SendFinal
  <2>. QED  BY <1>2, <2>1, StayFacts, PeerFacts
<1>4. /\ pc[Thief] = "settle" /\ outcome' = outcome /\ causes \subseteq causes'
      /\ outcome[Thief] = "CAPTURE" /\ ~Says(call'[Thief], TRUE) => causes' # {}
      /\ Pushes(Thief, Stay, "finalSent")
  BY <1>1, <1>3, PeerFacts DEF SendFinal, Pushes
<1>. DEFINE turn == HalfTurn(Thief, Stay)
<1>5. CauseLink' /\ \A r \in Peer : HistoryLink(r)' /\ InboxLink(r)' /\ CallLink(r)'
  BY <1>4, PushKeeps, PeerFacts
<1>6. CountLink' /\ BoardLink' /\ AnswerLink' /\ PoliceEnd' /\ MetLink'
  BY <1>4, ThiefPushKeeps
<1>7. TypeOK' /\ pushed'[Thief] = pushed[Thief] \cup {turn} /\ step'[Thief] = step[Thief] + 1
      /\ blocked'[Thief] = blocked[Thief] \cup Placed(Stay) /\ pc'[Thief] = "finalSent"
      /\ cell'[Thief] = CellAfter(cell[Thief], Stay) /\ call'[Thief] = turn
  BY <1>4, PushMoves, PeerFacts
<1>8. cell'[Police] = cell[Police] /\ step'[Police] = step[Police]
  BY <1>4, PushMoves, PeerFacts
<1>9. turn.step = step[Thief] + 1 /\ turn.answer = pending[Thief]  BY DEF HalfTurn
<1>. HIDE DEF turn
<1>10. Placed(Stay) = {} /\ CellAfter(cell[Thief], Stay) = cell[Thief]  BY <1>2, StayFacts
<1>11. /\ step[Thief] < SurvivalThreshold /\ outcome[Thief] = "CAPTURE" /\ step[Thief] > 0
       /\ cell[Police] = cell[Thief] \/ Walled
  BY <1>4 DEF SubGameInv, ThiefEnd
<1>12. Taken(Thief)' = Taken(Thief) /\ Taken(Thief) = step[Thief] /\ step[Police] = step[Thief]
  BY <1>4, PushCounts, PeerFacts
<1>13. /\ blocked'[Thief] = blocked[Thief] /\ cell'[Thief] = cell[Thief] /\ Walled' = Walled
  BY <1>7, <1>10 DEF Walled
<1>14. Says(turn, TRUE) <=> cell[Police] = cell[Thief]
  <2>1. HistoryLink(Police)  BY PeerFacts DEF SubGameInv
  <2>2. step[Police] \in 1 .. step[Police]  BY <1>2, <1>11, <1>12
  <2>3. PICK asked \in pushed[Police] : asked.step = step[Police]  BY <2>1, <2>2 DEF HistoryLink
  <2>4. asked.claim = {cell[Police]}  BY <2>1, <2>3 DEF HistoryLink
  <2>5. AnswersClaim(pending[Thief], asked, cell[Thief])
    BY <1>4, <1>11, <1>12, <2>3 DEF SubGameInv, AnswerLink
  <2>6. turn.answer # None /\ turn.answer.caught = ({cell[Police]} = {cell[Thief]})
    BY <1>9, <2>4, <2>5 DEF AnswersClaim
  <2>. QED  BY <2>6 DEF Says
<1>15. Says(turn, TRUE) \/ causes' # {}  BY <1>4, <1>7, <1>11
<1>16. \A t \in pushed'[Thief] : t.step = step'[Thief] => t = turn
  <2>1. HistoryLink(Thief)  BY PeerFacts DEF SubGameInv
  <2>2. \A old \in pushed[Thief] : old.step \in 1 .. step[Thief]  BY <2>1 DEF HistoryLink
  <2>. QED  BY <1>2, <1>7, <2>2
<1>17. step'[Thief] <= SurvivalThreshold  BY <1>2, <1>7, <1>11, BoardFacts
<1>18. ~(Taken(Thief)' < step'[Police])  BY <1>2, <1>8, <1>12
<1>19. ThiefEnd'
  BY <1>4, <1>7, <1>8, <1>11, <1>13, <1>14, <1>15, <1>16, <1>17, <1>18 DEF ThiefEnd, InPlay, Over
<1>. QED  BY <1>5, <1>6, <1>7, <1>19 DEF SubGameInv

(* The police takes a turn only while the thief said nothing of an end: it *)
(* was not on the cell claimed last.                                       *)
LEMMA KeepsPoliceTurn ==
  ASSUME SubGameInv, TakeTurn(Police)
  PROVE  SubGameInv'
<1>1. PICK action \in Lawful(Police, blocked[Police], cell[Police]) : Push(Police, action, "turnSent")
  BY DEF TakeTurn
<1>2. /\ pc[Police] = "turn" /\ causes' = causes /\ outcome' = outcome
      /\ Pushes(Police, action, "turnSent")
  BY <1>1, PeerFacts DEF TakeTurn, Pushes
<1>. DEFINE turn == HalfTurn(Police, action)
<1>3. CauseLink' /\ \A r \in Peer : HistoryLink(r)' /\ InboxLink(r)' /\ CallLink(r)'
  BY <1>2, PushKeeps, PeerFacts
<1>4. /\ TypeOK' /\ pushed'[Police] = pushed[Police] \cup {turn} /\ step'[Police] = step[Police] + 1
      /\ blocked'[Police] = blocked[Police] \cup Placed(action) /\ pc'[Police] = "turnSent"
      /\ cell'[Police] = CellAfter(cell[Police], action) /\ pending'[Police] = None
  BY <1>2, PushMoves, PeerFacts
<1>5. /\ pushed'[Thief] = pushed[Thief] /\ step'[Thief] = step[Thief] /\ cell'[Thief] = cell[Thief]
      /\ blocked'[Thief] = blocked[Thief] /\ pending'[Thief] = pending[Thief] /\ pc'[Thief] = pc[Thief]
  BY <1>2, PushMoves, PeerFacts
<1>6. turn.step = step[Police] + 1 /\ turn.barrier = Placed(action)  BY DEF HalfTurn
<1>. HIDE DEF turn
<1>7. /\ Taken(Thief)' = Taken(Thief) /\ Taken(Police)' = Taken(Police)
      /\ step[Thief] = step[Police] + 1 /\ Taken(Police) = step[Police] + 1
      /\ Taken(Thief) = step[Police] /\ step[Police] \in Nat
  <2>1. /\ Taken(Other(Police)) = step[Police] /\ step[Thief] = step[Police] + 1
        /\ Taken(Police) = step[Police] + 1 /\ \A r \in Peer : Taken(r)' = Taken(r)
    BY <1>2, PushCounts, PeerFacts
  <2>2. step[Police] \in Nat  BY PeerFacts DEF SubGameInv, TypeOK
  <2>. QED  BY <2>1, <2>2, PeerFacts
<1>8. \A old \in pushed[Police] : old.step \in 1 .. step[Police]
  <2>1. HistoryLink(Police)  BY PeerFacts DEF SubGameInv
  <2>. QED  BY <2>1 DEF HistoryLink
<1>9. \A t \in pushed[Thief] : t.step \in 1 .. step[Thief]
  <2>1. HistoryLink(Thief)  BY PeerFacts DEF SubGameInv
  <2>. QED  BY <2>1 DEF HistoryLink
<1>10. CountLink /\ BoardLink /\ AnswerLink /\ PoliceEnd /\ ThiefEnd /\ MetLink  BY DEF SubGameInv
<1>11. outcome[Police] = "NONE"  BY <1>2, <1>10 DEF PoliceEnd, InPlay
<1>12. PICK last \in pushed[Thief] : last.step = step[Thief]
  <2>1. HistoryLink(Thief)  BY PeerFacts DEF SubGameInv
  <2>2. step[Thief] \in 1 .. step[Thief]  BY <1>7
  <2>. QED  BY <2>1, <2>2 DEF HistoryLink
<1>13. ~Says(last, TRUE)
  <2>1. Taken(Police) > 0 /\ Taken(Police) = step[Thief]  BY <1>7
  <2>2. SaidBy(last) = "NONE"  BY <1>10, <1>11, <1>12, <2>1 DEF PoliceEnd, Said
  <2>. QED  BY <2>2 DEF SaidBy
<1>14. CountLink'
  BY <1>4, <1>5, <1>7, <1>10 DEF CountLink, Over
<1>15. BoardLink'
  <2>1. blocked[Thief] = blocked[Police]  BY <1>7, <1>10 DEF BoardLink
  <2>2. ~(Taken(Thief)' = step'[Police])  BY <1>4, <1>7
  <2>3. \A t \in pushed'[Police] : t.step = step'[Police] => t = turn  BY <1>4, <1>7, <1>8
  <2>4. blocked'[Police] = blocked'[Thief] \cup turn.barrier  BY <1>4, <1>5, <1>6, <2>1
  <2>. QED  BY <2>2, <2>3, <2>4 DEF BoardLink
<1>16. AnswerLink'
  <2>1. pc'[Thief] \notin {"turn", "settle"}  BY <1>5, <1>7, <1>10 DEF CountLink
  <2>2. ASSUME NEW t \in pushed'[Thief], NEW before \in pushed'[Thief], NEW asked \in pushed'[Police],
               t.step = asked.step + 1, before.step = asked.step
        PROVE AnswersClaim(t.answer, asked, before.commit.cell)
    <3>1. t \in pushed[Thief] /\ before \in pushed[Thief] /\ t.step \in 1 .. step[Police] + 1
      BY <1>5, <1>7, <1>9
    <3>2. asked # turn  BY <1>6, <1>7, <2>2, <3>1
    <3>3. asked \in pushed[Police]  BY <1>4, <3>2
    <3>. QED  BY <1>10, <2>2, <3>1, <3>3 DEF AnswerLink
  <2>3. \A t, before \in pushed'[Thief] : \A asked \in pushed'[Police] :
          t.step = asked.step + 1 /\ before.step = asked.step =>
            AnswersClaim(t.answer, asked, before.commit.cell)
    BY <2>2
  <2>. QED  BY <1>4, <2>1, <2>3 DEF AnswerLink, AnswersClaim
<1>17. PoliceEnd'
  <2>1. \A s, end : Said(s, end)' <=> Said(s, end)  BY <1>5 DEF Said
  <2>. QED  BY <1>2, <1>4, <1>7, <1>10, <1>11, <2>1 DEF PoliceEnd, InPlay, Over
<1>18. ThiefEnd'
  <2>1. Walled' = Walled  BY <1>5 DEF Walled
  <2>2. outcome[Thief] = "CAPTURE" => Walled
    <3>1. SUFFICES ASSUME outcome[Thief] = "CAPTURE" PROVE Walled  OBVIOUS
    <3>2. ~(cell[Police] = cell[Thief])  BY <1>7, <1>10, <1>12, <1>13, <3>1 DEF ThiefEnd
    <3>. QED  BY <1>10, <3>1, <3>2 DEF ThiefEnd
  <2>3. \A t \in pushed[Thief] : t.step = step[Thief] => ~Says(t, TRUE)
    <3>1. HistoryLink(Thief)  BY PeerFacts DEF SubGameInv
    <3>2. \A t \in pushed[Thief] : t.step = step[Thief] => t = last
      BY <1>12, <3>1 DEF HistoryLink
    <3>. QED  BY <1>13, <3>2
  <2>4. ~(Taken(Thief)' = step'[Police])  BY <1>4, <1>7
  <2>5. \A t \in pushed[Thief] : t.step = step[Thief] /\ outcome[Thief] = "CAPTURE" =>
          Says(t, TRUE) \/ causes # {}
    BY <1>7, <1>10 DEF ThiefEnd
  <2>6. /\ step[Thief] <= SurvivalThreshold
        /\ pc[Thief] \in {"turn", "awaitTurn", "settle"} => step[Thief] < SurvivalThreshold
        /\ pc[Thief] \in InPlay => outcome[Thief] = "NONE" /\ ~Walled
        /\ pc[Thief] = "turn" => ~Says([answer |-> pending[Thief]], TRUE)
        /\ pc[Thief] = "settle" => outcome[Thief] = "CAPTURE" /\ step[Thief] > 0
        /\ pc[Thief] \in Over => outcome[Thief] # "NONE"
        /\ outcome[Thief] = "SURVIVAL" =>
             step[Thief] = SurvivalThreshold /\ step[Thief] = Taken(Thief) + 1
    BY <1>10 DEF ThiefEnd
  <2>. QED  BY <1>2, <1>5, <1>7, <2>1, <2>2, <2>3, <2>4, <2>5, <2>6 DEF ThiefEnd
<1>19. MetLink'
  <2>. SUFFICES ASSUME NEW asked \in pushed'[Police], NEW t \in pushed'[Thief],
                       asked.step = t.step, asked.claim = {t.commit.cell}
                PROVE asked.step = step'[Police]
    BY DEF MetLink
  <2>1. t \in pushed[Thief]  BY <1>5
  <2>2. CASE asked = turn  BY <1>4, <1>6, <2>2
  <2>3. CASE asked \in pushed[Police]
    <3>1. asked.step = step[Police]  BY <1>10, <2>1, <2>3 DEF MetLink
    <3>2. AnswersClaim(last.answer, asked, t.commit.cell)
      BY <1>7, <1>10, <1>12, <2>1, <2>3, <3>1 DEF AnswerLink
    <3>3. Says(last, TRUE)  BY <3>2 DEF AnswersClaim, Says
    <3>. QED  BY <1>13, <3>3
  <2>. QED  BY <1>4, <2>2, <2>3
<1>. QED  BY <1>3, <1>4, <1>14, <1>15, <1>16, <1>17, <1>18, <1>19 DEF SubGameInv

-----------------------------------------------------------------------------
LEMMA SubGameNext == SubGameInv /\ [Next]_vars => SubGameInv'
<1>. SUFFICES ASSUME SubGameInv, [Next]_vars PROVE SubGameInv'  OBVIOUS
<1>1. ASSUME NEW p \in Peer, Drive(p) PROVE SubGameInv'
  <2>1. CASE TakeTurn(p)  BY <2>1, KeepsPoliceTurn, KeepsThiefTurn, PeerFacts
  <2>2. CASE NoAction(p)  BY <2>2, KeepsNoAction
  <2>3. CASE TurnAnswered(p)  BY <2>3, KeepsTurnAnswered
  <2>4. CASE Consume(p)  BY <2>4, KeepsConsume
  <2>5. CASE SendFinal(p)  BY <2>5, KeepsSendFinal
  <2>6. CASE FinalRefused(p)  BY <2>6, KeepsFinalRefused
  <2>7. CASE SettleSilently(p)  BY <2>7, KeepsSettleSilently
  <2>8. CASE FinalAnswered(p)  BY <2>8, KeepsFinalAnswered
  <2>9. CASE Disclose(p)  BY <2>9, KeepsDisclose
  <2>10. CASE AuditAnswered(p)  BY <2>10, KeepsAuditAnswered
  <2>11. CASE Return(p)  BY <2>11, KeepsReturn
  <2>12. CASE SendFailed(p)  BY <2>12, KeepsSendFailed
  <2>. QED  BY <1>1, <2>1, <2>2, <2>3, <2>4, <2>5, <2>6, <2>7, <2>8, <2>9, <2>10, <2>11, <2>12 DEF Drive
<1>2. ASSUME NEW p \in Peer, Serve(p) PROVE SubGameInv'
  BY <1>2, KeepsDeliverTurn, KeepsDeliverAudit DEF Serve
<1>3. ASSUME NEW p \in Peer, Fault(p) PROVE SubGameInv'
  <2>1. CASE DeliverCopy(p)  BY <2>1, KeepsDeliverCopy
  <2>2. CASE LoseCall(p)  BY <2>2, KeepsLoseCall
  <2>3. CASE LoseReply(p)  BY <2>3, KeepsLoseReply
  <2>4. CASE Timeout(p)  BY <2>4, KeepsTimeout
  <2>5. CASE Crash(p)  BY <2>5, KeepsCrash
  <2>. QED  BY <1>3, <2>1, <2>2, <2>3, <2>4, <2>5 DEF Fault
<1>4. CASE UNCHANGED vars
  <2>1. GameStays /\ Control  BY <1>4 DEF GameStays, Control, vars, play
  <2>2. /\ audit' = audit /\ call' = call /\ reply' = reply /\ pc' = pc /\ causes' = causes
        /\ pushed' = pushed /\ step' = step /\ inbox' = inbox
    BY <1>4 DEF vars, play, network
  <2>3. TypeOK'  BY <2>1, <2>2, ControlTypes DEF SubGameInv, TypeOK
  <2>4. \A p \in Peer : CallLink(p)'
    <3>. SUFFICES ASSUME NEW p \in Peer PROVE CallLink(p)'  OBVIOUS
    <3>1. CallLink(p)  BY DEF SubGameInv
    <3>2. Heard(Other(p))' = Heard(Other(p))  BY <2>2 DEF Heard
    <3>. QED  BY <2>2, <3>1, <3>2 DEF CallLink
  <2>5. CauseLink'  BY <2>2 DEF SubGameInv, CauseLink
  <2>. QED  BY <2>1, <2>3, <2>4, <2>5, ControlStep
<1>5. CASE Finished  BY <1>4, <1>5 DEF Finished
<1>. QED  BY <1>1, <1>2, <1>3, <1>4, <1>5 DEF Next

LEMMA SubGameAlways == Spec => []SubGameInv
  BY SubGameInit, SubGameNext, PTL DEF Spec

-----------------------------------------------------------------------------
(* Every claim is answered, truly, on whatever board and whatever the      *)
(* network does: the thief computes its answer from the cell it stands on  *)
(* when the claim comes in, and that is the cell its last turn sealed      *)
(* (`KitSubGame._consume`).                                                *)
THEOREM EveryClaimIsAnswered == Spec => []EveryClaimAnswered
<1>1. SubGameInv => EveryClaimAnswered
  <2>. SUFFICES ASSUME SubGameInv, NEW turn \in pushed[Thief], turn.step > 1
                PROVE LET asked == TurnAt(Police, turn.step - 1)
                          stood == TurnAt(Thief, turn.step - 1).commit.cell
                      IN /\ turn.answer # None
                         /\ {turn.answer.claim} = asked.claim
                         /\ turn.answer.caught = (asked.claim = {stood})
    BY DEF EveryClaimAnswered
  <2>. DEFINE asked == TurnAt(Police, turn.step - 1)
              before == TurnAt(Thief, turn.step - 1)
  <2>1. HistoryLink(Police) /\ HistoryLink(Thief)  BY PeerFacts DEF SubGameInv
  <2>2. turn.step \in 1 .. step[Thief] /\ step[Thief] <= step[Police] + 1
        /\ step[Thief] \in Nat /\ step[Police] \in Nat
    <3>1. turn.step \in 1 .. step[Thief]  BY <2>1 DEF HistoryLink
    <3>. QED  BY <3>1, Counts, PeerFacts
  <2>3. turn.step - 1 \in 1 .. step[Police] /\ turn.step - 1 \in 1 .. step[Thief]
    BY <2>2
  <2>4. /\ \E t \in pushed[Police] : t.step = turn.step - 1
        /\ \E t \in pushed[Thief] : t.step = turn.step - 1
    BY <2>1, <2>3 DEF HistoryLink
  <2>5. /\ asked \in pushed[Police] /\ asked.step = turn.step - 1
        /\ before \in pushed[Thief] /\ before.step = turn.step - 1
    BY <2>4 DEF TurnAt
  <2>. HIDE DEF asked, before
  <2>6. turn.step = asked.step + 1  BY <2>2, <2>5
  <2>7. AnswersClaim(turn.answer, asked, before.commit.cell)
    BY <2>5, <2>6 DEF SubGameInv, AnswerLink
  <2>. QED  BY <2>7 DEF AnswersClaim, asked, before
<1>. QED  BY <1>1, SubGameAlways, PTL

(* An end event is true, on whatever board: what either side settles is    *)
(* what the sealed chains show, and two sides that settle agree unless the *)
(* thief was walled in (`adjudicate`, `KitSubGame._settle`).               *)
THEOREM EndsAreTrueOnAnyBoard == Spec => []EndsAreTrue
<1>1. SubGameInv => EndsAreTrue
  <2>. SUFFICES ASSUME SubGameInv PROVE EndsAreTrue  OBVIOUS
  <2>1. PoliceEnd /\ ThiefEnd /\ HistoryLink(Thief)  BY PeerFacts DEF SubGameInv
  <2>2. Walled => ThiefWalled
    BY DEF Walled, ThiefWalled, SelfCaptured, Trapped
  <2>3. /\ step[Police] \in Nat /\ step[Thief] \in Nat /\ Taken(Police) \in Nat /\ Taken(Thief) \in Nat
        /\ Taken(Police) <= step[Thief] /\ step[Thief] <= Taken(Thief) + 1
        /\ Taken(Thief) <= step[Police]
    <3>1. /\ \A p \in Peer : step[p] \in Nat /\ Heard(p) \in Nat /\ Taken(p) \in Nat
          /\ Taken(Police) <= Heard(Police)
          /\ Heard(Police) <= step[Thief] /\ step[Thief] <= Taken(Thief) + 1
          /\ Taken(Thief) <= Heard(Thief) /\ Heard(Thief) <= step[Police]
      BY Counts
    <3>2. /\ step[Police] \in Nat /\ step[Thief] \in Nat /\ Taken(Police) \in Nat /\ Taken(Thief) \in Nat
          /\ Heard(Police) \in Nat /\ Heard(Thief) \in Nat
      BY <3>1, PeerFacts
    <3>. QED  BY <3>1, <3>2
  <2>4. ASSUME Settled(Police)
        PROVE /\ step[Thief] = Taken(Thief) + 1 /\ Taken(Thief) = step[Police]
              /\ \E turn \in pushed[Thief] : turn.step = step[Thief] /\ SaidBy(turn) = outcome[Police]
    <3>1. Taken(Police) = step[Police] + 1  BY <2>1, <2>4 DEF PoliceEnd, Settled
    <3>2. /\ step[Thief] = step[Police] + 1 /\ Taken(Thief) = step[Police]
          /\ Taken(Police) > 0 /\ Taken(Police) = step[Thief] /\ step[Thief] \in 1 .. step[Thief]
      BY <2>3, <3>1
    <3>3. PICK turn \in pushed[Thief] : turn.step = step[Thief]  BY <2>1, <3>2 DEF HistoryLink
    <3>4. SaidBy(turn) = outcome[Police]  BY <2>1, <3>2, <3>3 DEF PoliceEnd, Said
    <3>. QED  BY <3>2, <3>3, <3>4
  <2>5. outcome[Police] = "SURVIVAL" => step[Thief] = SurvivalThreshold
    <3>. SUFFICES ASSUME outcome[Police] = "SURVIVAL" PROVE step[Thief] = SurvivalThreshold
      OBVIOUS
    <3>1. PICK turn \in pushed[Thief] : turn.step = step[Thief] /\ SaidBy(turn) = "SURVIVAL"
      BY <2>4 DEF Settled
    <3>2. turn.survival  BY <3>1 DEF SaidBy
    <3>3. turn.survival <=> Survived(Thief, turn.step)  BY <2>1 DEF HistoryLink
    <3>4. step[Thief] >= SurvivalThreshold  BY <3>1, <3>2, <3>3 DEF Survived
    <3>5. step[Thief] <= SurvivalThreshold  BY <2>1 DEF ThiefEnd
    <3>. QED  BY <2>3, <3>4, <3>5, BoardFacts
  <2>6. ASSUME Settled(Police), Settled(Thief), ~ThiefWalled
        PROVE outcome[Police] = outcome[Thief]
    <3>1. PICK turn \in pushed[Thief] : turn.step = step[Thief] /\ SaidBy(turn) = outcome[Police]
      BY <2>4, <2>6
    <3>2. step[Thief] = Taken(Thief) + 1 /\ Taken(Thief) = step[Police]  BY <2>4, <2>6
    <3>3. outcome[Police] \in {"CAPTURE", "SURVIVAL"} /\ outcome[Thief] \in {"CAPTURE", "SURVIVAL"}
      BY <2>6, PeerFacts DEF SubGameInv, TypeOK, Outcomes, Settled
    <3>4. outcome[Thief] = "CAPTURE" => Says(turn, TRUE)
      BY <2>1, <2>2, <2>6, <3>1, <3>2 DEF ThiefEnd
    <3>5. outcome[Thief] # "CAPTURE" => ~Says(turn, TRUE)
      BY <2>1, <3>1, <3>2 DEF ThiefEnd
    <3>6. outcome[Police] = "CAPTURE" <=> Says(turn, TRUE)
      BY <3>1 DEF SaidBy
    <3>7. CASE outcome[Thief] = "CAPTURE"  BY <3>4, <3>6, <3>7
    <3>8. CASE outcome[Thief] # "CAPTURE"
      <4>1. outcome[Police] # "CAPTURE"  BY <3>5, <3>6, <3>8
      <4>. QED  BY <3>3, <3>8, <4>1
    <3>. QED  BY <3>7, <3>8
  <2>7. /\ outcome[Police] = "CAPTURE" => cell[Police] = cell[Thief]
        /\ outcome[Thief] = "CAPTURE" => cell[Police] = cell[Thief] \/ ThiefWalled
        /\ outcome[Thief] = "SURVIVAL" => step[Thief] = SurvivalThreshold
    BY <2>1, <2>2 DEF PoliceEnd, ThiefEnd
  <2>. QED  BY <2>5, <2>6, <2>7, PeerFacts DEF EndsAreTrue
<1>. QED  BY <1>1, SubGameAlways, PTL

(* Nothing else goes wrong, on whatever board: a loop that failed lost a   *)
(* message or its peer, had no lawful action, or waited for an end that    *)
(* was not said. No honest turn is refused, and two sides are never left   *)
(* waiting for each other (`deliver_turn`, `KitSubGame.play`).             *)
THEOREM EveryFailureHasCause == Spec => []FailureHasCause
<1>1. SubGameInv => FailureHasCause  BY DEF SubGameInv, CauseLink, FailureHasCause
<1>. QED  BY <1>1, SubGameAlways, PTL

-----------------------------------------------------------------------------
(* What the sub-game promises to a player who knows nothing of messages.   *)

(* The police ended its last turn where the thief stood: what `met` means. *)
Met ==
  \E asked \in pushed[Police] : \E turn \in pushed[Thief] :
    asked.step = turn.step /\ asked.claim = {turn.commit.cell}

(* A police that may move heard no end, so there was none.                 *)
LEMMA PoliceMayMove ==
  ASSUME SubGameInv, pc[Police] = "turn"
  PROVE  /\ step[Thief] = step[Police] + 1
         /\ step[Thief] < SurvivalThreshold
         /\ ~Met
<1>1. /\ step[Police] \in Nat /\ step[Thief] \in Nat /\ Taken(Police) = step[Thief]
      /\ step[Thief] = step[Police] + 1
  <2>1. Taken(Police) = step[Police] + 1  BY DEF SubGameInv, CountLink
  <2>2. /\ \A p \in Peer : step[p] \in Nat /\ Heard(p) \in Nat /\ Taken(p) \in Nat
        /\ Taken(Police) <= Heard(Police)
        /\ Heard(Police) <= step[Thief] /\ step[Thief] <= Taken(Thief) + 1
        /\ Taken(Thief) <= Heard(Thief) /\ Heard(Thief) <= step[Police]
    BY Counts
  <2>. QED  BY <2>1, <2>2, PeerFacts
<1>2. HistoryLink(Thief) /\ MetLink /\ AnswerLink  BY PeerFacts DEF SubGameInv
<1>3. PICK last \in pushed[Thief] : last.step = step[Thief]
  <2>1. step[Thief] \in 1 .. step[Thief]  BY <1>1
  <2>. QED  BY <1>2, <2>1 DEF HistoryLink
<1>4. SaidBy(last) = "NONE"
  <2>1. outcome[Police] = "NONE" /\ Taken(Police) > 0  BY <1>1 DEF SubGameInv, PoliceEnd, InPlay
  <2>. QED  BY <1>1, <1>3, <2>1 DEF SubGameInv, PoliceEnd, Said
<1>5. ~Says(last, TRUE) /\ ~last.survival  BY <1>4 DEF SaidBy
<1>6. step[Thief] < SurvivalThreshold
  <2>1. last.survival <=> Survived(Thief, last.step)  BY <1>2 DEF HistoryLink
  <2>. QED  BY <1>1, <1>3, <1>5, <2>1, BoardFacts DEF Survived
<1>7. ~Met
  <2>. SUFFICES ASSUME NEW asked \in pushed[Police], NEW turn \in pushed[Thief],
                       asked.step = turn.step, asked.claim = {turn.commit.cell}
                PROVE FALSE
    BY DEF Met
  <2>1. asked.step = step[Police]  BY <1>2 DEF MetLink
  <2>2. AnswersClaim(last.answer, asked, turn.commit.cell)
    BY <1>1, <1>2, <1>3, <2>1 DEF AnswerLink
  <2>. QED  BY <1>5, <2>2 DEF AnswersClaim, Says
<1>. QED  BY <1>1, <1>6, <1>7

(* A thief that was met only stays.                                        *)
LEMMA ThiefMayMove ==
  ASSUME SubGameInv, pc[Thief] = "turn"
  PROVE  ~Met
<1>. SUFFICES ASSUME NEW asked \in pushed[Police], NEW turn \in pushed[Thief],
                     asked.step = turn.step, asked.claim = {turn.commit.cell}
              PROVE FALSE
  BY DEF Met
<1>1. /\ HistoryLink(Thief) /\ HistoryLink(Police) /\ MetLink /\ AnswerLink
      /\ ~Says([answer |-> pending[Thief]], TRUE)
  BY PeerFacts DEF SubGameInv, ThiefEnd
<1>2. asked.step = step[Police] /\ asked.step \in 1 .. step[Police]
  BY <1>1 DEF MetLink, HistoryLink
<1>3. step[Police] = step[Thief] /\ step[Thief] \in Nat /\ step[Thief] > 0
  <2>1. Taken(Thief) = step[Thief]  BY DEF SubGameInv, CountLink
  <2>2. /\ \A p \in Peer : step[p] \in Nat /\ Heard(p) \in Nat /\ Taken(p) \in Nat
        /\ step[Police] <= Taken(Police) /\ Taken(Police) <= Heard(Police)
        /\ Heard(Police) <= step[Thief]
        /\ Taken(Thief) <= Heard(Thief) /\ Heard(Thief) <= step[Police]
    BY Counts
  <2>3. /\ step[Police] \in Nat /\ step[Thief] \in Nat /\ Taken(Police) \in Nat
        /\ Taken(Thief) \in Nat /\ Heard(Police) \in Nat /\ Heard(Thief) \in Nat
    BY <2>2, PeerFacts
  <2>4. step[Police] = step[Thief]  BY <2>1, <2>2, <2>3
  <2>. QED  BY <1>2, <2>3, <2>4
<1>4. turn.commit.cell = cell[Thief]
  <2>1. turn.step = step[Thief]  BY <1>2, <1>3
  <2>. QED  BY <1>1, <2>1 DEF HistoryLink
<1>5. AnswersClaim(pending[Thief], asked, cell[Thief])
  BY <1>1, <1>2, <1>3 DEF AnswerLink
<1>. QED  BY <1>1, <1>4, <1>5 DEF AnswersClaim, Says

(* The instance reads the same rules.                                      *)
LEMMA SameRules ==
  /\ Alternating!Peer = Peer
  /\ \A p, b, c : Alternating!Lawful(p, b, c) = Lawful(p, b, c)
  /\ \A c, a : Alternating!CellAfter(c, a) = CellAfter(c, a)
  /\ \A a : Alternating!Placed(a) = Placed(a)
  /\ Alternating!Action = Action
  /\ Alternating!Stay = Stay
<1>1. Alternating!Peer = Peer /\ Alternating!Stay = Stay
  BY DEF Alternating!Peer, Peer, Alternating!Stay, Stay
<1>2. \A c, a : Alternating!CellAfter(c, a) = CellAfter(c, a)
  BY DEF Alternating!CellAfter, CellAfter, Alternating!Destination, Destination
<1>3. \A a : Alternating!Placed(a) = Placed(a)
  BY DEF Alternating!Placed, Placed
<1>4. Alternating!Cells = Cells /\ Alternating!Offsets = Offsets
  BY DEF Alternating!Cells, Cells, Alternating!Offsets, Offsets
<1>5. \A c : Alternating!Neighbours(c) = Neighbours(c)
  BY <1>4 DEF Alternating!Neighbours, Neighbours, Alternating!Destination, Destination
<1>6. \A b, c : Alternating!Traversable(b, c) = Traversable(b, c)
  BY <1>4 DEF Alternating!Traversable, Traversable
<1>7. \A b, c, m : Alternating!LegalMove(b, c, m) = LegalMove(b, c, m)
  BY <1>6 DEF Alternating!LegalMove, LegalMove, Alternating!Destination, Destination
<1>8. \A S : Alternating!Cardinality(S) = Cardinality(S)
  BY DEF Alternating!Cardinality, Cardinality
<1>9. \A b, c, x : Alternating!Placeable(b, c, x) = Placeable(b, c, x)
  <2>. SUFFICES ASSUME NEW b, NEW c, NEW x
                PROVE  Alternating!Placeable(b, c, x) = Placeable(b, c, x)
    OBVIOUS
  <2>1. Alternating!Neighbours(c) = Neighbours(c) /\ Alternating!Traversable(b, x) = Traversable(b, x)
    BY <1>5, <1>6
  <2>. QED  BY <1>8, <2>1 DEF Alternating!Placeable, Placeable
<1>10. Alternating!Action = Action
  BY <1>4 DEF Alternating!Action, Action, Alternating!MoveSet, MoveSet
<1>11. \A p, b, c : Alternating!Lawful(p, b, c) = Lawful(p, b, c)
  BY <1>7, <1>9, <1>10 DEF Alternating!Lawful, Lawful
<1>. QED  BY <1>1, <1>2, <1>3, <1>10, <1>11

(* A half-turn of the thief is a turn of the thief in the game.            *)
LEMMA ThiefPushIsTurn ==
  ASSUME SubGameInv, NEW action, NEW waiting, Pushes(Thief, action, waiting), Met => action = Stay
  PROVE  Alternating!ThiefTurn
<1>1. /\ pc[Thief] \in {"turn", "settle"} /\ action \in Lawful(Thief, blocked[Thief], cell[Thief])
      /\ Push(Thief, action, waiting)
  BY DEF Pushes
<1>2. /\ step[Police] = step[Thief] /\ Taken(Thief) = step[Thief] /\ step[Thief] \in Nat
  BY PushCounts, Counts, PeerFacts
<1>3. step[Thief] < SurvivalThreshold  BY <1>1 DEF SubGameInv, ThiefEnd
<1>4. blocked[Thief] = blocked[Police]  BY <1>2 DEF SubGameInv, BoardLink
<1>5. Placed(action) = {} /\ action \in Action
  <2>1. Placed(action) = {}  BY <1>1, TurnFacts, PeerFacts
  <2>. QED  BY <1>1, <2>1 DEF Lawful
<1>. DEFINE turn == HalfTurn(Thief, action)
<1>6. turn.step = step[Thief] + 1 /\ turn.commit.cell = CellAfter(cell[Thief], action)
  BY DEF HalfTurn
<1>7. /\ cell' = [cell EXCEPT ![Thief] = turn.commit.cell]
      /\ step' = [step EXCEPT ![Thief] = @ + 1]
  BY <1>1 DEF Push
<1>8. /\ pushed'[Thief] = pushed[Thief] \cup {turn} /\ pushed'[Police] = pushed[Police]
      /\ blocked'[Police] = blocked[Police]
  BY PushMoves, PeerFacts
<1>. HIDE DEF turn
<1>9. Met' <=> Met
  <2>1. HistoryLink(Police)  BY PeerFacts DEF SubGameInv
  <2>2. \A asked \in pushed[Police] : asked.step \in 1 .. step[Police]  BY <2>1 DEF HistoryLink
  <2>3. \A asked \in pushed[Police] : asked.step # turn.step  BY <1>2, <1>6, <2>2
  <2>. QED  BY <1>8, <2>3 DEF Met
<1>10. Alternating!Act(Thief, action)
  <2>1. action \in Lawful(Thief, blocked[Police], cell[Thief])  BY <1>1, <1>4
  <2>2. cell' = [cell EXCEPT ![Thief] = CellAfter(@, action)]  BY <1>6, <1>7
  <2>3. blocked'[Police] = blocked[Police] \cup Placed(action)  BY <1>5, <1>8
  <2>. QED  BY <1>7, <2>1, <2>2, <2>3, SameRules DEF Alternating!Act
<1>. QED  BY <1>2, <1>3, <1>5, <1>9, <1>10, SameRules DEF Alternating!ThiefTurn, Met

(* ... and of the police, of the police.                                   *)
LEMMA PolicePushIsTurn ==
  ASSUME SubGameInv, SubGameInv', TakeTurn(Police)
  PROVE  Alternating!PoliceTurn
<1>1. PICK action \in Lawful(Police, blocked[Police], cell[Police]) : Push(Police, action, "turnSent")
  BY DEF TakeTurn
<1>2. pc[Police] = "turn" /\ Pushes(Police, action, "turnSent")
  BY <1>1, PeerFacts DEF TakeTurn, Pushes
<1>3. /\ step[Thief] = step[Police] + 1 /\ step[Thief] < SurvivalThreshold /\ ~Met
  BY <1>2, PoliceMayMove
<1>. DEFINE turn == HalfTurn(Police, action)
<1>4. /\ turn.step = step[Police] + 1 /\ turn.commit.cell = CellAfter(cell[Police], action)
      /\ turn.claim = {turn.commit.cell}
  BY PeerFacts DEF HalfTurn
<1>5. /\ cell' = [cell EXCEPT ![Police] = turn.commit.cell]
      /\ step' = [step EXCEPT ![Police] = @ + 1]
  BY <1>1 DEF Push
<1>6. /\ pushed'[Police] = pushed[Police] \cup {turn} /\ step'[Police] = step[Police] + 1
      /\ blocked'[Police] = blocked[Police] \cup Placed(action)
      /\ cell'[Police] = CellAfter(cell[Police], action)
  BY <1>2, PushMoves, PeerFacts
<1>7. pushed'[Thief] = pushed[Thief]  BY <1>2, PushMoves, PeerFacts
<1>. HIDE DEF turn
<1>8. step[Police] \in Nat /\ HistoryLink(Police) /\ HistoryLink(Thief) /\ MetLink'
  BY PeerFacts DEF SubGameInv, TypeOK
<1>9. \A asked \in pushed'[Police] : asked.step = step'[Police] => asked = turn
  <2>1. \A old \in pushed[Police] : old.step \in 1 .. step[Police]  BY <1>8 DEF HistoryLink
  <2>. QED  BY <1>6, <1>8, <2>1
<1>10. Met' <=> cell'[Police] = cell[Thief]
  <2>1. ASSUME Met' PROVE cell'[Police] = cell[Thief]
    <3>1. PICK asked \in pushed'[Police], t \in pushed'[Thief] :
            asked.step = t.step /\ asked.claim = {t.commit.cell}
      BY <2>1 DEF Met
    <3>2. asked.step = step'[Police]  BY <1>8, <3>1 DEF MetLink
    <3>3. asked = turn /\ t \in pushed[Thief] /\ t.step = step[Thief]
      BY <1>3, <1>6, <1>7, <1>9, <3>1, <3>2
    <3>4. t.commit.cell = cell[Thief]  BY <1>8, <3>3 DEF HistoryLink
    <3>. QED  BY <1>4, <1>6, <3>1, <3>3, <3>4
  <2>2. ASSUME cell'[Police] = cell[Thief] PROVE Met'
    <3>1. step[Thief] \in 1 .. step[Thief]  BY <1>3, <1>8
    <3>2. PICK t \in pushed[Thief] : t.step = step[Thief]  BY <1>8, <3>1 DEF HistoryLink
    <3>3. t.commit.cell = cell[Thief]  BY <1>8, <3>2 DEF HistoryLink
    <3>4. turn \in pushed'[Police] /\ t \in pushed'[Thief] /\ turn.step = t.step
          /\ turn.claim = {t.commit.cell}
      BY <1>3, <1>4, <1>6, <1>7, <2>2, <3>2, <3>3
    <3>. QED  BY <3>4 DEF Met
  <2>. QED  BY <2>1, <2>2
<1>11. action \in Action /\ Alternating!Act(Police, action)
  <2>1. cell' = [cell EXCEPT ![Police] = CellAfter(@, action)]  BY <1>4, <1>5
  <2>2. action \in Action  BY <1>1 DEF Lawful
  <2>. QED  BY <1>1, <1>5, <1>6, <2>1, <2>2, SameRules DEF Alternating!Act
<1>. QED  BY <1>3, <1>10, <1>11, SameRules DEF Alternating!PoliceTurn, Met

(* Every other step leaves pieces, board and turns where they are.         *)
LEMMA OthersStutter ==
  ASSUME SubGameInv, NEW p \in Peer,
         (Drive(p) /\ ~TakeTurn(p) /\ ~SendFinal(p)) \/ Serve(p) \/ Fault(p)
  PROVE  UNCHANGED Alternating!alternating
<1>1. CASE Consume(p)
  <2>1. /\ cell' = cell /\ step' = step /\ pushed' = pushed
    BY <1>1, ConsumeFacts
  <2>2. PICK turn \in pushed[Other(p)] : blocked' = [blocked EXCEPT ![p] = @ \cup turn.barrier]
    BY <1>1, ConsumeFacts
  <2>3. blocked'[Police] = blocked[Police]
    <3>1. CASE p = Police
      <4>1. HistoryLink(Thief) /\ turn \in pushed[Thief]  BY <2>2, <3>1, PeerFacts DEF SubGameInv
      <4>2. turn.barrier = {}  BY <4>1 DEF HistoryLink
      <4>. QED  BY <2>2, <3>1, <4>2 DEF SubGameInv, TypeOK
    <3>2. CASE p = Thief  BY <2>2, <3>2, PeerFacts DEF SubGameInv, TypeOK
    <3>. QED  BY <3>1, <3>2, PeerFacts
  <2>. QED  BY <2>1, <2>3 DEF Alternating!alternating
<1>2. CASE ~Consume(p)
  <2>1. UNCHANGED <<play, pushed>>
    BY <1>2 DEF Drive, NoAction, TurnAnswered, FinalRefused, SettleSilently, FinalAnswered, Disclose,
         AuditAnswered, Return, SendFailed, Serve, DeliverTurn, DeliverAudit,
         Fault, DeliverCopy, LoseCall, LoseReply, Timeout, Crash
  <2>. QED  BY <2>1 DEF Alternating!alternating, play
<1>. QED  BY <1>1, <1>2

(* The sub-game is played alternately on one board that holds every        *)
(* barrier, and by the police never again once it caught the thief or the  *)
(* thief survived: the safety half of `ImplementsAlternating`              *)
(* (`KitSubGame.play`).                                                    *)
THEOREM PlayedAlternately == Spec => Alternating!Spec
<1>1. Init => Alternating!Init
  BY PeerFacts, SameRules DEF Init, Alternating!Init
<1>2. SubGameInv /\ SubGameInv' /\ [Next]_vars =>
        [Alternating!ThiefTurn \/ Alternating!PoliceTurn]_(Alternating!alternating)
  <2>. SUFFICES ASSUME SubGameInv, SubGameInv', [Next]_vars
                PROVE \/ Alternating!ThiefTurn \/ Alternating!PoliceTurn
                      \/ UNCHANGED Alternating!alternating
    OBVIOUS
  <2>1. ASSUME NEW p \in Peer, TakeTurn(p)
        PROVE Alternating!ThiefTurn \/ Alternating!PoliceTurn
    <3>1. CASE p = Police  BY <2>1, <3>1, PolicePushIsTurn
    <3>2. CASE p = Thief
      <4>1. PICK action \in Lawful(Thief, blocked[Thief], cell[Thief]) : Push(Thief, action, "turnSent")
        BY <2>1, <3>2 DEF TakeTurn
      <4>2. pc[Thief] = "turn" /\ Pushes(Thief, action, "turnSent")
        BY <2>1, <3>2, <4>1, PeerFacts DEF TakeTurn, Pushes
      <4>. QED  BY <4>2, ThiefMayMove, ThiefPushIsTurn
    <3>. QED  BY <3>1, <3>2, PeerFacts
  <2>2. ASSUME NEW p \in Peer, SendFinal(p) PROVE Alternating!ThiefTurn
    <3>1. p = Thief
      <4>1. p = Police => pending[p] = None  BY DEF SubGameInv, AnswerLink
      <4>. QED  BY <2>2, <4>1, PeerFacts DEF SendFinal, Owes
    <3>2. Stay \in Lawful(Thief, blocked[Thief], cell[Thief])
      <4>1. cell[Thief] \in Cells /\ blocked[Thief] \in SUBSET Cells
        BY PeerFacts DEF SubGameInv, TypeOK
      <4>2. LegalMove(blocked[Thief], cell[Thief], Stay.arg)  BY <2>2, <3>1 DEF SendFinal
      <4>. QED  BY <4>1, <4>2, StayFacts, PeerFacts
    <3>3. Pushes(Thief, Stay, "finalSent")
      BY <2>2, <3>1, <3>2, PeerFacts DEF SendFinal, Pushes
    <3>. QED  BY <3>3, ThiefPushIsTurn
  <2>3. CASE UNCHANGED vars  BY <2>3 DEF vars, play, Alternating!alternating
  <2>4. CASE Finished  BY <2>3, <2>4 DEF Finished
  <2>. QED  BY <2>1, <2>2, <2>3, <2>4, OthersStutter DEF Next
<1>. QED  BY <1>1, <1>2, SubGameAlways, PTL DEF Spec, Alternating!Spec

(* A proper part is below the whole in the library's order. *)
LEMMA StrictlyBelow ==
  ASSUME NEW S, NEW a \in SUBSET S, NEW b \in SUBSET S, a \subseteq b, a # b
  PROVE  <<a, b>> \in StrictSubsetOrdering(S)
<1> DEFINE ss == <<a, b>>
<1>1. ss \in (SUBSET S) \X (SUBSET S)
  OBVIOUS
<1>2. ss[1] = a /\ ss[2] = b
  OBVIOUS
<1>3. ss[1] \subseteq ss[2] /\ ss[1] # ss[2]
  BY <1>2
<1> HIDE DEF ss
<1> QED BY <1>1, <1>3 DEF StrictSubsetOrdering

(* A set of naturals that is not empty has a least element. *)
LEMMA LeastOf ==
  ASSUME NEW T \in SUBSET Nat, T # {}
  PROVE  \E x \in T : \A y \in T : x <= y
<1> DEFINE Upto == {1 .. x : x \in T}
<1>1. IsWellFoundedOn(StrictSubsetOrdering(Nat), FiniteSubsetsOf(Nat))
  BY FS_StrictSubsetOrderingWellFounded
<1>2. Upto \subseteq FiniteSubsetsOf(Nat) /\ Upto # {}
  <2>1. \A x \in T : 1 .. x \in SUBSET Nat /\ IsFiniteSet(1 .. x)
    BY FS_Interval
  <2> QED BY <2>1 DEF FiniteSubsetsOf
<1>3. PICK u \in Upto : \A v \in Upto : ~(<<v, u>> \in StrictSubsetOrdering(Nat))
  <2> HIDE DEF Upto
  <2> QED BY <1>1, <1>2, WFMin
<1>4. PICK x \in T : u = 1 .. x
  OBVIOUS
<1>5. ASSUME NEW y \in T, y < x
      PROVE  FALSE
  <2>1. 1 .. y \in SUBSET Nat /\ 1 .. x \in SUBSET Nat
    OBVIOUS
  <2>2. 1 .. y \subseteq 1 .. x
    BY <1>5
  <2>3. x \in 1 .. x /\ x \notin 1 .. y
    BY <1>5
  <2>4. 1 .. y # 1 .. x
    BY <2>3
  <2>5. <<1 .. y, 1 .. x>> \in StrictSubsetOrdering(Nat)
    <3>1. \A a, b \in SUBSET Nat :
            a \subseteq b /\ a # b => <<a, b>> \in StrictSubsetOrdering(Nat)
      BY StrictlyBelow
    <3> QED BY <2>1, <2>2, <2>4, <3>1, Zenon
  <2>6. 1 .. y \in Upto
    OBVIOUS
  <2> QED BY <1>3, <1>4, <2>5, <2>6
<1> QED BY <1>5
-----------------------------------------------------------------------------
(* The receiver of the retried wire.                                       *)

Arriving == [game : Nat, step : Nat]

Receivers ==
  [expected : Nat, played : SUBSET Arriving, buffered : SUBSET Arriving,
   ready : Seq(Arriving), accused : SUBSET Nat, arrived : BOOLEAN]

(* What was played is what lies below the expected step, what is buffered  *)
(* lies above it and was sealed; what was acknowledged is one or the other.*)
ReceiverLink ==
  /\ receiver.expected \in 1 .. sealed + 1
  /\ \A t \in receiver.played : t.game = game /\ t.step \in 1 .. receiver.expected - 1
  /\ \A s \in 1 .. receiver.expected - 1 : TurnOf(s) \in receiver.played
  /\ \A t \in receiver.buffered :
       t.game = game /\ t.step \in receiver.expected + 1 .. sealed
  /\ \A s \in acked : s < receiver.expected \/ TurnOf(s) \in receiver.buffered

(* What was taken and what is ready are the turns below the expected step, *)
(* in order; a woken loop finds something.                                 *)
TakenLink ==
  /\ Len(taken) + Len(receiver.ready) = receiver.expected - 1
  /\ \A k \in 1 .. Len(taken) : taken[k] = TurnOf(k)
  /\ \A k \in 1 .. Len(receiver.ready) : receiver.ready[k] = TurnOf(Len(taken) + k)
  /\ receiver.arrived => Len(receiver.ready) > 0

DeliveryInv ==
  /\ game \in Nat
  /\ sealed \in Nat
  /\ acked \subseteq 1 .. sealed
  /\ \A t \in copies : \E s \in 1 .. sealed : t = TurnOf(s)
  /\ receiver \in Receivers
  /\ taken \in Seq(Arriving)
  /\ sealed <= receiver.expected + Window
  /\ ReceiverLink
  /\ TakenLink

(* Above the applied step e there is a first step m + 1 that is not        *)
(* buffered: the run that is released ends at m.                           *)
LEMMA RunEnd ==
  ASSUME NEW B, NEW e \in Nat, NEW top \in Nat, e <= top,
         NEW g, \A t \in B : t.game = g /\ t.step \in e + 1 .. top
  PROVE  \E m \in e .. top :
           /\ [game |-> g, step |-> m + 1] \notin B
           /\ \A s \in e + 1 .. m : [game |-> g, step |-> s] \in B
<1> DEFINE At(s) == [game |-> g, step |-> s]
<1> DEFINE Gaps == {s \in Nat : s > e /\ At(s) \notin B}
<1>1. top + 1 \in Gaps
  <2>1. At(top + 1).step = top + 1
    OBVIOUS
  <2>2. At(top + 1) \notin B
    BY <2>1
  <2> QED BY <2>2
<1>2. Gaps \in SUBSET Nat /\ Gaps # {}
  BY <1>1
<1>3. PICK x \in Gaps : \A y \in Gaps : x <= y
  <2> HIDE DEF Gaps
  <2> QED BY <1>2, LeastOf
<1>4. x \in Nat /\ x > e /\ x <= top + 1 /\ At(x) \notin B
  BY <1>1, <1>3
<1>5. \A s \in e + 1 .. x - 1 : At(s) \in B
  BY <1>3, <1>4
<1>6. x - 1 \in e .. top /\ (x - 1) + 1 = x
  BY <1>4
<1> QED BY <1>4, <1>5, <1>6

(* Step e is applied and the run it releases ends at m.                    *)
RunsTo(ib, g, e, m) ==
  /\ [game |-> g, step |-> m + 1] \notin ib.buffered
  /\ Released(ib, [game |-> g, step |-> e])
       = {[game |-> g, step |-> s] : s \in e + 1 .. m}
  /\ Run(ib, [game |-> g, step |-> e])
       = [i \in 1 .. m - e + 1 |-> [game |-> g, step |-> e + i - 1]]

Above(ib, g, e, top) ==
  \A t \in ib.buffered : t.game = g /\ t.step \in e + 1 .. top

(* What an applied turn releases, counted and put in order.                *)
LEMMA RunFacts ==
  ASSUME NEW ib \in Receivers, NEW g \in Nat, NEW e \in Nat, NEW top \in Nat,
         e <= top, Above(ib, g, e, top)
  PROVE  \E m \in e .. top : RunsTo(ib, g, e, m)
<1> USE DEF Above
<1> DEFINE At(s) == [game |-> g, step |-> s]
           turn == At(e)
<1>1. PICK m \in e .. top : At(m + 1) \notin ib.buffered
                            /\ \A s \in e + 1 .. m : At(s) \in ib.buffered
  <2>1. \E m \in e .. top :
           /\ [game |-> g, step |-> m + 1] \notin ib.buffered
           /\ \A s \in e + 1 .. m : [game |-> g, step |-> s] \in ib.buffered
    BY RunEnd
  <2> QED BY <2>1
<1>2. \A t \in ib.buffered : t = At(t.step) /\ t.step \in Nat
  BY DEF Receivers, Arriving
<1>3. turn.step = e
  OBVIOUS
<1>4. Released(ib, turn) = {At(s) : s \in e + 1 .. m}
  <2>1. ASSUME NEW t \in Released(ib, turn)
        PROVE  \E s \in e + 1 .. m : t = At(s)
    <3>1. t \in ib.buffered /\ t.step > e
          /\ \A s \in e + 1 .. t.step : \E u \in ib.buffered : u.step = s
      BY <2>1, <1>3 DEF Released
    <3>2. t.step <= m
      <4> SUFFICES ASSUME t.step > m
                   PROVE  FALSE
        BY <3>1, <1>2
      <4>1. m + 1 \in e + 1 .. t.step
        BY <1>2, <3>1
      <4>2. PICK u \in ib.buffered : u.step = m + 1
        BY <3>1, <4>1
      <4> QED BY <1>1, <1>2, <4>2
    <3> QED BY <1>2, <3>1, <3>2
  <2>2. ASSUME NEW s \in e + 1 .. m
        PROVE  At(s) \in Released(ib, turn)
    <3>1. At(s) \in ib.buffered /\ At(s).step = s /\ s > e
      BY <1>1
    <3>2. \A r \in e + 1 .. s : At(r) \in ib.buffered /\ At(r).step = r
      BY <1>1
    <3> HIDE DEF At
    <3> QED BY <1>3, <3>1, <3>2 DEF Released
  <2> QED BY <2>1, <2>2
<1>5. Cardinality(Released(ib, turn)) = m - e
  <2> DEFINE f == [s \in e + 1 .. m |-> At(s)]
  <2>1. f \in Bijection(e + 1 .. m, Released(ib, turn))
    <3>1. f \in [e + 1 .. m -> Released(ib, turn)]
      BY <1>4
    <3>2. \A s, r \in e + 1 .. m : f[s] = f[r] => s = r
      OBVIOUS
    <3>3. \A t \in Released(ib, turn) : \E s \in e + 1 .. m : f[s] = t
      BY <1>4
    <3> HIDE DEF f
    <3> QED BY <3>1, <3>2, <3>3 DEF Bijection, Injection, Surjection, IsInjective
  <2>2. ExistsBijection(e + 1 .. m, Released(ib, turn))
    BY <2>1 DEF ExistsBijection
  <2>3. IsFiniteSet(e + 1 .. m) /\ Cardinality(e + 1 .. m) = m - e
    <3>1. e + 1 \in Int /\ m \in Int /\ e <= m
      OBVIOUS
    <3>2. /\ IsFiniteSet(e + 1 .. m)
          /\ Cardinality(e + 1 .. m) = IF e + 1 > m THEN 0 ELSE m - (e + 1) + 1
      BY <3>1, FS_Interval
    <3> QED BY <3>1, <3>2
  <2> QED BY <2>2, <2>3, FS_Bijection
<1>6. ASSUME NEW i \in 1 .. m - e + 1, i # 1
      PROVE  (CHOOSE t \in Released(ib, turn) : t.step = turn.step + i - 1)
               = At(e + i - 1)
  <2>1. e + i - 1 \in e + 1 .. m
    BY <1>6
  <2>2. At(e + i - 1) \in Released(ib, turn)
    BY <1>4, <2>1
  <2>3. \A t \in Released(ib, turn) :
           t.step = turn.step + i - 1 => t = At(e + i - 1)
    BY <1>2, <1>3 DEF Released
  <2>4. At(e + i - 1).step = turn.step + i - 1
    OBVIOUS
  <2> HIDE DEF At
  <2> QED BY <2>2, <2>3, <2>4
<1>7. Run(ib, turn) = [i \in 1 .. m - e + 1 |-> At(e + i - 1)]
  <2>1. 1 .. 1 + Cardinality(Released(ib, turn)) = 1 .. m - e + 1
    BY <1>5
  <2>2. ASSUME NEW i \in 1 .. m - e + 1
        PROVE  (IF i = 1 THEN turn
                ELSE CHOOSE t \in Released(ib, turn) : t.step = turn.step + i - 1)
                 = At(e + i - 1)
    <3>1. CASE i = 1
      BY <3>1
    <3>2. CASE i # 1
      BY <1>6, <3>2
    <3> QED BY <3>1, <3>2
  <2>3. Run(ib, turn) =
          [i \in 1 .. m - e + 1 |->
             IF i = 1 THEN turn
             ELSE CHOOSE t \in Released(ib, turn) : t.step = turn.step + i - 1]
    BY <2>1 DEF Run
  <2> HIDE DEF At, turn
  <2> QED BY <2>2, <2>3, Zenon
<1> QED BY <1>1, <1>4, <1>7 DEF RunsTo

(* The decision for a copy of a sealed turn: absorbed below the expected   *)
(* step, applied at it, buffered above it, and never refused.              *)
LEMMA DecisionFacts ==
  ASSUME DeliveryInv, NEW s \in 1 .. sealed
  PROVE  /\ s < receiver.expected => Decide(receiver, TurnOf(s)) = "ABSORB"
         /\ s = receiver.expected => Decide(receiver, TurnOf(s)) = "APPLY"
         /\ s > receiver.expected => Decide(receiver, TurnOf(s)) = "BUFFER"
<1> DEFINE turn == TurnOf(s)
<1>1. turn.step = s /\ turn.game = game
  BY DEF TurnOf
<1>2. receiver.expected \in Nat /\ Window \in Nat /\ sealed \in Nat
  BY WindowAssumption DEF DeliveryInv, Receivers
<1>3. \A t \in receiver.played : t.step \in 1 .. receiver.expected - 1
  BY DEF DeliveryInv, ReceiverLink
<1>4. CASE s < receiver.expected
  <2>1. s \in 1 .. receiver.expected - 1
    BY <1>2, <1>4
  <2>2. turn \in receiver.played
    BY <2>1 DEF DeliveryInv, ReceiverLink
  <2>3. PlayedStep(receiver, turn.step)
    BY <2>2 DEF PlayedStep
  <2>4. turn.step \notin receiver.expected + 1 .. receiver.expected + Window
        /\ ~(turn.step > receiver.expected + Window)
    BY <1>1, <1>2, <1>4
  <2>5. Decide(receiver, turn) = "ABSORB"
    <3> HIDE DEF turn
    <3> QED BY <2>2, <2>3, <2>4 DEF Decide
  <2> QED BY <1>2, <1>4, <2>5
<1>5. CASE s >= receiver.expected
  <2>1. turn \notin receiver.played /\ ~PlayedStep(receiver, turn.step)
    BY <1>1, <1>2, <1>3, <1>5 DEF PlayedStep
  <2>2. CASE s = receiver.expected
    <3>1. turn.step \notin receiver.expected + 1 .. receiver.expected + Window
          /\ ~(turn.step > receiver.expected + Window)
      BY <1>1, <1>2, <2>2
    <3>2. Decide(receiver, turn) = "APPLY"
      <4> HIDE DEF turn
      <4> QED BY <1>1, <2>1, <2>2, <3>1 DEF Decide
    <3> QED BY <1>2, <2>2, <3>2
  <2>3. CASE s > receiver.expected
    <3>1. s <= receiver.expected + Window
      BY <1>2 DEF DeliveryInv
    <3>2. turn.step \in receiver.expected + 1 .. receiver.expected + Window
          /\ turn.step # receiver.expected
          /\ ~(turn.step > receiver.expected + Window)
      BY <1>1, <1>2, <2>3, <3>1
    <3>3. Decide(receiver, turn) = "BUFFER"
      <4> HIDE DEF turn
      <4> QED BY <2>1, <3>2 DEF Decide
    <3> QED BY <1>2, <2>3, <3>3
  <2> QED BY <1>2, <1>5, <2>2, <2>3
<1> QED BY <1>2, <1>4, <1>5

LEMMA DeliveryStarts == DeliveryInit => DeliveryInv
<1> SUFFICES ASSUME DeliveryInit
             PROVE  DeliveryInv
  OBVIOUS
<1> USE DEF DeliveryInit, EmptyInbox
<1>1. game \in Nat /\ sealed \in Nat /\ acked \subseteq 1 .. sealed
  OBVIOUS
<1>2. receiver \in Receivers /\ taken \in Seq(Arriving)
  BY DEF Receivers
<1>3. sealed <= receiver.expected + Window
  BY WindowAssumption
<1>4. ReceiverLink
  BY DEF ReceiverLink
<1>5. TakenLink
  BY DEF TakenLink
<1> QED BY <1>1, <1>2, <1>3, <1>4, <1>5 DEF DeliveryInv

(* The window: whatever was acknowledged without a gap is below the        *)
(* expected step.                                                          *)
LEMMA KeepsPushNext ==
  ASSUME DeliveryInv, PushNext
  PROVE  DeliveryInv'
<1>1. game \in Nat /\ sealed \in Nat /\ receiver \in Receivers /\ Window \in Nat
      /\ receiver.expected \in Nat
  BY WindowAssumption DEF DeliveryInv, Receivers
<1>2. /\ sealed' = sealed + 1 /\ copies' = copies \cup {TurnOf(sealed + 1)}
      /\ game' = game /\ acked' = acked /\ receiver' = receiver /\ taken' = taken
  BY DEF PushNext
<1>3. \A s : TurnOf(s)' = TurnOf(s)
  BY <1>2 DEF TurnOf
<1>4. sealed' <= receiver'.expected + Window
  <2>1. PICK s \in 0 .. sealed : 1 .. s \subseteq acked /\ sealed <= s + Window
    BY DEF PushNext
  <2>2. s < receiver.expected
    <3> SUFFICES ASSUME receiver.expected <= s
                 PROVE  FALSE
      BY <1>1
    <3>1. receiver.expected \in 1 .. s
      BY <1>1 DEF DeliveryInv, ReceiverLink
    <3>2. TurnOf(receiver.expected) \in receiver.buffered
      BY <1>1, <2>1, <3>1 DEF DeliveryInv, ReceiverLink
    <3>3. TurnOf(receiver.expected).step \in receiver.expected + 1 .. sealed
      BY <3>2 DEF DeliveryInv, ReceiverLink
    <3> QED BY <1>1, <3>3 DEF TurnOf
  <2> QED BY <1>1, <1>2, <2>1, <2>2
<1>5. \A t \in copies' : \E s \in 1 .. sealed' : t = TurnOf(s)'
  BY <1>1, <1>2, <1>3 DEF DeliveryInv
<1>6. ReceiverLink'
  <2>1. receiver'.expected \in 1 .. sealed' + 1
    BY <1>1, <1>2 DEF DeliveryInv, ReceiverLink
  <2>2. \A t \in receiver'.buffered :
           t.game = game' /\ t.step \in receiver'.expected + 1 .. sealed'
    BY <1>1, <1>2 DEF DeliveryInv, ReceiverLink
  <2> QED BY <1>2, <1>3, <2>1, <2>2 DEF DeliveryInv, ReceiverLink
<1>7. TakenLink'
  BY <1>2, <1>3 DEF DeliveryInv, TakenLink
<1>8. game' \in Nat /\ sealed' \in Nat /\ acked' \subseteq 1 .. sealed'
      /\ receiver' \in Receivers /\ taken' \in Seq(Arriving)
  BY <1>1, <1>2 DEF DeliveryInv
<1> QED BY <1>4, <1>5, <1>6, <1>7, <1>8 DEF DeliveryInv

(* What only moves copies keeps the rest.                                  *)
LEMMA KeepsCopies ==
  ASSUME DeliveryInv, UNCHANGED <<game, peer, receiver, taken>>,
         \A t \in copies' : \E s \in 1 .. sealed : t = TurnOf(s)
  PROVE  DeliveryInv'
<1>1. game' = game /\ sealed' = sealed /\ acked' = acked /\ receiver' = receiver
      /\ taken' = taken
  BY DEF peer
<1>2. \A s : TurnOf(s)' = TurnOf(s)
  BY <1>1 DEF TurnOf
<1>3. ReceiverLink'
  BY <1>1, <1>2 DEF DeliveryInv, ReceiverLink
<1>4. TakenLink'
  BY <1>1, <1>2 DEF DeliveryInv, TakenLink
<1>5. \A t \in copies' : \E s \in 1 .. sealed' : t = TurnOf(s)'
  BY <1>1, <1>2
<1> QED BY <1>1, <1>3, <1>4, <1>5 DEF DeliveryInv

(* A delivered copy is below the expected step, at it, or above it.        *)
LEMMA KeepsAbsorb ==
  ASSUME DeliveryInv, NEW s \in 1 .. sealed, Deliver(TurnOf(s)),
         s < receiver.expected
  PROVE  DeliveryInv'
<1>1. Decide(receiver, TurnOf(s)) = "ABSORB"
  BY DecisionFacts
<1>2. receiver' = receiver
  BY <1>1 DEF Deliver, Offer
<1>3. /\ game' = game /\ sealed' = sealed /\ copies' = copies /\ taken' = taken
      /\ \A a \in acked' : a \in acked \/ a = s
  <2>1. TurnOf(s).step = s
    BY DEF TurnOf
  <2> QED BY <2>1 DEF Deliver
<1>4. \A r : TurnOf(r)' = TurnOf(r)
  BY <1>3 DEF TurnOf
<1>5. ReceiverLink'
  BY <1>2, <1>3, <1>4 DEF DeliveryInv, ReceiverLink
<1>6. TakenLink'
  BY <1>2, <1>3, <1>4 DEF DeliveryInv, TakenLink
<1>7. \A t \in copies' : \E r \in 1 .. sealed' : t = TurnOf(r)'
  BY <1>3, <1>4 DEF DeliveryInv
<1>8. acked' \subseteq 1 .. sealed'
  BY <1>3 DEF DeliveryInv
<1> QED BY <1>2, <1>3, <1>5, <1>6, <1>7, <1>8 DEF DeliveryInv

LEMMA KeepsHold ==
  ASSUME DeliveryInv, NEW s \in 1 .. sealed, Deliver(TurnOf(s)),
         s > receiver.expected
  PROVE  DeliveryInv'
<1> DEFINE turn == TurnOf(s)
<1>1. Decide(receiver, turn) = "BUFFER"
  BY DecisionFacts
<1>2. turn.step = s /\ turn.game = game
  BY DEF TurnOf
<1>3. receiver.expected \in Nat /\ game \in Nat /\ sealed \in Nat /\ receiver \in Receivers
  BY DEF DeliveryInv, Receivers
<1>4. turn \in Arriving
  BY <1>3 DEF TurnOf, Arriving
<1>5. /\ game' = game /\ sealed' = sealed /\ copies' = copies /\ taken' = taken
      /\ \A a \in acked' : a \in acked \/ a = s
  BY <1>2 DEF Deliver
<1>6. receiver' = Hold(receiver, turn)
  <2>1. receiver' = Offer(receiver, turn)
    BY DEF Deliver
  <2> HIDE DEF turn
  <2> QED BY <1>1, <2>1 DEF Offer
<1>7. /\ receiver'.expected = receiver.expected /\ receiver'.played = receiver.played
      /\ receiver'.ready = receiver.ready /\ receiver'.arrived = receiver.arrived
      /\ receiver'.buffered = {t \in receiver.buffered : t.step # s} \cup {turn}
  <2> HIDE DEF turn
  <2> QED BY <1>2, <1>3, <1>6 DEF Hold, Receivers
<1>8. receiver' \in Receivers
  <2> HIDE DEF turn
  <2> QED BY <1>3, <1>4, <1>6 DEF Hold, Receivers
<1>9. \A r : TurnOf(r)' = TurnOf(r)
  BY <1>5 DEF TurnOf
<1>10. \A t \in receiver'.buffered :
          t.game = game' /\ t.step \in receiver'.expected + 1 .. sealed'
  <2>1. s \in receiver.expected + 1 .. sealed
    BY <1>3
  <2> QED BY <1>2, <1>5, <1>7, <2>1 DEF DeliveryInv, ReceiverLink
<1>11. \A a \in acked' : a < receiver'.expected \/ TurnOf(a)' \in receiver'.buffered
  <2>1. ASSUME NEW a \in acked'
        PROVE  a < receiver.expected \/ TurnOf(a) \in receiver'.buffered
    <3>1. CASE a = s
      BY <1>7, <3>1
    <3>2. CASE a # s
      <4>1. a < receiver.expected \/ TurnOf(a) \in receiver.buffered
        BY <1>5, <3>2 DEF DeliveryInv, ReceiverLink
      <4>2. TurnOf(a).step # s
        BY <3>2 DEF TurnOf
      <4> QED BY <1>7, <4>1, <4>2
    <3> QED BY <3>1, <3>2
  <2> QED BY <1>7, <1>9, <2>1
<1>12. ReceiverLink'
  BY <1>5, <1>7, <1>9, <1>10, <1>11 DEF DeliveryInv, ReceiverLink
<1>13. TakenLink'
  BY <1>5, <1>7, <1>9 DEF DeliveryInv, TakenLink
<1>14. \A t \in copies' : \E r \in 1 .. sealed' : t = TurnOf(r)'
  BY <1>5, <1>9 DEF DeliveryInv
<1>15. acked' \subseteq 1 .. sealed'
  BY <1>5 DEF DeliveryInv
<1>16. sealed' <= receiver'.expected + Window
  BY <1>5, <1>7 DEF DeliveryInv
<1> QED BY <1>5, <1>8, <1>12, <1>13, <1>14, <1>15, <1>16 DEF DeliveryInv

(* The applied turn and the run it releases become ready, in order, and    *)
(* the expected step is the one after the run.                             *)
LEMMA KeepsApply ==
  ASSUME DeliveryInv, Deliver(TurnOf(receiver.expected)),
         receiver.expected \in 1 .. sealed
  PROVE  DeliveryInv'
<1> DEFINE e == receiver.expected
           turn == TurnOf(e)
<1>1. Decide(receiver, turn) = "APPLY"
  BY DecisionFacts
<1>2. turn.step = e /\ turn.game = game /\ turn = [game |-> game, step |-> e]
  BY DEF TurnOf
<1>3. e \in Nat /\ game \in Nat /\ sealed \in Nat /\ receiver \in Receivers
      /\ e <= sealed /\ e >= 1
  BY DEF DeliveryInv, Receivers
<1>4. /\ game' = game /\ sealed' = sealed /\ copies' = copies /\ taken' = taken
      /\ \A a \in acked' : a \in acked \/ a = e
  BY <1>2 DEF Deliver
<1>5. receiver' = Apply(receiver, turn)
  <2>1. receiver' = Offer(receiver, turn)
    BY DEF Deliver
  <2> HIDE DEF turn
  <2> QED BY <1>1, <2>1 DEF Offer
<1>6. PICK m \in e .. sealed :
         /\ TurnOf(m + 1) \notin receiver.buffered
         /\ Released(receiver, turn) = {TurnOf(s) : s \in e + 1 .. m}
         /\ Run(receiver, turn) = [i \in 1 .. m - e + 1 |-> TurnOf(e + i - 1)]
  <2>1. Above(receiver, game, e, sealed)
    BY DEF DeliveryInv, ReceiverLink, Above
  <2>2. \E m \in e .. sealed : RunsTo(receiver, game, e, m)
    BY <1>3, <2>1, RunFacts
  <2> QED BY <1>2, <2>2 DEF TurnOf, RunsTo
<1> DEFINE run == Run(receiver, turn)
<1>7. /\ run \in Seq(Arriving) /\ Len(run) = m - e + 1
      /\ \A i \in 1 .. m - e + 1 : run[i] = TurnOf(e + i - 1)
  <2>1. m - e + 1 \in Nat /\ \A i \in 1 .. m - e + 1 : e + i - 1 \in Nat
    BY <1>3
  <2>2. \A i \in 1 .. m - e + 1 : TurnOf(e + i - 1) \in Arriving
    BY <1>3, <2>1 DEF TurnOf, Arriving
  <2> HIDE DEF e, run
  <2>3. run = [i \in 1 .. m - e + 1 |-> TurnOf(e + i - 1)]
    BY <1>6 DEF run
  <2> QED BY <2>1, <2>2, <2>3
<1>8. /\ receiver'.expected = m + 1
      /\ receiver'.played = receiver.played \cup {turn} \cup Released(receiver, turn)
      /\ receiver'.buffered = receiver.buffered \ Released(receiver, turn)
      /\ receiver'.ready = receiver.ready \o run
      /\ receiver'.accused = receiver.accused
      /\ receiver'.arrived = TRUE
      /\ receiver' = [expected |-> m + 1,
           played |-> receiver.played \cup {turn} \cup Released(receiver, turn),
           buffered |-> receiver.buffered \ Released(receiver, turn),
           ready |-> receiver.ready \o run,
           accused |-> receiver.accused, arrived |-> TRUE]
  <2>1. NextExpected(receiver, turn) = m + 1
    <3> HIDE DEF e, turn
    <3> QED BY <1>2, <1>3, <1>7 DEF NextExpected
  <2> HIDE DEF turn
  <2> QED BY <1>3, <1>5, <2>1 DEF Apply, Receivers
<1>9. /\ receiver.ready \o run \in Seq(Arriving)
      /\ Len(receiver.ready \o run) = Len(receiver.ready) + (m - e + 1)
      /\ \A k \in 1 .. Len(receiver.ready) + (m - e + 1) :
            (receiver.ready \o run)[k] =
              IF k <= Len(receiver.ready) THEN receiver.ready[k]
              ELSE run[k - Len(receiver.ready)]
  <2>1. receiver.ready \in Seq(Arriving)
    BY <1>3 DEF Receivers
  <2> HIDE DEF e, run
  <2>2. /\ receiver.ready \o run \in Seq(Arriving)
        /\ Len(receiver.ready \o run) = Len(receiver.ready) + Len(run)
        /\ \A k \in 1 .. Len(receiver.ready) + Len(run) :
              (receiver.ready \o run)[k] =
                IF k <= Len(receiver.ready) THEN receiver.ready[k]
                ELSE run[k - Len(receiver.ready)]
    BY <1>7, <2>1, ConcatProperties
  <2> QED BY <1>7, <2>2
<1>10. receiver' \in Receivers
  <2>1. turn \in Arriving
    BY <1>3 DEF TurnOf, Arriving
  <2>2. Released(receiver, turn) \subseteq receiver.buffered
    BY DEF Released
  <2> HIDE DEF turn, run, e
  <2> QED BY <1>3, <1>8, <1>9, <2>1, <2>2 DEF Receivers
<1>11. \A r : TurnOf(r)' = TurnOf(r) /\ TurnOf(r).step = r /\ TurnOf(r).game = game
  BY <1>4 DEF TurnOf
<1>12. ReceiverLink'
  <2>1. receiver'.expected \in 1 .. sealed' + 1
    BY <1>3, <1>4, <1>8
  <2>2. ASSUME NEW t \in receiver'.played
        PROVE  t.game = game' /\ t.step \in 1 .. receiver'.expected - 1
    <3>1. CASE t \in receiver.played
      <4>1. t.game = game /\ t.step \in 1 .. e - 1
        BY <3>1 DEF DeliveryInv, ReceiverLink
      <4> QED BY <1>3, <1>4, <1>8, <4>1
    <3>2. CASE t = turn
      BY <1>2, <1>3, <1>4, <1>8, <3>2
    <3>3. CASE t \in Released(receiver, turn)
      <4>1. PICK s \in e + 1 .. m : t = TurnOf(s)
        BY <1>6, <3>3
      <4> QED BY <1>3, <1>4, <1>8, <1>11, <4>1
    <3> QED BY <1>8, <2>2, <3>1, <3>2, <3>3
  <2>3. ASSUME NEW s \in 1 .. receiver'.expected - 1
        PROVE  TurnOf(s)' \in receiver'.played
    <3>1. s \in 1 .. m
      BY <1>3, <1>8, <2>3
    <3>2. CASE s < e
      BY <1>3, <1>8, <1>11, <3>1, <3>2 DEF DeliveryInv, ReceiverLink
    <3>3. CASE s = e
      BY <1>8, <1>11, <3>3
    <3>4. CASE s > e
      <4>1. s \in e + 1 .. m
        BY <1>3, <3>1, <3>4
      <4> QED BY <1>6, <1>8, <1>11, <4>1
    <3> QED BY <1>3, <3>1, <3>2, <3>3, <3>4
  <2>4. ASSUME NEW t \in receiver'.buffered
        PROVE  t.game = game' /\ t.step \in receiver'.expected + 1 .. sealed'
    <3>1. t \in receiver.buffered /\ t \notin Released(receiver, turn)
      BY <1>8, <2>4
    <3>2. t.game = game /\ t.step \in e + 1 .. sealed
      BY <3>1 DEF DeliveryInv, ReceiverLink
    <3>3. t = TurnOf(t.step)
      <4>1. t \in Arriving
        BY <1>3, <3>1 DEF Receivers
      <4> QED BY <3>2, <4>1 DEF Arriving, TurnOf
    <3>4. t.step \notin e + 1 .. m
      BY <1>6, <3>1, <3>3
    <3>5. t.step # m + 1
      BY <1>6, <3>1, <3>3
    <3> QED BY <1>3, <1>4, <1>8, <3>2, <3>4, <3>5
  <2>5. ASSUME NEW a \in acked'
        PROVE  a < receiver'.expected \/ TurnOf(a)' \in receiver'.buffered
    <3>1. a = e \/ a < e \/ TurnOf(a) \in receiver.buffered
      BY <1>4, <2>5 DEF DeliveryInv, ReceiverLink
    <3>2. CASE a = e \/ a < e
      <4>1. a \in Nat
        <5>1. \A b \in acked : b \in Nat
          BY DEF DeliveryInv
        <5> QED BY <1>3, <1>4, <2>5, <5>1
      <4> QED BY <1>3, <1>8, <3>2, <4>1
    <3>3. CASE TurnOf(a) \in receiver.buffered
      <4>1. CASE TurnOf(a) \in Released(receiver, turn)
        <5>1. PICK s \in e + 1 .. m : TurnOf(a) = TurnOf(s)
          BY <1>6, <4>1
        <5>2. a = s
          BY <1>11, <5>1
        <5> QED BY <1>3, <1>8, <5>2
      <4>2. CASE TurnOf(a) \notin Released(receiver, turn)
        BY <1>8, <1>11, <3>3, <4>2
      <4> QED BY <4>1, <4>2
    <3> QED BY <3>1, <3>2, <3>3
  <2> QED BY <2>1, <2>2, <2>3, <2>4, <2>5 DEF ReceiverLink
<1>13. TakenLink'
  <2> DEFINE had == Len(receiver.ready)
             took == Len(taken)
             more == m - e + 1
  <2>1. had \in Nat /\ took \in Nat /\ took + had = e - 1
    BY <1>3 DEF DeliveryInv, TakenLink, Receivers
  <2>2. more \in Nat /\ more > 0 /\ m + 1 = e + more /\ m \in Nat
    BY <1>3
  <2>3. receiver'.ready = receiver.ready \o run /\ receiver'.expected = m + 1
        /\ Len(receiver'.ready) = had + more
    BY <1>8, <1>9
  <2>4. \A k \in 1 .. took : taken[k] = TurnOf(k)
    BY DEF DeliveryInv, TakenLink
  <2>5. \A k \in 1 .. had : receiver.ready[k] = TurnOf(took + k)
    BY DEF DeliveryInv, TakenLink
  <2>6. \A k \in 1 .. had + more :
          (receiver.ready \o run)[k] =
            IF k <= had THEN receiver.ready[k] ELSE run[k - had]
    BY <1>9
  <2>7. \A i \in 1 .. more : run[i] = TurnOf(e + i - 1)
    BY <1>7
  <2> HIDE DEF had, took, more, run, e, turn
  <2>8. ASSUME NEW k \in 1 .. had + more
        PROVE  (receiver.ready \o run)[k] = TurnOf(took + k)
    <3>1. CASE k <= had
      <4>1. k \in 1 .. had
        BY <2>1, <2>2, <3>1
      <4> QED BY <2>5, <2>6, <3>1, <4>1
    <3>2. CASE ~(k <= had)
      <4>1. k - had \in 1 .. more /\ e + (k - had) - 1 = took + k
        BY <1>3, <2>1, <2>2, <3>2
      <4>2. (receiver.ready \o run)[k] = run[k - had]
        BY <2>6, <3>2
      <4> QED BY <2>7, <4>1, <4>2
    <3> QED BY <3>1, <3>2
  <2>9. Len(taken') = took
    BY <1>4 DEF took
  <2>10. Len(taken') + Len(receiver'.ready) = receiver'.expected - 1
    BY <1>3, <2>1, <2>2, <2>3, <2>9
  <2>11. \A k \in 1 .. Len(taken') : taken'[k] = TurnOf(k)'
    BY <1>4, <1>11, <2>4, <2>9
  <2>12. \A k \in 1 .. Len(receiver'.ready) :
           receiver'.ready[k] = [game |-> game', step |-> Len(taken') + k]
    BY <1>4, <2>3, <2>8, <2>9 DEF TurnOf
  <2>13. Len(receiver'.ready) > 0
    BY <2>1, <2>2, <2>3
  <2> QED BY <2>10, <2>11, <2>12, <2>13 DEF TakenLink, TurnOf
<1>14. \A t \in copies' : \E r \in 1 .. sealed' : t = TurnOf(r)'
  BY <1>4, <1>11 DEF DeliveryInv
<1>15. acked' \subseteq 1 .. sealed'
  BY <1>3, <1>4 DEF DeliveryInv
<1>16. sealed' <= receiver'.expected + Window
  <2>1. Window \in Nat /\ m \in Nat /\ m >= e
    BY <1>3, WindowAssumption
  <2> QED BY <1>3, <1>4, <1>8, <2>1 DEF DeliveryInv
<1> QED BY <1>3, <1>4, <1>10, <1>12, <1>13, <1>14, <1>15, <1>16 DEF DeliveryInv

(* The loop takes everything that is ready: the turns up to the expected   *)
(* step.                                                                   *)
LEMMA KeepsTake ==
  ASSUME DeliveryInv, Take
  PROVE  /\ DeliveryInv'
         /\ receiver.expected - 1 \in Len(taken) + 1 .. sealed
         /\ taken' = [k \in 1 .. receiver.expected - 1 |-> [game |-> game, step |-> k]]
<1> DEFINE had == Len(receiver.ready)
           took == Len(taken)
           e == receiver.expected
<1>1. /\ game \in Nat /\ sealed \in Nat /\ e \in Nat /\ receiver \in Receivers
      /\ taken \in Seq(Arriving) /\ receiver.ready \in Seq(Arriving)
      /\ e >= 1 /\ e <= sealed + 1
  BY DEF DeliveryInv, ReceiverLink, Receivers
<1>2. had \in Nat /\ took \in Nat /\ took + had = e - 1 /\ had > 0
  BY <1>1 DEF DeliveryInv, TakenLink, Take
<1>3. /\ game' = game /\ sealed' = sealed /\ acked' = acked /\ copies' = copies
      /\ taken' = taken \o receiver.ready
      /\ receiver' = Consumed(receiver)
  BY DEF Take, peer
<1>4. /\ receiver'.expected = e /\ receiver'.played = receiver.played
      /\ receiver'.buffered = receiver.buffered
      /\ receiver'.ready = <<>> /\ receiver'.arrived = FALSE
      /\ receiver' \in Receivers
  <2>1. receiver' = [receiver EXCEPT !.ready = <<>>, !.arrived = FALSE]
    BY <1>3 DEF Consumed
  <2>2. /\ receiver'.expected = e /\ receiver'.played = receiver.played
        /\ receiver'.buffered = receiver.buffered
        /\ receiver'.ready = <<>> /\ receiver'.arrived = FALSE
    BY <1>1, <2>1 DEF Receivers
  <2>3. <<>> \in Seq(Arriving)
    OBVIOUS
  <2>4. receiver' \in Receivers
    BY <1>1, <2>1, <2>3 DEF Receivers
  <2> QED BY <2>2, <2>4
<1>5. /\ taken' \in Seq(Arriving)
      /\ Len(taken') = e - 1
      /\ \A k \in 1 .. e - 1 : taken'[k] = TurnOf(k)
  <2>1. /\ taken' \in Seq(Arriving)
        /\ Len(taken') = took + had
        /\ \A k \in 1 .. took + had :
             taken'[k] = IF k <= took THEN taken[k] ELSE receiver.ready[k - took]
    BY <1>1, <1>3, ConcatProperties
  <2>2. \A k \in 1 .. took : taken[k] = TurnOf(k)
    BY DEF DeliveryInv, TakenLink
  <2>3. \A k \in 1 .. had : receiver.ready[k] = TurnOf(took + k)
    BY DEF DeliveryInv, TakenLink
  <2> HIDE DEF had, took, e
  <2>4. ASSUME NEW k \in 1 .. took + had
        PROVE  taken'[k] = TurnOf(k)
    <3>1. CASE k <= took
      <4>1. k \in 1 .. took
        BY <1>2, <3>1
      <4> QED BY <2>1, <2>2, <3>1, <4>1
    <3>2. CASE ~(k <= took)
      <4>1. k - took \in 1 .. had /\ took + (k - took) = k
        BY <1>2, <3>2
      <4> QED BY <2>1, <2>3, <3>2, <4>1
    <3> QED BY <3>1, <3>2
  <2> QED BY <1>2, <2>1, <2>4
<1>6. \A r : TurnOf(r)' = TurnOf(r)
  BY <1>3 DEF TurnOf
<1>7. taken' = [k \in 1 .. e - 1 |-> [game |-> game, step |-> k]]
  <2> DEFINE upTo == [k \in 1 .. e - 1 |-> [game |-> game, step |-> k]]
  <2>1. upTo \in Seq(Arriving) /\ Len(upTo) = e - 1
    <3>1. \A k \in 1 .. e - 1 : [game |-> game, step |-> k] \in Arriving
      BY <1>1 DEF Arriving
    <3>2. e - 1 \in Nat
      BY <1>1
    <3> HIDE DEF e
    <3> QED BY <3>1, <3>2
  <2>2. \A k \in 1 .. Len(taken') : taken'[k] = upTo[k]
    BY <1>5 DEF TurnOf
  <2> HIDE DEF upTo
  <2>3. taken' = upTo
    BY <1>5, <2>1, <2>2, SeqEqual
  <2> QED BY <2>3 DEF upTo
<1>8. ReceiverLink'
  BY <1>3, <1>4, <1>6 DEF DeliveryInv, ReceiverLink
<1>9. TakenLink'
  <2>1. Len(receiver'.ready) = 0
    BY <1>4
  <2>2. Len(taken') + Len(receiver'.ready) = receiver'.expected - 1
    BY <1>1, <1>4, <1>5, <2>1
  <2>3. \A k \in 1 .. Len(taken') : taken'[k] = TurnOf(k)'
    BY <1>5, <1>6
  <2>4. \A k \in 1 .. Len(receiver'.ready) :
          receiver'.ready[k] = [game |-> game', step |-> Len(taken') + k]
    BY <2>1
  <2> QED BY <1>4, <2>2, <2>3, <2>4 DEF TakenLink, TurnOf
<1>10. \A t \in copies' : \E r \in 1 .. sealed' : t = TurnOf(r)'
  BY <1>3, <1>6 DEF DeliveryInv
<1>11. DeliveryInv'
  BY <1>3, <1>4, <1>5, <1>8, <1>9, <1>10 DEF DeliveryInv
<1>12. e - 1 \in took + 1 .. sealed
  BY <1>1, <1>2
<1> QED BY <1>7, <1>11, <1>12

LEMMA KeepsOpenSubGame ==
  ASSUME DeliveryInv, OpenSubGame
  PROVE  DeliveryInv'
<1> USE DEF OpenSubGame, EmptyInbox
<1>1. game' \in Nat /\ sealed' \in Nat /\ acked' \subseteq 1 .. sealed'
  BY DEF DeliveryInv
<1>2. receiver' \in Receivers /\ taken' \in Seq(Arriving)
  BY DEF Receivers
<1>3. sealed' <= receiver'.expected + Window
  BY WindowAssumption
<1>4. ReceiverLink'
  BY DEF ReceiverLink
<1>5. TakenLink'
  BY DEF TakenLink
<1>6. copies' = {}
  OBVIOUS
<1> QED BY <1>1, <1>2, <1>3, <1>4, <1>5, <1>6 DEF DeliveryInv

(* What each action does to the invariant and to the stream.               *)
LEMMA DeliveryStep ==
  ASSUME DeliveryInv, [DeliveryNext]_delivery
  PROVE  /\ DeliveryInv'
         /\ [Stream!Seal \/ Stream!Take \/ Stream!NextGame]_(Stream!stream)
<1> USE DEF Stream!stream
<1>1. CASE PushNext
  <2>1. Stream!Seal
    BY <1>1 DEF PushNext, Stream!Seal
  <2> QED BY <1>1, <2>1, KeepsPushNext
<1>2. CASE Take
  <2>1. /\ receiver.expected - 1 \in Len(taken) + 1 .. sealed
        /\ taken' = [k \in 1 .. receiver.expected - 1 |-> [game |-> game, step |-> k]]
    BY <1>2, KeepsTake
  <2>2. UNCHANGED <<game, sealed>>
    BY <1>2 DEF Take, peer
  <2>3. Stream!Take
    BY <2>1, <2>2 DEF Stream!Take
  <2> QED BY <1>2, <2>3, KeepsTake
<1>3. CASE OpenSubGame
  <2>1. Stream!NextGame
    BY <1>3 DEF OpenSubGame, Stream!NextGame
  <2> QED BY <1>3, <2>1, KeepsOpenSubGame
<1>4. ASSUME NEW s \in TurnNumbers, PushAgain(s)
      PROVE  DeliveryInv' /\ UNCHANGED Stream!stream
  <2>1. UNCHANGED <<game, peer, receiver, taken>>
    BY <1>4 DEF PushAgain
  <2>2. \A t \in copies' : \E r \in 1 .. sealed : t = TurnOf(r)
    BY <1>4 DEF PushAgain, DeliveryInv
  <2> QED BY <2>1, <2>2, KeepsCopies DEF peer
<1>5. ASSUME NEW turn \in copies, Lose(turn)
      PROVE  DeliveryInv' /\ UNCHANGED Stream!stream
  <2>1. UNCHANGED <<game, peer, receiver, taken>>
    BY <1>5 DEF Lose
  <2>2. \A t \in copies' : \E r \in 1 .. sealed : t = TurnOf(r)
    BY <1>5 DEF Lose, DeliveryInv
  <2> QED BY <2>1, <2>2, KeepsCopies DEF peer
<1>6. ASSUME NEW turn \in copies, Deliver(turn)
      PROVE  DeliveryInv' /\ UNCHANGED Stream!stream
  <2>1. PICK s \in 1 .. sealed : turn = TurnOf(s)
    BY DEF DeliveryInv
  <2>2. receiver.expected \in Nat /\ sealed \in Nat
    BY DEF DeliveryInv, Receivers
  <2>3. Deliver(TurnOf(s))
    BY <1>6, <2>1
  <2>4. DeliveryInv'
    <3>1. CASE s < receiver.expected
      BY <2>3, <3>1, KeepsAbsorb
    <3>2. CASE s > receiver.expected
      BY <2>3, <3>2, KeepsHold
    <3>3. CASE s = receiver.expected
      BY <2>3, <3>3, KeepsApply
    <3> QED BY <2>2, <3>1, <3>2, <3>3
  <2> QED BY <1>6, <2>4 DEF Deliver
<1>7. CASE UNCHANGED delivery
  <2>1. UNCHANGED <<game, peer, receiver, taken>> /\ copies' = copies
    BY <1>7 DEF delivery
  <2>2. \A t \in copies' : \E r \in 1 .. sealed : t = TurnOf(r)
    BY <2>1 DEF DeliveryInv
  <2> QED BY <2>1, <2>2, KeepsCopies DEF peer
<1> QED BY <1>1, <1>2, <1>3, <1>4, <1>5, <1>6, <1>7 DEF DeliveryNext

LEMMA DeliveryAlways == DeliverySpec => []DeliveryInv
<1>1. DeliveryInit => DeliveryInv
  BY DeliveryStarts
<1>2. DeliveryInv /\ [DeliveryNext]_delivery => DeliveryInv'
  BY DeliveryStep
<1> QED BY <1>1, <1>2, PTL DEF DeliverySpec

(* Whatever is lost, repeated or reordered, and however wide the window:   *)
(* no copy of an honest peer's turn is ever refused as equivocation or as  *)
(* a flood (`decide`). The sender's window, counted from what was          *)
(* acknowledged, is never ahead of the receiver's.                         *)
THEOREM HonestTurnsAreAccepted == DeliverySpec => []HonestTurnAccepted
<1>1. DeliveryInv => HonestTurnAccepted
  <2> SUFFICES ASSUME DeliveryInv, NEW turn \in copies
               PROVE  ~Refuses(receiver, turn)
    BY DEF HonestTurnAccepted
  <2>1. PICK s \in 1 .. sealed : turn = TurnOf(s)
    BY DEF DeliveryInv
  <2>2. receiver.expected \in Nat /\ sealed \in Nat
    BY DEF DeliveryInv, Receivers
  <2>3. Decide(receiver, turn) \in {"ABSORB", "APPLY", "BUFFER"}
    BY <2>1, <2>2, DecisionFacts
  <2> QED BY <2>3 DEF Refuses
<1> QED BY <1>1, DeliveryAlways, PTL

(* The receiver is a stream of turns (`kit_inbox.py`): over any number of  *)
(* sub-games, each sealed turn is taken once, in order, nothing skipped.   *)
(* It is the safety half of `KeepsStream`.                                 *)
THEOREM DeliveryIsStream == DeliverySpec => Stream!Spec
<1>1. DeliveryInit => Stream!Init
  BY DEF DeliveryInit, Stream!Init
<1>2. DeliveryInv /\ [DeliveryNext]_delivery
        => [Stream!Seal \/ Stream!Take \/ Stream!NextGame]_(Stream!stream)
  BY DeliveryStep
<1> QED BY <1>1, <1>2, DeliveryAlways, PTL DEF DeliverySpec, Stream!Spec

=============================================================================
