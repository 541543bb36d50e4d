----------------------------- MODULE KitSubGame -----------------------------
(***************************************************************************)
(* One sub-game on the symmetric-push wire between two role backends, from *)
(* the greeting to both having returned or raised: `KitSubGame.play`, the  *)
(* half-turns of both sides, the end events each side may declare from     *)
(* what it is entitled to know, the terminal message it owes, and the      *)
(* disclosure.                                                             *)
(*                                                                         *)
(* Unlike TurnExchange there is one message per half-turn and the action   *)
(* stays sealed until the disclosure. The grain is the same: a segment     *)
(* between two awaits is one action, and so is a handler. What p sends is  *)
(* `call` until it is served; every turn ever pushed may be delivered      *)
(* again, by the forwarder that retries or by a network that was slow.     *)
(***************************************************************************)
EXTENDS BoardRules, KitInbox

(* The locked board is square and at least 7x7 (`MIN_GRID_SIZE`): a player *)
(* has a neighbouring cell. Nobody stands trapped before a barrier fell.   *)
ASSUME KitBoardAssumption == Rows > 1 \/ Cols > 1

VARIABLES
  pc,        \* where each loop is suspended or about to run
  cell,      \* `KitPlayState.truth.own_position`
  blocked,   \* `KitPlayState.truth.board.blocked`
  step,      \* `KitPlayState.step`
  pending,   \* `KitSubGame.pending`: the answer that rides out next
  inbox,     \* `KitFriendlySession.inbox`
  audit,     \* `KitFriendlySession.audit`: the peer's disclosure, its claim
  outcome,   \* the end event each side settled
  pushed,    \* every turn each side put on the wire
  call,      \* the loop's outstanding request, in the network
  reply,     \* its answer, in the network
  causes     \* history: why an honest sub-game may fail

play == <<cell, blocked, step, pending>>
network == <<call, reply>>
vars == <<pc, play, inbox, audit, outcome, pushed, network, causes>>

-----------------------------------------------------------------------------
(* Values.                                                                 *)

None == [kind |-> "none"]
Ok == [kind |-> "ok"]
Error == [kind |-> "error"]
Stay == [kind |-> "move", arg |-> <<0, 0>>]

Steps == 1 .. SurvivalThreshold

Suspended == {"awaitTurn", "awaitAudit"}
Calling == {"turnSent", "finalSent", "auditSent"}
Ready == {"turn", "settle", "disclose"}
Final == {"done", "failed"}

(* What the suspended loop of p waits for is already there.                *)
Arrived(p) ==
  \/ pc[p] = "awaitTurn" /\ inbox[p].arrived
  \/ pc[p] = "awaitAudit" /\ audit[p] # None

Runnable(p) == pc[p] \in Ready \/ Arrived(p) \/ reply[p] # None

(* `moves_first`: the thief takes the first turn.                          *)
Init ==
  /\ pc = [p \in Peer |-> IF p = Thief THEN "turn" ELSE "awaitTurn"]
  /\ cell = StartCell
  /\ blocked = [p \in Peer |-> {}]
  /\ step = [p \in Peer |-> 0]
  /\ pending = [p \in Peer |-> None]
  /\ inbox = [p \in Peer |-> EmptyInbox]
  /\ audit = [p \in Peer |-> None]
  /\ outcome = [p \in Peer |-> "NONE"]
  /\ pushed = [p \in Peer |-> {}]
  /\ call = [p \in Peer |-> None]
  /\ reply = [p \in Peer |-> None]
  /\ causes = {}

Goto(p, label) == pc' = [pc EXCEPT ![p] = label]

-----------------------------------------------------------------------------
(* `kit_adjudicate.py`.                                                    *)

(* A barrier on the own cell or no way out: the thief alone can see it.    *)
SelfCaptured(p, b, c) == p = Thief /\ (c \in b \/ Trapped(b, c))

Survived(p, s) == p = Thief /\ s >= SurvivalThreshold

(* Mutant: only a capture is answered.                                     *)
AnswerIfCaught(turn, c) ==
  IF c \in turn.claim THEN [kind |-> "answer", claim |-> c, caught |-> TRUE] ELSE None

(* The honest answer to a claimed cell, from the cell we stand on.         *)
AnswerTo(turn, c) ==
  IF turn.claim = {} THEN None
  ELSE [kind |-> "answer", claim |-> CHOOSE d \in turn.claim : TRUE, caught |-> c \in turn.claim]

Says(turn, caught) == turn.answer # None /\ turn.answer.caught = caught

(* Mutant: a survival claim is read before the answer beside it.           *)
SaidSurvivalFirst(turn) ==
  IF turn.survival THEN "SURVIVAL" ELSE IF Says(turn, TRUE) THEN "CAPTURE" ELSE "NONE"

(* What the peer's turn says about the end: an answer before a claim.      *)
SaidBy(turn) ==
  IF Says(turn, TRUE) THEN "CAPTURE" ELSE IF turn.survival THEN "SURVIVAL" ELSE "NONE"

(* `adjudicate`, in its order, after consuming a turn on board b.          *)
VerdictOn(p, turn, b) ==
  CASE SelfCaptured(p, b, cell[p]) -> "CAPTURE"
    [] ~SelfCaptured(p, b, cell[p]) /\ cell[p] \in turn.claim -> "CAPTURE"
    [] OTHER -> IF SaidBy(turn) # "NONE" THEN SaidBy(turn)
                ELSE IF Survived(p, step[p]) THEN "SURVIVAL" ELSE "NONE"

(* ... and after a turn of our own.                                        *)
OwnVerdict(p) ==
  IF SelfCaptured(p, blocked[p], cell[p]) THEN "CAPTURE"
  ELSE IF Survived(p, step[p]) THEN "SURVIVAL" ELSE "NONE"

-----------------------------------------------------------------------------
(* The loop of p.                                                          *)

(* A half-turn: the sealed record behind its commit, which nobody reads    *)
(* before the disclosure, and what it says in the open. `barrier` and      *)
(* `claim` hold at most one cell.                                          *)
HalfTurn(p, action) ==
  LET here == CellAfter(cell[p], action)
  IN [kind |-> "turn", step |-> step[p] + 1,
      commit |-> [action |-> action, cell |-> here],
      barrier |-> Placed(action),
      claim |-> IF p = Police THEN {here} ELSE {},
      answer |-> pending[p],
      survival |-> Survived(p, step[p] + 1)]

(* `KitHalfTurnMaker.take`: apply the action, seal it, say what this role  *)
(* may say, and push. The pending answer rides out and is cleared.         *)
Push(p, action, waiting) ==
  LET turn == HalfTurn(p, action)
  IN /\ cell' = [cell EXCEPT ![p] = turn.commit.cell]
     /\ blocked' = [blocked EXCEPT ![p] = @ \cup Placed(action)]
     /\ step' = [step EXCEPT ![p] = @ + 1]
     /\ pending' = [pending EXCEPT ![p] = None]
     /\ pushed' = [pushed EXCEPT ![p] = @ \cup {turn}]
     /\ call' = [call EXCEPT ![p] = turn]
     /\ Goto(p, waiting)

(* `_own_turn` up to its await: any lawful choice of the strategy.         *)
TakeTurn(p) ==
  /\ pc[p] = "turn"
  /\ step[p] < MaxMoves
  /\ \E action \in Lawful(p, blocked[p], cell[p]) : Push(p, action, "turnSent")
  /\ UNCHANGED <<inbox, audit, outcome, reply, causes>>

(* No lawful action: the strategy raises. A player can wall itself in.     *)
NoAction(p) ==
  /\ pc[p] = "turn"
  /\ step[p] < MaxMoves
  /\ Lawful(p, blocked[p], cell[p]) = {}
  /\ Goto(p, "failed")
  /\ causes' = causes \cup {"cornered"}
  /\ UNCHANGED <<play, inbox, audit, outcome, pushed, network>>

(* Our turn was acknowledged: the verdict our own move allows. A survival  *)
(* has been claimed already, so nothing more is owed.                      *)
TurnAnswered(p) ==
  /\ pc[p] = "turnSent"
  /\ reply[p] = Ok
  /\ reply' = [reply EXCEPT ![p] = None]
  /\ outcome' = [outcome EXCEPT ![p] = OwnVerdict(p)]
  /\ Goto(p, CASE OwnVerdict(p) = "NONE" -> "awaitTurn"
               [] OwnVerdict(p) = "SURVIVAL" -> "disclose"
               [] OwnVerdict(p) = "CAPTURE" -> "settle")
  /\ UNCHANGED <<play, inbox, audit, pushed, call, causes>>

BarriersOf(turns) == UNION {turns[i].barrier : i \in 1 .. Len(turns)}

(* `_consume`: fold every applied turn, answer the last claim, and let the *)
(* first end event of the batch settle it.                                 *)
Consume(p) ==
  LET batch == inbox[p].ready
      boardAt(i) == blocked[p] \cup BarriersOf(SubSeq(batch, 1, i))
      verdict(i) == VerdictOn(p, batch[i], boardAt(i))
      ends == {i \in 1 .. Len(batch) : verdict(i) # "NONE"}
      end == IF ends = {} THEN "NONE" ELSE verdict(CHOOSE i \in ends : \A j \in ends : i <= j)
      answer == AnswerTo(batch[Len(batch)], cell[p])
  IN /\ pc[p] = "awaitTurn"
     /\ Arrived(p)
     /\ inbox' = [inbox EXCEPT ![p] = Consumed(@)]
     /\ blocked' = [blocked EXCEPT ![p] = boardAt(Len(batch))]
     /\ pending' = [pending EXCEPT ![p] = IF answer = None THEN @ ELSE answer]
     /\ outcome' = [outcome EXCEPT ![p] = end]
     /\ Goto(p, IF end = "NONE" THEN "turn" ELSE "settle")
     /\ UNCHANGED <<cell, step, audit, pushed, network, causes>>

(* Mutant: an end event needs no last message.                             *)
NothingOwed(p) == FALSE

(* `terminal_owed`, below the step ceiling.                                *)
Owes(p) == (pending[p] # None \/ p = Thief) /\ step[p] < MaxMoves

(* `_settle`: a last forced STAY carries what is owed. The history records *)
(* an end that this message does not say.                                  *)
SendFinal(p) ==
  /\ pc[p] = "settle"
  /\ Owes(p)
  /\ LegalMove(blocked[p], cell[p], Stay.arg)
  /\ Push(p, Stay, "finalSent")
  /\ causes' = IF outcome[p] = "CAPTURE" /\ ~Says(call'[p], TRUE)
               THEN causes \cup {"unsaid"} ELSE causes
  /\ UNCHANGED <<inbox, audit, outcome, reply>>

(* The STAY is refused on a blocked cell, and the refusal ends the loop.   *)
FinalRefused(p) ==
  /\ pc[p] = "settle"
  /\ Owes(p)
  /\ ~LegalMove(blocked[p], cell[p], Stay.arg)
  /\ Goto(p, "failed")
  /\ causes' = causes \cup {"unsaid"}
  /\ UNCHANGED <<play, inbox, audit, outcome, pushed, network>>

SettleSilently(p) ==
  /\ pc[p] = "settle"
  /\ ~Owes(p)
  /\ Goto(p, "disclose")
  /\ UNCHANGED <<play, inbox, audit, outcome, pushed, network, causes>>

FinalAnswered(p) ==
  /\ pc[p] = "finalSent"
  /\ reply[p] = Ok
  /\ reply' = [reply EXCEPT ![p] = None]
  /\ Goto(p, "disclose")
  /\ UNCHANGED <<play, inbox, audit, outcome, pushed, call, causes>>

(* `chain.reveal`: the chain with its nonces, which the turns stand for    *)
(* here, and the outcome we settled.                                       *)
Disclosure(p) == [kind |-> "audit", claim |-> outcome[p]]

Disclose(p) ==
  /\ pc[p] = "disclose"
  /\ call' = [call EXCEPT ![p] = Disclosure(p)]
  /\ Goto(p, "auditSent")
  /\ UNCHANGED <<play, inbox, audit, outcome, pushed, reply, causes>>

AuditAnswered(p) ==
  /\ pc[p] = "auditSent"
  /\ reply[p] = Ok
  /\ reply' = [reply EXCEPT ![p] = None]
  /\ Goto(p, "awaitAudit")
  /\ UNCHANGED <<play, inbox, audit, outcome, pushed, call, causes>>

(* Woken by `audit_arrived`; the peer's claim settles nothing.             *)
Return(p) ==
  /\ pc[p] = "awaitAudit"
  /\ Arrived(p)
  /\ Goto(p, "done")
  /\ UNCHANGED <<play, inbox, audit, outcome, pushed, network, causes>>

(* A refusal or a transport failure leaves the loop by an exception.       *)
SendFailed(p) ==
  /\ pc[p] \in Calling
  /\ reply[p] = Error
  /\ reply' = [reply EXCEPT ![p] = None]
  /\ Goto(p, "failed")
  /\ UNCHANGED <<play, inbox, audit, outcome, pushed, call, causes>>

-----------------------------------------------------------------------------
(* The server of q = Other(p).                                             *)

Served(p, answer) ==
  /\ call' = [call EXCEPT ![p] = None]
  /\ reply' = [reply EXCEPT ![p] = answer]

(* `deliver_turn`: a refusal of the contract is an error to the sender.    *)
DeliverTurn(p) ==
  LET q == Other(p)
  IN /\ call[p].kind = "turn"
     /\ inbox' = [inbox EXCEPT ![q] = Offer(@, call[p])]
     /\ Served(p, IF Refuses(inbox[q], call[p]) THEN Error ELSE Ok)
     /\ UNCHANGED <<pc, play, audit, outcome, pushed, causes>>

(* `deliver_audit`.                                                        *)
DeliverAudit(p) ==
  /\ call[p].kind = "audit"
  /\ audit' = [audit EXCEPT ![Other(p)] = call[p]]
  /\ Served(p, Ok)
  /\ UNCHANGED <<pc, play, inbox, outcome, pushed, causes>>

(* A copy of a pushed turn arrives once more, or after its sender gave up. *)
DeliverCopy(p) ==
  /\ \E turn \in pushed[p] :
       inbox' = [inbox EXCEPT ![Other(p)] = Offer(@, turn)]
  /\ UNCHANGED <<pc, play, audit, outcome, pushed, network, causes>>

-----------------------------------------------------------------------------
(* Faults and deadlines, as in TurnExchange.                               *)

Lost(p) ==
  causes' = IF pc[Other(p)] = "failed" THEN causes ELSE causes \cup {"fault"}

LoseCall(p) ==
  /\ call[p] # None
  /\ Served(p, Error)
  /\ Lost(p)
  /\ UNCHANGED <<pc, play, inbox, audit, outcome, pushed>>

LoseReply(p) ==
  /\ reply[p] = Ok
  /\ reply' = [reply EXCEPT ![p] = Error]
  /\ Lost(p)
  /\ UNCHANGED <<pc, play, inbox, audit, outcome, pushed, call>>

Waiting(p) == pc[p] \in Suspended

(* A deadline passes on something that is not there. It is a fault only if *)
(* the peer could still have acted.                                        *)
Timeout(p) ==
  /\ Waiting(p)
  /\ ~Arrived(p)
  /\ Goto(p, "failed")
  /\ causes' = IF pc[Other(p)] # "failed" /\ (Runnable(Other(p)) \/ call[Other(p)] # None)
               THEN causes \cup {"fault"} ELSE causes
  /\ UNCHANGED <<play, inbox, audit, outcome, pushed, network>>

Crash(p) ==
  /\ pc[p] \notin Final
  /\ Goto(p, "failed")
  /\ Served(p, None)
  /\ causes' = causes \cup {"fault"}
  /\ UNCHANGED <<play, inbox, audit, outcome, pushed>>

Finished ==
  /\ \A p \in Peer : pc[p] \in Final
  /\ UNCHANGED vars

-----------------------------------------------------------------------------
Drive(p) ==
  \/ TakeTurn(p) \/ NoAction(p) \/ TurnAnswered(p) \/ Consume(p)
  \/ SendFinal(p) \/ FinalRefused(p) \/ SettleSilently(p) \/ FinalAnswered(p)
  \/ Disclose(p) \/ AuditAnswered(p) \/ Return(p) \/ SendFailed(p)

Serve(p) == DeliverTurn(p) \/ DeliverAudit(p)

Fault(p) == DeliverCopy(p) \/ LoseCall(p) \/ LoseReply(p) \/ Timeout(p) \/ Crash(p)

Next == (\E p \in Peer : Drive(p) \/ Serve(p) \/ Fault(p)) \/ Finished

(* A runnable loop is scheduled, a request is answered or its deadline     *)
(* passes, and a wait that stays unanswered reaches its deadline.          *)
Fairness ==
  \A p \in Peer : WF_vars(Drive(p)) /\ WF_vars(Serve(p) \/ LoseCall(p)) /\ WF_vars(Timeout(p))

Spec == Init /\ [][Next]_vars /\ Fairness

-----------------------------------------------------------------------------
(* Properties.                                                             *)

TurnAt(p, s) == CHOOSE turn \in pushed[p] : turn.step = s

(* Every claim is answered, truly: the turn after a claim names the cell   *)
(* claimed last and says whether the thief stood there, although the       *)
(* answer is computed one half-turn before it is sent.                     *)
EveryClaimAnswered ==
  \A turn \in pushed[Thief] :
    turn.step > 1 =>
      LET asked == TurnAt(Police, turn.step - 1)
          stood == TurnAt(Thief, turn.step - 1).commit.cell
      IN /\ turn.answer # None
         /\ {turn.answer.claim} = asked.claim
         /\ turn.answer.caught = (asked.claim = {stood})

(* The thief cannot move: the end only it can see.                         *)
ThiefWalled ==
  cell[Thief] \in blocked[Thief] \/ \A n \in Neighbours(cell[Thief]) : ~Traversable(blocked[Thief], n)

Settled(p) == outcome[p] # "NONE"

(* An end event is true: what each side settles from what it was told is   *)
(* what the two sealed chains show. Two sides that both settle agree,      *)
(* unless the thief was ended by the walls around it: the one end the      *)
(* code cannot say, whose last STAY may claim a survival instead           *)
(* (`adjudicate`, `KitSubGame._settle`).                                   *)
EndsAreTrue ==
  /\ outcome[Police] = "CAPTURE" => cell[Police] = cell[Thief]
  /\ outcome[Thief] = "CAPTURE" => cell[Police] = cell[Thief] \/ ThiefWalled
  /\ \A p \in Peer : outcome[p] = "SURVIVAL" => step[Thief] = SurvivalThreshold
  /\ (\A p \in Peer : Settled(p)) => outcome[Police] = outcome[Thief] \/ ThiefWalled

(* Nothing else goes wrong: a loop that failed lost a message or its peer, *)
(* had no lawful action, or was left waiting for an end that was not said. *)
FailureHasCause == (\E p \in Peer : pc[p] = "failed") => causes # {}

(* Both loops return or raise.                                             *)
Termination == <>(\A p \in Peer : pc[p] \in Final)

Alternating == INSTANCE AlternatingGame WITH
  place <- cell, walls <- blocked[Police], turns <- step,
  met <- \E asked \in pushed[Police] : \E turn \in pushed[Thief] :
           asked.step = turn.step /\ asked.claim = {turn.commit.cell}

(* The sub-game is played alternately on one board, and both loops come to *)
(* an end (`KitSubGame.play`).                                             *)
ImplementsAlternating == Alternating!Spec /\ Termination
=============================================================================
