---------------------------- MODULE TurnExchange ----------------------------
(***************************************************************************)
(* One sub-game between two peer processes: `SubGameDriver` and            *)
(* `PeerRunner` on the outbound side, `TurnProtocolRuntime` and            *)
(* `AuditRuntime` behind the peer server on the inbound side, with the     *)
(* rounds (commit, acknowledge, reveal, adopt), the closing disclosure and *)
(* the mutual audit.                                                       *)
(*                                                                         *)
(* Each process is one asyncio loop. Its driver runs without interruption  *)
(* between two awaits, and each inbound tool routes synchronously, so a    *)
(* driver segment is one action and a handler is one action. A driver has  *)
(* at most one request outstanding; the request and its answer both travel *)
(* (`call`, `reply`), so another process may act between them.             *)
(*                                                                         *)
(* A digest is modelled by the sealed record itself: the hash is taken to  *)
(* be injective and hiding, and no handler looks inside one before the     *)
(* audit. Nonces, hints and intents travel with the record they seal.      *)
(***************************************************************************)
EXTENDS BoardRules, Sequences

VARIABLES
  pc,        \* where each driver is suspended or about to run
  cell,      \* `SubGameDriver.truth.own_position`
  blocked,   \* `SubGameDriver.truth.board.blocked`
  step,      \* `SubGameDriver.truth.completed_steps`
  captured,  \* `SubGameDriver.captured`
  chosen,    \* the action of the round being played (`play_round`'s local)
  turn,      \* the `TurnProtocolRuntime` bound in `ActiveRuntimeContext`
  sealed,    \* `OutboundEvidenceRuntime.records`
  told,      \* `OutboundEvidenceRuntime.capture` and `.scent`
  evPhase,   \* `OutboundEvidenceRuntime.phase`
  witnessed, \* `AuditRuntime.evidence`, with `.capture`
  auPhase,   \* `AuditRuntime.phase`
  disclosed, \* `AuditRuntime.disclosure`: the peer's records
  verdict,   \* `AuditRuntime.outcome`
  finding,   \* `AuditRuntime.semantic`
  call,      \* the driver's outstanding request, in the network
  reply,     \* its answer, in the network
  causes     \* history: why an honest sub-game may fail

driver == <<pc, cell, blocked, step, captured, chosen>>
evidence == <<sealed, told, evPhase>>
audit == <<witnessed, auPhase, disclosed, verdict, finding>>
network == <<call, reply>>
vars == <<driver, turn, evidence, audit, network, causes>>

-----------------------------------------------------------------------------
(* Values.                                                                 *)

Steps == 0 .. SurvivalThreshold
Rounds == 1 .. SurvivalThreshold

(* What a deposit reveals: the emission is a function of the board and the *)
(* cell the action leads to. It is kept injective, so two projections that *)
(* differ at all are told apart.                                           *)
Scent == [blocked : SUBSET Cells, cell : Cells]
EmissionOf(b, c, a) == [blocked |-> b \cup Placed(a), cell |-> CellAfter(c, a)]

Sealed == [step : Rounds, cell : Cells, blocked : SUBSET Cells, action : Action]
Row == [caught : BOOLEAN, scent : Scent]
Witness == [digest : Sealed, action : Action, accepted : BOOLEAN, row : Row]

None == [kind |-> "none"]
TurnPhases == {"UNBOUND", "AWAITING_COMMITMENT", "AWAITING_OUR_ACKNOWLEDGEMENT",
               "AWAITING_REVEAL", "CONSUMED"}

NewTurn(cursor, phase, b, c) ==
  [cursor |-> cursor, phase |-> phase, live |-> b, here |-> c,
   theirs |-> None, ours |-> None, acked |-> FALSE, seen |-> None, answered |-> None]

Unbound == NewTurn(0, "UNBOUND", {}, <<0, 0>>)

(* A runtime for the round after `s`, on the truth the driver now holds.   *)
FreshTurn(s, b, c) == NewTurn(s + 1, "AWAITING_COMMITMENT", b, c)

Suspended == {"awaitCommit", "awaitAck", "awaitReveal", "awaitAudit"}
Calling == {"commitSent", "ackSent", "revealSent", "noncesSent", "disclosureSent"}
Ready == {"idle", "commit", "nonces", "disclose"}
Final == {"closed", "failed"}

(* Where a driver goes once the named request has been answered.           *)
AfterCall ==
  [commitSent |-> "awaitCommit", ackSent |-> "awaitAck", revealSent |-> "awaitReveal",
   noncesSent |-> "disclose", disclosureSent |-> "awaitAudit"]

(* The milestone the suspended driver of p waits for is already recorded.  *)
Arrived(p) ==
  \/ pc[p] = "awaitCommit" /\ turn[p].phase \in {"AWAITING_OUR_ACKNOWLEDGEMENT",
                                                 "AWAITING_REVEAL", "CONSUMED"}
  \/ pc[p] = "awaitAck" /\ turn[p].acked
  \/ pc[p] = "awaitReveal" /\ turn[p].phase = "CONSUMED"
  \/ pc[p] = "awaitAudit" /\ auPhase[p] = "COMPLETE"

(* p's own driver could run before any new message reaches it.             *)
Runnable(p) == pc[p] \in Ready \/ Arrived(p) \/ reply[p] # None

Init ==
  /\ pc = [p \in Peer |-> "idle"]
  /\ cell = StartCell
  /\ blocked = [p \in Peer |-> {}]
  /\ step = [p \in Peer |-> 0]
  /\ captured = [p \in Peer |-> FALSE]
  /\ chosen = [p \in Peer |-> None]
  /\ turn = [p \in Peer |-> Unbound]
  /\ sealed = [p \in Peer |-> <<>>]
  /\ told = [p \in Peer |-> <<>>]
  /\ evPhase = [p \in Peer |-> "OPEN"]
  /\ witnessed = [p \in Peer |-> <<>>]
  /\ auPhase = [p \in Peer |-> "UNBOUND"]
  /\ disclosed = [p \in Peer |-> <<>>]
  /\ verdict = [p \in Peer |-> "NONE"]
  /\ finding = [p \in Peer |-> "NONE"]
  /\ call = [p \in Peer |-> None]
  /\ reply = [p \in Peer |-> None]
  /\ causes = {}

Send(p, message, waiting) ==
  /\ call' = [call EXCEPT ![p] = message]
  /\ pc' = [pc EXCEPT ![p] = waiting]

-----------------------------------------------------------------------------
(* The driver of p, one action per segment between two awaits.             *)

(* `open_sub_game` binds this sub-game's evidence and audit, then          *)
(* `_play_rounds` builds the driver and opens the first round.             *)
Launch(p) ==
  /\ pc[p] = "idle"
  /\ pc' = [pc EXCEPT ![p] = "commit"]
  /\ turn' = [turn EXCEPT ![p] = FreshTurn(0, blocked[p], cell[p])]
  /\ auPhase' = [auPhase EXCEPT ![p] = "AWAITING_NONCES"]
  /\ UNCHANGED <<cell, blocked, step, captured, chosen, evidence, witnessed, disclosed, verdict,
                 finding, network, causes>>

(* `play_round` up to its first await: ask the strategy, project the       *)
(* emission, seal, register, send.                                         *)
SendCommitment(p) ==
  /\ pc[p] = "commit"
  /\ evPhase[p] = "OPEN"
  /\ turn[p].ours = None
  /\ \E a \in Lawful(p, blocked[p], cell[p]) :
       LET record == [step |-> turn[p].cursor, cell |-> cell[p], blocked |-> blocked[p],
                      action |-> a]
       IN /\ chosen' = [chosen EXCEPT ![p] =
                 [kind |-> "prepared", action |-> a,
                  scent |-> EmissionOf(turn[p].live, turn[p].here, a)]]
          /\ sealed' = [sealed EXCEPT ![p] = Append(@, record)]
          /\ turn' = [turn EXCEPT ![p].ours = record]
          /\ Send(p, [kind |-> "commitment", cursor |-> record.step, digest |-> record],
                  "commitSent")
  /\ UNCHANGED <<cell, blocked, step, captured, told, evPhase, audit, reply, causes>>

(* A strategy offered no lawful action refuses to choose (E-LOCAL-DEFECT). *)
Cornered(p) ==
  /\ pc[p] = "commit"
  /\ Lawful(p, blocked[p], cell[p]) = {}
  /\ pc' = [pc EXCEPT ![p] = "failed"]
  /\ causes' = causes \cup {"cornered"}
  /\ UNCHANGED <<cell, blocked, step, captured, chosen, turn, evidence, audit, network>>

(* Mutant: locking the digest forgets the acknowledgement already received.*)
SendAcknowledgementAnew(p) ==
  /\ pc[p] = "awaitCommit"
  /\ turn[p].phase = "AWAITING_OUR_ACKNOWLEDGEMENT"
  /\ turn' = [turn EXCEPT ![p].phase = "AWAITING_REVEAL", ![p].acked = FALSE]
  /\ Send(p, [kind |-> "acknowledgement", cursor |-> turn[p].cursor, digest |-> turn[p].theirs],
          "ackSent")
  /\ UNCHANGED <<cell, blocked, step, captured, chosen, evidence, audit, reply, causes>>

(* Woken by `peer_committed`: lock the peer's digest and acknowledge it.   *)
SendAcknowledgement(p) ==
  /\ pc[p] = "awaitCommit"
  /\ turn[p].phase = "AWAITING_OUR_ACKNOWLEDGEMENT"
  /\ turn' = [turn EXCEPT ![p].phase = "AWAITING_REVEAL"]
  /\ Send(p, [kind |-> "acknowledgement", cursor |-> turn[p].cursor, digest |-> turn[p].theirs],
          "ackSent")
  /\ UNCHANGED <<cell, blocked, step, captured, chosen, evidence, audit, reply, causes>>

(* Mutant: the reveal does not wait for either milestone.                  *)
SendRevealEarly(p) ==
  /\ pc[p] = "awaitCommit"
  /\ Send(p, [kind |-> "reveal", cursor |-> turn[p].cursor, action |-> chosen[p].action,
              scent |-> chosen[p].scent], "revealSent")
  /\ UNCHANGED <<cell, blocked, step, captured, chosen, turn, evidence, audit, reply, causes>>

(* Woken by `acknowledged`: reveal the action and what it deposits.        *)
SendReveal(p) ==
  /\ pc[p] = "awaitAck"
  /\ turn[p].acked
  /\ Send(p, [kind |-> "reveal", cursor |-> turn[p].cursor, action |-> chosen[p].action,
              scent |-> chosen[p].scent], "revealSent")
  /\ UNCHANGED <<cell, blocked, step, captured, chosen, turn, evidence, audit, reply, causes>>

(* What our own disclosure will say of this reveal: the answer the peer    *)
(* really gave and the emission we really sent.                            *)
Retained(p) == Append(told[p], [caught |-> reply[p].caught, scent |-> chosen[p].scent])

(* A request was answered. Only the answer to a reveal carries a value:    *)
(* `observe_outgoing` and `observe_capture` retain it before the await.    *)
Answered(p) ==
  /\ pc[p] \in Calling
  /\ reply[p].kind = "ok"
  /\ reply' = [reply EXCEPT ![p] = None]
  /\ pc' = [pc EXCEPT ![p] = AfterCall[pc[p]]]
  /\ IF pc[p] = "revealSent"
     THEN /\ turn' = [turn EXCEPT ![p].answered = reply[p]]
          /\ told' = [told EXCEPT ![p] = Retained(p)]
     ELSE UNCHANGED <<turn, told>>
  /\ UNCHANGED <<cell, blocked, step, captured, chosen, sealed, evPhase, audit, call, causes>>

(* A refusal or a transport failure leaves the driver by an exception.     *)
Refused(p) ==
  /\ pc[p] \in Calling
  /\ reply[p].kind = "error"
  /\ reply' = [reply EXCEPT ![p] = None]
  /\ pc' = [pc EXCEPT ![p] = "failed"]
  /\ UNCHANGED <<cell, blocked, step, captured, chosen, turn, evidence, audit, call, causes>>

(* Whether either direction of the round answered the capture question.    *)
CaughtIn(t) == t.seen.row.caught \/ t.answered.caught

(* Mutant: our own pending truth replaces the board the reveal grew.       *)
MergedOwnOnly(p, a) == blocked[p] \cup Placed(a)

(* Our own placement and the peer's public one, in one board.              *)
Merged(p, a) == blocked[p] \cup Placed(a) \cup turn[p].live

(* Mutant: our move is applied to the board their same-step barrier is on. *)
LandingOnMerged(p, a) ==
  LET c == CellAfter(cell[p], a) IN IF c \in turn[p].live THEN cell[p] ELSE c

(* Where our accepted action leaves us, judged on the start truth.         *)
Landing(p, a) == CellAfter(cell[p], a)

(* Woken by `peer_revealed`: apply our action to the round's start truth,  *)
(* merge the peer's public placement, hand what was witnessed to the audit *)
(* (`close_turn`), and open the next round unless the sub-game is over. A  *)
(* peer that could not accept our action ends the driver instead.          *)
Adopt(p) ==
  /\ pc[p] = "awaitReveal"
  /\ turn[p].phase = "CONSUMED"
  /\ LET a == chosen[p].action
         c == Landing(p, a)
         b == Merged(p, a)
         hit == captured[p] \/ CaughtIn(turn[p])
         over == Terminal(hit, step[p] + 1) # "NONE"
     IN IF turn[p].answered.accepted
        THEN /\ step' = [step EXCEPT ![p] = @ + 1]
             /\ cell' = [cell EXCEPT ![p] = c]
             /\ blocked' = [blocked EXCEPT ![p] = b]
             /\ captured' = [captured EXCEPT ![p] = hit]
             /\ turn' = IF over THEN turn
                        ELSE [turn EXCEPT ![p] = FreshTurn(step[p] + 1, b, c)]
             /\ pc' = [pc EXCEPT ![p] = IF over THEN "nonces" ELSE "commit"]
             /\ witnessed' = [witnessed EXCEPT ![p] = Append(@, turn[p].seen)]
        ELSE /\ pc' = [pc EXCEPT ![p] = "failed"]
             /\ UNCHANGED <<cell, blocked, step, captured, turn, witnessed>>
  /\ UNCHANGED <<chosen, evidence, auPhase, disclosed, verdict, finding, network, causes>>

(* `send_final_nonce_reveal`: turn preparation closes with the disclosure. *)
SendNonces(p) ==
  /\ pc[p] = "nonces"
  /\ evPhase' = [evPhase EXCEPT ![p] = IF @ = "OPEN" THEN "NONCES_DISCLOSED" ELSE @]
  /\ Send(p, [kind |-> "nonces", count |-> Len(sealed[p])], "noncesSent")
  /\ UNCHANGED <<cell, blocked, step, captured, chosen, turn, sealed, told, audit, reply, causes>>

(* `send_audit_disclosure`: the sealed records and the retained rows.      *)
SendDisclosure(p) ==
  /\ pc[p] = "disclose"
  /\ evPhase[p] # "OPEN"
  /\ evPhase' = [evPhase EXCEPT ![p] = "COMPLETE"]
  /\ Send(p, [kind |-> "disclosure", log |-> sealed[p], rows |-> told[p]], "disclosureSent")
  /\ UNCHANGED <<cell, blocked, step, captured, chosen, turn, sealed, told, audit, reply, causes>>

(* The semantic review replays both logs from the locked opening: each     *)
(* sealed cell continues the trajectory, each sealed barrier set is the    *)
(* canonical board, each action is lawful there, each capture answer and   *)
(* each emission is the one the disclosed play requires. log[p] and        *)
(* rows[p] are the records role p sealed and the rows of what it asked.    *)
BoardBefore(log, k) ==
  UNION {Placed(log[p][j].action) : p \in Peer, j \in 1 .. (k - 1)}

CellBefore(log, p, k) ==
  IF k = 1 THEN StartCell[p] ELSE CellAfter(log[p][k - 1].cell, log[p][k - 1].action)

HonestStep(log, rows, p, k) ==
  LET record == log[p][k]
      board == BoardBefore(log, k)
  IN /\ record.cell = CellBefore(log, p, k)
     /\ record.blocked = board
     /\ record.action \in Lawful(p, board, record.cell)
     /\ rows[p][k].caught = Caught(board, record.action, CellBefore(log, Thief, k))
     /\ rows[p][k].scent = EmissionOf(board, record.cell, record.action)

Consistent(log, rows) ==
  \A p \in Peer : \A k \in 1 .. Len(log[p]) : HonestStep(log, rows, p, k)

RowsOf(w) == [k \in 1 .. Len(w) |-> w[k].row]

(* Woken by `complete`: `close_sub_game` reviews, records and moves on.    *)
Close(p) ==
  /\ pc[p] = "awaitAudit"
  /\ auPhase[p] = "COMPLETE"
  /\ LET log == [r \in Peer |-> IF r = p THEN sealed[p] ELSE disclosed[p]]
         rows == [r \in Peer |-> IF r = p THEN told[p] ELSE RowsOf(witnessed[p])]
     IN finding' = [finding EXCEPT ![p] =
          IF Consistent(log, rows) THEN "CONSISTENT" ELSE "VIOLATION"]
  /\ pc' = [pc EXCEPT ![p] = "closed"]
  /\ UNCHANGED <<cell, blocked, step, captured, chosen, turn, evidence, witnessed, auPhase,
                 disclosed, verdict, network, causes>>

-----------------------------------------------------------------------------
(* The peer server of q = Other(p): one synchronous handler per request.   *)

Answer(p, message) ==
  /\ call' = [call EXCEPT ![p] = None]
  /\ reply' = [reply EXCEPT ![p] = message]

Ok == [kind |-> "ok"]

(* Whether q's owner admits the request; everything else is refused stale. *)
Admits(q, m) ==
  \/ /\ m.kind = "commitment"
     /\ turn[q].phase = "AWAITING_COMMITMENT"
     /\ m.cursor = turn[q].cursor
  \/ /\ m.kind = "acknowledgement"
     /\ turn[q].ours # None
     /\ ~turn[q].acked
     /\ m.cursor = turn[q].cursor
     /\ m.digest = turn[q].ours
  \/ /\ m.kind = "reveal"
     /\ turn[q].phase = "AWAITING_REVEAL"
     /\ m.cursor = turn[q].cursor
  \/ /\ m.kind = "nonces"
     /\ auPhase[q] = "AWAITING_NONCES"
     /\ m.count = Len(witnessed[q])
  \/ /\ m.kind = "disclosure"
     /\ auPhase[q] = "AWAITING_DISCLOSURE"
     /\ m.rows = RowsOf(witnessed[q])
     /\ Len(m.log) = Len(witnessed[q])

Receive(p, kind) ==
  /\ call[p].kind = kind
  /\ Admits(Other(p), call[p])

AcceptCommitment(p) ==
  /\ Receive(p, "commitment")
  /\ turn' = [turn EXCEPT ![Other(p)].theirs = call[p].digest,
                          ![Other(p)].phase = "AWAITING_OUR_ACKNOWLEDGEMENT"]
  /\ Answer(p, Ok)
  /\ UNCHANGED <<driver, evidence, audit, causes>>

AcceptAcknowledgement(p) ==
  /\ Receive(p, "acknowledgement")
  /\ turn' = [turn EXCEPT ![Other(p)].acked = TRUE]
  /\ Answer(p, Ok)
  /\ UNCHANGED <<driver, evidence, audit, causes>>

(* Mutant: the capture question is answered from the cell we moved to.     *)
AnswerCellAfterMove(q) == CellAfter(turn[q].here, chosen[q].action)

AnswerCell(q) == turn[q].here

(* Answer the capture question from our own cell, adopt a public barrier   *)
(* on our own board, keep the witness. Our position is never touched.      *)
AcceptReveal(p) ==
  LET q == Other(p)
      m == call[p]
      accepted == Acceptable(turn[q].live, m.action)
      caught == Caught(turn[q].live, m.action, AnswerCell(q))
  IN /\ Receive(p, "reveal")
     /\ turn' = [turn EXCEPT
          ![q].live = IF accepted THEN @ \cup Placed(m.action) ELSE @,
          ![q].seen = [digest |-> turn[q].theirs, action |-> m.action, accepted |-> accepted,
                       row |-> [caught |-> caught, scent |-> m.scent]],
          ![q].phase = "CONSUMED"]
     /\ Answer(p, [kind |-> "ok", accepted |-> accepted, caught |-> caught])
     /\ UNCHANGED <<driver, evidence, audit, causes>>

AcceptNonces(p) ==
  /\ Receive(p, "nonces")
  /\ auPhase' = [auPhase EXCEPT ![Other(p)] = "AWAITING_DISCLOSURE"]
  /\ Answer(p, Ok)
  /\ UNCHANGED <<driver, turn, evidence, witnessed, disclosed, verdict, finding, causes>>

(* Every witnessed turn must open to the digest received before it.        *)
Verifies(w, record) == record = w.digest /\ record.action = w.action

AcceptDisclosure(p) ==
  LET q == Other(p)
      opens == \A k \in 1 .. Len(witnessed[q]) : Verifies(witnessed[q][k], call[p].log[k])
  IN /\ Receive(p, "disclosure")
     /\ disclosed' = [disclosed EXCEPT ![q] = call[p].log]
     /\ verdict' = [verdict EXCEPT ![q] = IF opens THEN "VERIFIED_OK" ELSE "TAMPERED"]
     /\ auPhase' = [auPhase EXCEPT ![q] = "COMPLETE"]
     /\ Answer(p, Ok)
     /\ UNCHANGED <<driver, turn, evidence, witnessed, finding, causes>>

(* A request no owner admits. The history variable records whether it came *)
(* while the receiver's own driver still had something it could do.        *)
Refuse(p) ==
  /\ call[p] # None
  /\ ~Admits(Other(p), call[p])
  /\ Answer(p, [kind |-> "error"])
  /\ causes' = IF Runnable(Other(p)) THEN causes \cup {"overtaken"} ELSE causes
  /\ UNCHANGED <<driver, turn, evidence, audit>>

-----------------------------------------------------------------------------
(* Faults and deadlines. A peer that has already failed explains a lost    *)
(* message by itself; otherwise the loss is a cause of its own.            *)

Blame(p) == IF pc[p] = "failed" THEN causes ELSE causes \cup {"fault"}

(* The request, or the answer to a request already served, never arrives.  *)
LoseCall(p) ==
  /\ call[p] # None
  /\ Answer(p, [kind |-> "error"])
  /\ causes' = Blame(Other(p))
  /\ UNCHANGED <<driver, turn, evidence, audit>>

LoseReply(p) ==
  /\ reply[p].kind = "ok"
  /\ reply' = [reply EXCEPT ![p] = [kind |-> "error"]]
  /\ causes' = Blame(Other(p))
  /\ UNCHANGED <<driver, turn, evidence, audit, call>>

(* The peer could still end p's wait by a step of its own, or by a request *)
(* that is on its way.                                                     *)
Stirs(q) == Runnable(q) \/ call[q] # None

(* `wait_for` gives up on a milestone that is not recorded. It is a fault  *)
(* if a peer that has not failed was merely slower than the deadline; a    *)
(* wait nobody could ever end is not explained by its deadline.            *)
Timeout(p) ==
  /\ pc[p] \in Suspended
  /\ ~Arrived(p)
  /\ pc' = [pc EXCEPT ![p] = "failed"]
  /\ causes' = IF pc[Other(p)] # "failed" /\ Stirs(Other(p)) THEN causes \cup {"fault"} ELSE causes
  /\ UNCHANGED <<cell, blocked, step, captured, chosen, turn, evidence, audit, network>>

(* The process of p dies. Nothing is resumed: its peer sees lost requests  *)
(* and deadlines, as it does when p's driver raised and its server closed. *)
Crash(p) ==
  /\ pc[p] \notin Final
  /\ pc' = [pc EXCEPT ![p] = "failed"]
  /\ call' = [call EXCEPT ![p] = None]
  /\ reply' = [reply EXCEPT ![p] = None]
  /\ causes' = causes \cup {"fault"}
  /\ UNCHANGED <<cell, blocked, step, captured, chosen, turn, evidence, audit>>

(* Both drivers have returned or raised: the sub-game is over.             *)
Finished ==
  /\ \A p \in Peer : pc[p] \in Final
  /\ UNCHANGED vars

-----------------------------------------------------------------------------
Drive(p) ==
  \/ Launch(p) \/ SendCommitment(p) \/ Cornered(p) \/ SendAcknowledgement(p)
  \/ SendReveal(p) \/ Answered(p) \/ Refused(p) \/ Adopt(p)
  \/ SendNonces(p) \/ SendDisclosure(p) \/ Close(p)

Serve(p) ==
  \/ AcceptCommitment(p) \/ AcceptAcknowledgement(p) \/ AcceptReveal(p)
  \/ AcceptNonces(p) \/ AcceptDisclosure(p) \/ Refuse(p)

Fault(p) == LoseCall(p) \/ LoseReply(p) \/ Timeout(p) \/ Crash(p)

Next == (\E p \in Peer : Drive(p) \/ Serve(p) \/ Fault(p)) \/ Finished

(* A runnable driver is scheduled, a request is answered or its session    *)
(* deadline passes, and a wait that stays unanswered reaches its deadline. *)
Fairness ==
  \A p \in Peer : /\ WF_vars(Drive(p))
                  /\ WF_vars(Serve(p) \/ LoseCall(p))
                  /\ WF_vars(Timeout(p))

Spec == Init /\ [][Next]_vars /\ Fairness

-----------------------------------------------------------------------------
(* Properties.                                                             *)

MaybeSealed == Sealed \cup {None}
Outcome == [kind : {"ok"}, accepted : BOOLEAN, caught : BOOLEAN]   \* `TurnOutcome`
Messages ==
  {None}
  \cup [kind : {"commitment", "acknowledgement"}, cursor : Rounds, digest : Sealed]
  \cup [kind : {"reveal"}, cursor : Rounds, action : Action, scent : Scent]
  \cup [kind : {"nonces"}, count : Steps]
  \cup [kind : {"disclosure"}, log : Seq(Sealed), rows : Seq(Row)]
Replies == {None, Ok, [kind |-> "error"]} \cup Outcome
Prepared == [kind : {"prepared"}, action : Action, scent : Scent]
Turns ==
  [cursor : Steps, phase : TurnPhases, live : SUBSET Cells, here : Cells,
   theirs : MaybeSealed, ours : MaybeSealed, acked : BOOLEAN, seen : Witness \cup {None},
   answered : Outcome \cup {None}]

DriverType ==
  /\ pc \in [Peer -> Ready \cup Calling \cup Suspended \cup Final]
  /\ cell \in [Peer -> Cells]
  /\ blocked \in [Peer -> SUBSET Cells]
  /\ step \in [Peer -> Steps]
  /\ captured \in [Peer -> BOOLEAN]
  /\ chosen \in [Peer -> Prepared \cup {None}]

EvidenceType ==
  /\ sealed \in [Peer -> Seq(Sealed)]
  /\ told \in [Peer -> Seq(Row)]
  /\ evPhase \in [Peer -> {"OPEN", "NONCES_DISCLOSED", "COMPLETE"}]

AuditType ==
  /\ witnessed \in [Peer -> Seq(Witness)]
  /\ auPhase \in [Peer -> {"UNBOUND", "AWAITING_NONCES", "AWAITING_DISCLOSURE", "COMPLETE"}]
  /\ disclosed \in [Peer -> Seq(Sealed)]
  /\ verdict \in [Peer -> {"NONE", "VERIFIED_OK", "TAMPERED"}]
  /\ finding \in [Peer -> {"NONE", "CONSISTENT", "VIOLATION"}]

NetworkType ==
  /\ call \in [Peer -> Messages]
  /\ reply \in [Peer -> Replies]
  /\ causes \in SUBSET {"fault", "overtaken", "cornered"}

(* Every variable has its type: in particular no driver ever counts past   *)
(* the survival threshold, no runtime is bound for a round beyond it, no   *)
(* piece leaves the board, and the answer a driver folds into a round is   *)
(* the outcome of a reveal and never the bare receipt of another call.     *)
TypeOK ==
  /\ DriverType
  /\ turn \in [Peer -> Turns]
  /\ EvidenceType
  /\ AuditType
  /\ NetworkType

(* The fair exchange: the moment a peer can see the other's step-k action  *)
(* (in flight to it, or consumed by it), its own step-k action is sealed   *)
(* and the other holds that very digest, so neither can choose after       *)
(* looking. R1 and the acknowledgement gate of `reveal_turn` carry it.     *)
HoldsDigest(q, k, digest) ==
  \/ turn[q].cursor = k /\ turn[q].theirs = digest
  \/ k <= Len(witnessed[q]) /\ witnessed[q][k].digest = digest

FairExchange ==
  \A p \in Peer :
    LET q == Other(p)
        k == turn[q].cursor
    IN (call[p].kind = "reveal" \/ turn[q].seen # None)
         => /\ call[p].kind = "reveal" => call[p].cursor = k
            /\ Len(sealed[q]) = k
            /\ HoldsDigest(p, k, sealed[q][k])

(* The public board is the same board: every step was sealed by both over  *)
(* the same start board, and the quota both drivers checked independently  *)
(* is kept by their union.                                                 *)
BoardsAgree ==
  /\ step[Police] = step[Thief] => blocked[Police] = blocked[Thief]
  /\ \A k \in Rounds :
       k <= Len(sealed[Police]) /\ k <= Len(sealed[Thief])
         => sealed[Police][k].blocked = sealed[Thief][k].blocked
  /\ \A p \in Peer : Cardinality(blocked[p] \cup turn[p].live) <= MaxBarriers

(* The end event is common: a peer whose sub-game is over and a peer at    *)
(* the same count agree on capture, and nobody seals a round past the end  *)
(* the other one reached, although each decides from what it was told.     *)
Over(p) == Terminal(captured[p], step[p]) # "NONE"

OutcomeAgreement ==
  /\ step[Police] = step[Thief] => captured[Police] = captured[Thief]
  /\ \A p \in Peer : Over(p) => /\ step[Other(p)] <= step[p]
                               /\ Len(sealed[Other(p)]) <= step[p]

(* The two copies of the game are one game, though each driver decides     *)
(* from what it was told (`merged_truth`, `caught_in`, `settled`).         *)
CopiesAgree == BoardsAgree /\ OutcomeAgreement

(* Honest play audits clean: whatever the interleaving, the other side     *)
(* accepts the action it is shown, the disclosed records open to the       *)
(* witnessed digests, and the replay finds every sealed cell and board,    *)
(* every capture answer and every emission as the rules R1-R3 of the       *)
(* driver intend - on both sides, faults or not.                           *)
HonestPlayAuditsClean ==
  \A p \in Peer :
    /\ turn[p].seen # None => turn[p].seen.accepted
    /\ verdict[p] # "TAMPERED"
    /\ finding[p] # "VIOLATION"
    /\ pc[p] = "closed" => verdict[p] = "VERIFIED_OK" /\ finding[p] = "CONSISTENT"

(* Nothing else goes wrong: if a driver failed, then a message or process  *)
(* was lost, or a deadline ran out on a peer that could still act, or a    *)
(* strategy had no lawful action, or a request reached a peer whose own    *)
(* driver still had a step to take. So the two drivers never wait on each  *)
(* other for good (`PeerRunner`, `SubGameDriver._await`).                  *)
FailureHasCause == (\E p \in Peer : pc[p] = "failed") => causes # {}

(* Every wait is bounded: each driver returns or raises.                   *)
Termination == <>(\A p \in Peer : pc[p] \in Final)

(* A round happens when the first of the two peers adopts it; the other's  *)
(* adoption changes nothing.                                               *)
Leader == IF step[Thief] > step[Police] THEN Thief ELSE Police

Game == INSTANCE LockstepGame WITH
  cell <- [p \in Peer |-> IF step[p] = step[Leader] THEN cell[p]
                          ELSE CellAfter(cell[p], chosen[p].action)],
  blocked <- blocked[Leader],
  step <- step[Leader],
  captured <- captured[Leader]

(* The exchange implements the lockstep game, and both its drivers come to *)
(* an end (`SubGameDriver.play_round`, `_await`).                          *)
ImplementsLockstep == Game!Spec /\ Termination
=============================================================================
