------------------------ MODULE TurnExchange_proofs ------------------------
(***************************************************************************)
(* Theorems about `TurnExchange`, for every board, threshold and quota.    *)
(*                                                                         *)
(* TypeOK is not inductive: that a driver's counter stays within bounds,   *)
(* that its move lands on the board and that the answer it folds into a    *)
(* round is a reveal's, all follow from where the driver is suspended. The *)
(* links below state what each suspension point guarantees about the       *)
(* driver's locals, its runtime and its outstanding request. On them rests *)
(* the second part, the fair exchange, and the third, the one game.        *)
(***************************************************************************)
EXTENDS TurnExchange, FiniteSetTheorems, TLAPS

Playing == {"commit", "commitSent", "awaitCommit", "ackSent", "awaitAck", "revealSent",
            "awaitReveal"}
Sealing == Playing \ {"commit"}

(* The round a driver is in is the one its runtime is bound for, it is not *)
(* past the end event, and the action it sealed was lawful at its start.   *)
RoundLink(p) ==
  /\ pc[p] = "idle" => step[p] = 0 /\ captured[p] = FALSE
  /\ pc[p] \in Playing => /\ turn[p].cursor = step[p] + 1
                          /\ turn[p].here = cell[p]
                          /\ step[p] < SurvivalThreshold
  /\ pc[p] \in Sealing => /\ chosen[p] \in Prepared
                          /\ chosen[p].action \in Lawful(p, blocked[p], cell[p])
  /\ pc[p] = "awaitReveal" => turn[p].answered \in Outcome

(* One sealed record per round begun.                                      *)
RecordLink(p) ==
  /\ pc[p] \in Sealing => Len(sealed[p]) = step[p] + 1
  /\ pc[p] \in {"idle", "commit", "nonces", "noncesSent", "disclose", "disclosureSent",
                "awaitAudit", "closed"} => Len(sealed[p]) = step[p]

(* What the phase of a runtime says it holds.                              *)
PhaseLink(p) ==
  /\ turn[p].phase \in {"AWAITING_OUR_ACKNOWLEDGEMENT", "AWAITING_REVEAL", "CONSUMED"}
       => turn[p].theirs \in Sealed
  /\ turn[p].phase = "CONSUMED" => turn[p].seen \in Witness

(* A request or its answer is in the network only while its driver waits,  *)
(* never both, and only a reveal is answered with an outcome.              *)
CallLink(p) ==
  /\ pc[p] \notin Calling => call[p] = None /\ reply[p] = None
  /\ call[p] # None => reply[p] = None
  /\ pc[p] = "revealSent" => /\ call[p] # None => call[p].kind = "reveal"
                             /\ reply[p].kind = "ok" => reply[p] \in Outcome

TypeInv ==
  /\ TypeOK
  /\ \A p \in Peer : RoundLink(p) /\ RecordLink(p) /\ PhaseLink(p) /\ CallLink(p)

-----------------------------------------------------------------------------
(* There are exactly two peers, and Other is the opposite one.             *)
LEMMA PeerFacts ==
  ASSUME NEW p \in Peer
  PROVE  Other(p) \in Peer /\ Other(p) # p /\ (\A r \in Peer : r = p \/ r = Other(p))
  BY BoardAssumption DEF Peer, Other

(* What a lawful action does keeps piece and barrier on the board          *)
(* (`apply_move`, `place_barrier`).                                        *)
LEMMA LawfulFacts ==
  ASSUME NEW p \in Peer, NEW b \in SUBSET Cells, NEW c \in Cells, NEW a \in Lawful(p, b, c)
  PROVE  a \in Action /\ CellAfter(c, a) \in Cells /\ Placed(a) \in SUBSET Cells
<1>1. a \in Action
  BY DEF Lawful
<1>2. Placed(a) \in SUBSET Cells
  BY <1>1 DEF Placed, Action
<1>3. CellAfter(c, a) \in Cells
  BY DEF Lawful, LegalMove, Traversable, CellAfter
<1> QED
  BY <1>1, <1>2, <1>3

(* The strengthened type invariant holds in the initial state.             *)
LEMMA TypeInit == Init => TypeInv
<1> SUFFICES ASSUME Init PROVE TypeInv
  OBVIOUS
<1>1. TypeOK
  BY BoardAssumption DEF Init, TypeOK, DriverType, EvidenceType, AuditType, NetworkType, Turns,
     Unbound, NewTurn, TurnPhases, MaybeSealed, Messages, Replies, None, Ready, Steps, Cells
<1>2. ASSUME NEW p \in Peer PROVE RoundLink(p) /\ RecordLink(p) /\ PhaseLink(p) /\ CallLink(p)
  BY BoardAssumption DEF Init, RoundLink, RecordLink, PhaseLink, CallLink, Playing, Sealing,
     Unbound, NewTurn, Calling, None
<1> QED
  BY <1>1, <1>2 DEF TypeInv

USE DEF vars, driver, evidence, audit, network

(* A request carries the fields of its kind (`peer_operations`).           *)
LEMMA MessageFacts ==
  ASSUME NEW m \in Messages
  PROVE  /\ m.kind \in {"commitment", "acknowledgement"}
               => m.cursor \in Rounds /\ m.digest \in Sealed
         /\ m.kind = "reveal" => m.cursor \in Rounds /\ m.action \in Action /\ m.scent \in Scent
         /\ m.kind = "disclosure" => m.log \in Seq(Sealed)
  BY DEF Messages, None

(* A TurnOutcome is a reply, and never the empty slot.                     *)
LEMMA OutcomeFacts ==
  ASSUME NEW o \in Outcome
  PROVE  o.accepted \in BOOLEAN /\ o.caught \in BOOLEAN /\ o \in Replies /\ o # None
  BY DEF Outcome, Replies, None

(* While a driver plays, its runtime is bound for the next round, on its   *)
(* own cell and within the threshold.                                      *)
LEMMA PlayingFacts ==
  ASSUME TypeInv, NEW p \in Peer, pc[p] \in Playing
  PROVE  /\ turn[p] \in Turns /\ turn[p].cursor \in Rounds
         /\ turn[p].cursor = step[p] + 1 /\ turn[p].here = cell[p]
         /\ step[p] \in Nat /\ step[p] + 1 \in Steps
         /\ cell[p] \in Cells /\ blocked[p] \in SUBSET Cells
  BY BoardAssumption DEF TypeInv, TypeOK, DriverType, RoundLink, Steps, Rounds

(* The fields of a turn runtime have their types.                          *)
LEMMA TurnFacts ==
  ASSUME NEW t \in Turns
  PROVE  /\ t.live \in SUBSET Cells /\ t.here \in Cells /\ t.cursor \in Steps
         /\ t.phase \in TurnPhases /\ t.theirs \in MaybeSealed /\ t.ours \in MaybeSealed
         /\ t.acked \in BOOLEAN /\ t.seen \in Witness \cup {None}
         /\ t.answered \in Outcome \cup {None}
  BY DEF Turns

(* Opening the sub-game preserves the type invariant: the fresh runtime is *)
(* bound for round 1 <= threshold.                                         *)
LEMMA LaunchType == ASSUME TypeInv, NEW p \in Peer, Launch(p) PROVE TypeInv'
<1> USE DEF TypeInv, Launch, TypeOK
<1>1. DriverType'
  BY DEF DriverType, Ready
<1>2. turn' \in [Peer -> Turns]
  BY BoardAssumption DEF Turns, FreshTurn, NewTurn, Steps, TurnPhases, MaybeSealed, DriverType
<1>3. EvidenceType'
  BY DEF EvidenceType
<1>4. AuditType'
  BY DEF AuditType
<1>5. NetworkType'
  BY DEF NetworkType
<1>6. ASSUME NEW r \in Peer PROVE (RoundLink(r) /\ RecordLink(r) /\ PhaseLink(r) /\ CallLink(r))'
  <2>1. RoundLink(r)'
    BY <1>1, <1>2, BoardAssumption DEF RoundLink, DriverType, Playing, Sealing, Turns,
       FreshTurn, NewTurn, Steps
  <2>2. RecordLink(r)'
    BY <1>1 DEF RecordLink, DriverType, Playing, Sealing
  <2>3. PhaseLink(r)'
    BY <1>2 DEF PhaseLink, Turns, FreshTurn, NewTurn
  <2>4. CallLink(r)'
    BY <1>1, <1>5 DEF CallLink, DriverType, NetworkType, Calling, None
  <2> QED
    BY <2>1, <2>2, <2>3, <2>4
<1> QED
  BY <1>1, <1>2, <1>3, <1>4, <1>5, <1>6

(* Committing preserves the type invariant: the sealed record is built     *)
(* from the cell, the board and the cursor the driver holds.               *)
LEMMA SendCommitmentType == ASSUME TypeInv, NEW p \in Peer, SendCommitment(p) PROVE TypeInv'
<1> USE DEF TypeInv, SendCommitment, TypeOK
<1>a. PICK a \in Lawful(p, blocked[p], cell[p]) :
        /\ chosen' = [chosen EXCEPT ![p] =
             [kind |-> "prepared", action |-> a,
              scent |-> EmissionOf(turn[p].live, turn[p].here, a)]]
        /\ sealed' = [sealed EXCEPT ![p] = Append(@,
             [step |-> turn[p].cursor, cell |-> cell[p], blocked |-> blocked[p], action |-> a])]
        /\ turn' = [turn EXCEPT ![p].ours =
             [step |-> turn[p].cursor, cell |-> cell[p], blocked |-> blocked[p], action |-> a]]
        /\ Send(p, [kind |-> "commitment", cursor |-> turn[p].cursor, digest |->
             [step |-> turn[p].cursor, cell |-> cell[p], blocked |-> blocked[p], action |-> a]],
             "commitSent")
  OBVIOUS
<1> DEFINE record == [step |-> turn[p].cursor, cell |-> cell[p], blocked |-> blocked[p],
                      action |-> a]
<1>b. pc[p] = "commit" /\ cell[p] \in Cells /\ blocked[p] \in SUBSET Cells /\ turn[p] \in Turns
  BY DEF DriverType
<1>c. a \in Action /\ CellAfter(cell[p], a) \in Cells /\ Placed(a) \in SUBSET Cells
  BY <1>b, LawfulFacts
<1>d. turn[p].cursor \in Rounds /\ turn[p].here = cell[p] /\ turn[p].cursor = step[p] + 1
  BY <1>b, BoardAssumption DEF RoundLink, Playing, DriverType, Steps, Rounds
<1>e. record \in Sealed
  BY <1>b, <1>c, <1>d DEF Sealed
<1>f. EmissionOf(turn[p].live, turn[p].here, a) \in Scent
  BY <1>b, <1>c, <1>d DEF EmissionOf, Scent, Turns
<1>g. [kind |-> "prepared", action |-> a, scent |-> EmissionOf(turn[p].live, turn[p].here, a)]
        \in Prepared
  BY <1>c, <1>f DEF Prepared
<1> HIDE DEF record
<1>1. DriverType'
  BY <1>a, <1>g DEF DriverType, Send, Calling
<1>2. turn' \in [Peer -> Turns]
  <2>1. [turn[p] EXCEPT !.ours = record] \in Turns
    BY <1>b, <1>e DEF Turns, MaybeSealed
  <2> QED
    BY <1>a, <2>1 DEF record
<1>3. EvidenceType'
  BY <1>a, <1>e DEF EvidenceType, record
<1>4. AuditType'
  BY DEF AuditType
<1>5. NetworkType'
  <2>1. [kind |-> "commitment", cursor |-> turn[p].cursor, digest |-> record] \in Messages
    BY <1>d, <1>e DEF Messages
  <2> QED
    BY <1>a, <2>1 DEF NetworkType, Send, record
<1>6. ASSUME NEW r \in Peer PROVE (RoundLink(r) /\ RecordLink(r) /\ PhaseLink(r) /\ CallLink(r))'
  <2>1. RoundLink(r)'
    BY <1>1, <1>2, <1>a, <1>b, <1>g DEF RoundLink, DriverType, Playing, Sealing, Turns, Send
  <2>2. RecordLink(r)'
    BY <1>1, <1>a, <1>b, <1>e DEF RecordLink, DriverType, Playing, Sealing, Send, EvidenceType,
       record, Steps
  <2>3. PhaseLink(r)'
    BY <1>2, <1>a DEF PhaseLink, Turns
  <2>4. CallLink(r)'
    BY <1>1, <1>5, <1>a DEF CallLink, DriverType, NetworkType, Calling, None, Send
  <2> QED
    BY <2>1, <2>2, <2>3, <2>4
<1> QED
  BY <1>1, <1>2, <1>3, <1>4, <1>5, <1>6

(* A strategy that refuses to choose preserves the type invariant.         *)
LEMMA CorneredType == ASSUME TypeInv, NEW p \in Peer, Cornered(p) PROVE TypeInv'
<1> USE DEF TypeInv, Cornered, TypeOK
<1>1. DriverType' /\ turn' \in [Peer -> Turns]
  BY DEF DriverType, Turns, Final
<1>2. EvidenceType' /\ AuditType' /\ NetworkType'
  BY DEF EvidenceType, AuditType, NetworkType, Messages, Replies
<1>3. ASSUME NEW r \in Peer PROVE (RoundLink(r) /\ RecordLink(r) /\ PhaseLink(r) /\ CallLink(r))'
  <2>1. RoundLink(r)' /\ RecordLink(r)' /\ PhaseLink(r)'
    BY <1>1 DEF RoundLink, RecordLink, PhaseLink, DriverType, Playing, Sealing, Turns
  <2>2. CallLink(r)'
    BY <1>1, <1>2 DEF CallLink, DriverType, NetworkType, Calling, Suspended, None
  <2> QED
    BY <2>1, <2>2
<1> QED
  BY <1>1, <1>2, <1>3

(* Acknowledging preserves the type invariant: the phase guarantees a      *)
(* digest to send.                                                         *)
LEMMA SendAcknowledgementType == ASSUME TypeInv, NEW p \in Peer, SendAcknowledgement(p) PROVE
   TypeInv'
<1> USE DEF TypeInv, SendAcknowledgement, TypeOK
<1>a. turn[p] \in Turns /\ turn[p].cursor \in Rounds /\ turn[p].theirs \in Sealed
  BY PlayingFacts DEF Playing, PhaseLink
<1>1. DriverType'
  BY DEF DriverType, Send, Calling
<1>2. turn' \in [Peer -> Turns]
  <2>1. [turn[p] EXCEPT !.phase = "AWAITING_REVEAL"] \in Turns
    BY <1>a DEF Turns, TurnPhases
  <2> QED
    BY <2>1
<1>3. EvidenceType'
  BY DEF EvidenceType
<1>4. AuditType'
  BY DEF AuditType
<1>5. NetworkType'
  <2>1. [kind |-> "acknowledgement", cursor |-> turn[p].cursor, digest |-> turn[p].theirs]
          \in Messages
    BY <1>a DEF Messages
  <2> QED
    BY <2>1 DEF NetworkType, Send
<1>6. ASSUME NEW r \in Peer PROVE (RoundLink(r) /\ RecordLink(r) /\ PhaseLink(r) /\ CallLink(r))'
  <2>1. RoundLink(r)'
    BY <1>1, <1>2 DEF RoundLink, DriverType, Playing, Sealing, Turns, Send, Calling
  <2>2. RecordLink(r)'
    BY <1>1 DEF RecordLink, DriverType, Playing, Sealing, Send, Calling
  <2>3. PhaseLink(r)'
    BY <1>2 DEF PhaseLink, Turns
  <2>4. CallLink(r)'
    BY <1>1, <1>5 DEF CallLink, DriverType, NetworkType, Calling, None, Send
  <2> QED
    BY <2>1, <2>2, <2>3, <2>4
<1> QED
  BY <1>1, <1>2, <1>3, <1>4, <1>5, <1>6

(* Revealing preserves the type invariant: the action and emission of this *)
(* round were prepared.                                                    *)
LEMMA SendRevealType == ASSUME TypeInv, NEW p \in Peer, SendReveal(p) PROVE TypeInv'
<1> USE DEF TypeInv, SendReveal, TypeOK
<1>a. turn[p].cursor \in Rounds /\ chosen[p].action \in Action /\ chosen[p].scent \in Scent
  BY PlayingFacts DEF Playing, Sealing, RoundLink, Prepared
<1>1. DriverType'
  BY DEF DriverType, Send, Calling
<1>2. turn' \in [Peer -> Turns]
  BY DEF Turns
<1>3. EvidenceType'
  BY DEF EvidenceType
<1>4. AuditType'
  BY DEF AuditType
<1>5. NetworkType'
  <2>1. [kind |-> "reveal", cursor |-> turn[p].cursor, action |-> chosen[p].action,
         scent |-> chosen[p].scent] \in Messages
    BY <1>a DEF Messages
  <2> QED
    BY <2>1 DEF NetworkType, Send
<1>6. ASSUME NEW r \in Peer PROVE (RoundLink(r) /\ RecordLink(r) /\ PhaseLink(r) /\ CallLink(r))'
  <2>1. RoundLink(r)'
    BY <1>1, <1>2 DEF RoundLink, DriverType, Playing, Sealing, Turns, Send, Calling
  <2>2. RecordLink(r)'
    BY <1>1 DEF RecordLink, DriverType, Playing, Sealing, Send, Calling
  <2>3. PhaseLink(r)'
    BY <1>2 DEF PhaseLink, Turns
  <2>4. CallLink(r)'
    BY <1>1, <1>5 DEF CallLink, DriverType, NetworkType, Calling, None, Send
  <2> QED
    BY <2>1, <2>2, <2>3, <2>4
<1> QED
  BY <1>1, <1>2, <1>3, <1>4, <1>5, <1>6

(* Taking an answer preserves the type invariant: only a reveal is         *)
(* answered by an outcome.                                                 *)
LEMMA AnsweredType == ASSUME TypeInv, NEW p \in Peer, Answered(p) PROVE TypeInv'
<1> USE DEF TypeInv, Answered, TypeOK
<1>a. turn[p] \in Turns
  OBVIOUS
<1>b. pc[p] = "revealSent" => /\ reply[p] \in Outcome
                             /\ chosen[p].scent \in Scent
  BY DEF CallLink, RoundLink, Sealing, Playing, Prepared
<1>c. pc[p] = "revealSent" => [caught |-> reply[p].caught, scent |-> chosen[p].scent] \in Row
  BY <1>b DEF Outcome, Row
<1>1. DriverType'
  BY DEF DriverType, AfterCall, Calling, Suspended, Ready
<1>2. turn' \in [Peer -> Turns]
  <2>1. pc[p] = "revealSent" => [turn[p] EXCEPT !.answered = reply[p]] \in Turns
    BY <1>a, <1>b DEF Turns
  <2> QED
    BY <2>1
<1>3. EvidenceType'
  <2>1. pc[p] = "revealSent" => Append(told[p], [caught |-> reply[p].caught, scent |->
     chosen[p].scent]) \in Seq(Row)
    BY <1>c DEF EvidenceType
  <2> QED
    BY <2>1 DEF EvidenceType, Retained
<1>4. AuditType'
  BY DEF AuditType
<1>5. NetworkType'
  BY DEF NetworkType, Replies
<1>6. ASSUME NEW r \in Peer PROVE (RoundLink(r) /\ RecordLink(r) /\ PhaseLink(r) /\ CallLink(r))'
  <2>1. RoundLink(r)'
    <3>1. CASE pc[p] = "revealSent"
      BY <1>1, <1>2, <1>a, <1>b, <3>1 DEF RoundLink, DriverType, Playing, Sealing, Turns,
         AfterCall, Calling
    <3>2. CASE pc[p] # "revealSent"
      BY <1>1, <1>2, <3>2 DEF RoundLink, DriverType, Playing, Sealing, AfterCall, Calling
    <3> QED
      BY <3>1, <3>2
  <2>2. RecordLink(r)'
    BY <1>1 DEF RecordLink, DriverType, Playing, Sealing, AfterCall, Calling
  <2>3. PhaseLink(r)'
    BY <1>2 DEF PhaseLink, Turns
  <2>4. CallLink(r)'
    BY <1>1, <1>5 DEF CallLink, DriverType, NetworkType, Calling, None, AfterCall
  <2> QED
    BY <2>1, <2>2, <2>3, <2>4
<1> QED
  BY <1>1, <1>2, <1>3, <1>4, <1>5, <1>6

(* A refused request preserves the type invariant.                         *)
LEMMA RefusedType == ASSUME TypeInv, NEW p \in Peer, Refused(p) PROVE TypeInv'
<1> USE DEF TypeInv, Refused, TypeOK
<1>1. DriverType' /\ turn' \in [Peer -> Turns]
  BY DEF DriverType, Turns, Final
<1>2. EvidenceType' /\ AuditType' /\ NetworkType'
  BY DEF EvidenceType, AuditType, NetworkType, Messages, Replies
<1>3. ASSUME NEW r \in Peer PROVE (RoundLink(r) /\ RecordLink(r) /\ PhaseLink(r) /\ CallLink(r))'
  <2>1. RoundLink(r)' /\ RecordLink(r)' /\ PhaseLink(r)'
    BY <1>1 DEF RoundLink, RecordLink, PhaseLink, DriverType, Playing, Sealing, Turns
  <2>2. CallLink(r)'
    BY <1>1, <1>2 DEF CallLink, DriverType, NetworkType, Calling, Suspended, None
  <2> QED
    BY <2>1, <2>2
<1> QED
  BY <1>1, <1>2, <1>3

(* Adopting preserves the type invariant: the landing cell is on the       *)
(* board, and a next round is opened only when the end events leave one.   *)
LEMMA AdoptType == ASSUME TypeInv, NEW p \in Peer, Adopt(p) PROVE TypeInv'
<1> USE DEF TypeInv, Adopt, TypeOK
<1> DEFINE a == chosen[p].action
<1> DEFINE c == Landing(p, a)
<1> DEFINE b == Merged(p, a)
<1> DEFINE hit == captured[p] \/ CaughtIn(turn[p])
<1> DEFINE over == Terminal(hit, step[p] + 1) # "NONE"
<1> DEFINE fresh == FreshTurn(step[p] + 1, b, c)
<1>a. /\ turn[p] \in Turns /\ step[p] + 1 \in Steps /\ step[p] \in Nat
      /\ turn[p].live \in SUBSET Cells /\ blocked[p] \in SUBSET Cells
      /\ cell[p] \in Cells
  BY PlayingFacts, TurnFacts DEF Playing
<1>b. a \in Lawful(p, blocked[p], cell[p]) /\ turn[p].answered \in Outcome
  BY DEF RoundLink, Playing, Sealing
<1>c. c \in Cells /\ b \in SUBSET Cells
  BY <1>a, <1>b, LawfulFacts DEF Landing, Merged
<1>d. turn[p].seen \in Witness
  BY DEF PhaseLink
<1>e. hit \in BOOLEAN
  BY <1>b, <1>d DEF CaughtIn, Witness, Row, Outcome, DriverType
<1>f. ~over => step[p] + 1 < SurvivalThreshold
  BY <1>a, <1>e, BoardAssumption DEF Terminal, Steps
<1>g. ~over => fresh \in Turns /\ fresh.cursor = step[p] + 2 /\ fresh.here = c
                 /\ fresh.phase = "AWAITING_COMMITMENT"
  BY <1>a, <1>c, <1>f, BoardAssumption DEF FreshTurn, NewTurn, Turns, TurnPhases, MaybeSealed,
     Steps
<1>h. CASE turn[p].answered.accepted
  <2> USE <1>h
  <2>0. /\ pc[p] = "awaitReveal"
        /\ step' = [step EXCEPT ![p] = @ + 1]
        /\ cell' = [cell EXCEPT ![p] = c]
        /\ blocked' = [blocked EXCEPT ![p] = b]
        /\ captured' = [captured EXCEPT ![p] = hit]
        /\ turn' = IF over THEN turn ELSE [turn EXCEPT ![p] = fresh]
        /\ pc' = [pc EXCEPT ![p] = IF over THEN "nonces" ELSE "commit"]
        /\ witnessed' = [witnessed EXCEPT ![p] = Append(@, turn[p].seen)]
        /\ UNCHANGED <<chosen, evidence, auPhase, disclosed, verdict, finding, network, causes>>
    OBVIOUS
  <2> HIDE DEF Adopt, a, b, c, hit, over, fresh
  <2>1. DriverType'
    BY <2>0, <1>a, <1>c, <1>e DEF DriverType, Ready
  <2>2. turn' \in [Peer -> Turns]
    BY <2>0, <1>g
  <2>3. EvidenceType' /\ NetworkType'
    BY <2>0 DEF EvidenceType, NetworkType
  <2>4. AuditType'
    BY <2>0, <1>d DEF AuditType
  <2>5. ASSUME NEW r \in Peer PROVE (RoundLink(r) /\ RecordLink(r) /\ PhaseLink(r) /\
     CallLink(r))'
    <3>1. RoundLink(r)'
      BY <2>0, <2>1, <1>a, <1>f, <1>g DEF RoundLink, DriverType, Playing, Sealing, Steps
    <3>2. RecordLink(r)'
      BY <2>0, <2>1, <1>a DEF RecordLink, DriverType, Playing, Sealing, Steps
    <3>3. PhaseLink(r)'
      BY <2>0, <1>g DEF PhaseLink
    <3>4. CallLink(r)'
      BY <2>0, <2>1 DEF CallLink, DriverType, Calling
    <3> QED
      BY <3>1, <3>2, <3>3, <3>4
  <2> QED
    BY <2>1, <2>2, <2>3, <2>4, <2>5
<1>i. CASE ~turn[p].answered.accepted
  <2> USE <1>i
  <2>0. /\ pc[p] = "awaitReveal"
        /\ pc' = [pc EXCEPT ![p] = "failed"]
        /\ UNCHANGED <<cell, blocked, step, captured, chosen, turn, evidence, audit, network,
           causes>>
    OBVIOUS
  <2> HIDE DEF Adopt, a, b, c, hit, over, fresh
  <2>1. DriverType' /\ EvidenceType' /\ AuditType' /\ NetworkType'
    BY <2>0 DEF DriverType, EvidenceType, AuditType, NetworkType, Final
  <2>2. ASSUME NEW r \in Peer PROVE (RoundLink(r) /\ RecordLink(r) /\ PhaseLink(r) /\
     CallLink(r))'
    <3>1. RoundLink(r)' /\ RecordLink(r)'
      BY <2>0 DEF RoundLink, RecordLink, DriverType, Playing, Sealing
    <3>2. PhaseLink(r)' /\ CallLink(r)'
      BY <2>0 DEF PhaseLink, CallLink, DriverType, Calling
    <3> QED
      BY <3>1, <3>2
  <2> QED
    BY <2>0, <2>1, <2>2
<1> QED
  BY <1>h, <1>i

(* Disclosing the nonces preserves the type invariant: one nonce per       *)
(* completed step.                                                         *)
LEMMA SendNoncesType == ASSUME TypeInv, NEW p \in Peer, SendNonces(p) PROVE TypeInv'
<1> USE DEF TypeInv, SendNonces, TypeOK
<1>1. DriverType'
  BY DEF DriverType, Send, Calling
<1>2. turn' \in [Peer -> Turns]
  BY DEF Turns
<1>3. EvidenceType'
  BY DEF EvidenceType
<1>4. AuditType'
  BY DEF AuditType
<1>5. NetworkType'
  <2>1. Len(sealed[p]) \in Steps
    BY DEF RecordLink, DriverType
  <2>2. [kind |-> "nonces", count |-> Len(sealed[p])] \in Messages
    BY <2>1 DEF Messages
  <2> QED
    BY <2>2 DEF NetworkType, Send
<1>6. ASSUME NEW r \in Peer PROVE (RoundLink(r) /\ RecordLink(r) /\ PhaseLink(r) /\ CallLink(r))'
  <2>1. RoundLink(r)'
    BY <1>1, <1>2 DEF RoundLink, DriverType, Playing, Sealing, Turns, Send, Calling
  <2>2. RecordLink(r)'
    BY <1>1 DEF RecordLink, DriverType, Playing, Sealing, Send, Calling
  <2>3. PhaseLink(r)'
    BY <1>2 DEF PhaseLink, Turns
  <2>4. CallLink(r)'
    BY <1>1, <1>5 DEF CallLink, DriverType, NetworkType, Calling, None, Send
  <2> QED
    BY <2>1, <2>2, <2>3, <2>4
<1> QED
  BY <1>1, <1>2, <1>3, <1>4, <1>5, <1>6

(* Disclosing the log preserves the type invariant.                        *)
LEMMA SendDisclosureType == ASSUME TypeInv, NEW p \in Peer, SendDisclosure(p) PROVE TypeInv'
<1> USE DEF TypeInv, SendDisclosure, TypeOK
<1>1. DriverType'
  BY DEF DriverType, Send, Calling
<1>2. turn' \in [Peer -> Turns]
  BY DEF Turns
<1>3. EvidenceType'
  BY DEF EvidenceType
<1>4. AuditType'
  BY DEF AuditType
<1>5. NetworkType'
  <2>1. sealed[p] \in Seq(Sealed) /\ told[p] \in Seq(Row)
    BY DEF EvidenceType
  <2>2. [kind |-> "disclosure", log |-> sealed[p], rows |-> told[p]] \in Messages
    BY <2>1 DEF Messages
  <2> QED
    BY <2>2 DEF NetworkType, Send
<1>6. ASSUME NEW r \in Peer PROVE (RoundLink(r) /\ RecordLink(r) /\ PhaseLink(r) /\ CallLink(r))'
  <2>1. RoundLink(r)'
    BY <1>1, <1>2 DEF RoundLink, DriverType, Playing, Sealing, Turns, Send, Calling
  <2>2. RecordLink(r)'
    BY <1>1 DEF RecordLink, DriverType, Playing, Sealing, Send, Calling
  <2>3. PhaseLink(r)'
    BY <1>2 DEF PhaseLink, Turns
  <2>4. CallLink(r)'
    BY <1>1, <1>5 DEF CallLink, DriverType, NetworkType, Calling, None, Send
  <2> QED
    BY <2>1, <2>2, <2>3, <2>4
<1> QED
  BY <1>1, <1>2, <1>3, <1>4, <1>5, <1>6

(* Closing the sub-game preserves the type invariant.                      *)
LEMMA CloseType == ASSUME TypeInv, NEW p \in Peer, Close(p) PROVE TypeInv'
<1> USE DEF TypeInv, Close, TypeOK
<1>1. DriverType' /\ turn' \in [Peer -> Turns]
  BY DEF DriverType, Turns, Final
<1>2. EvidenceType' /\ AuditType' /\ NetworkType'
  BY DEF EvidenceType, AuditType, NetworkType, Messages, Replies
<1>3. ASSUME NEW r \in Peer PROVE (RoundLink(r) /\ RecordLink(r) /\ PhaseLink(r) /\ CallLink(r))'
  <2>1. RoundLink(r)' /\ RecordLink(r)' /\ PhaseLink(r)'
    BY <1>1 DEF RoundLink, RecordLink, PhaseLink, DriverType, Playing, Sealing, Turns
  <2>2. CallLink(r)'
    BY <1>1, <1>2 DEF CallLink, DriverType, NetworkType, Calling, Suspended, None
  <2> QED
    BY <2>1, <2>2
<1> QED
  BY <1>1, <1>2, <1>3

(* Locking a digest preserves the type invariant.                          *)
LEMMA AcceptCommitmentType == ASSUME TypeInv, NEW p \in Peer, AcceptCommitment(p) PROVE TypeInv'
<1> USE DEF TypeInv, AcceptCommitment, TypeOK
<1> DEFINE q == Other(p)
<1>a. q \in Peer /\ q # p /\ call[p] \in Messages /\ turn[q] \in Turns
  BY PeerFacts DEF NetworkType
<1>b. call[p].digest \in Sealed
  BY <1>a, MessageFacts DEF Receive
<1>c. turn' = [turn EXCEPT ![q] = [turn[q] EXCEPT !.theirs = call[p].digest,
                                  !.phase = "AWAITING_OUR_ACKNOWLEDGEMENT"]]
  BY <1>a
<1> HIDE DEF q
<1>1. DriverType'
  BY DEF DriverType
<1>2. turn' \in [Peer -> Turns]
  <2>1. [turn[q] EXCEPT !.theirs = call[p].digest, !.phase = "AWAITING_OUR_ACKNOWLEDGEMENT"]
          \in Turns
    BY <1>a, <1>b DEF Turns, TurnPhases, MaybeSealed
  <2> QED
    BY <1>c, <2>1
<1>3. EvidenceType'
  BY DEF EvidenceType
<1>4. AuditType'
  BY DEF AuditType
<1>5. NetworkType'
  BY DEF NetworkType, Receive, Answer, Messages, Replies, Ok
<1>6. ASSUME NEW r \in Peer PROVE (RoundLink(r) /\ RecordLink(r) /\ PhaseLink(r) /\ CallLink(r))'
  <2>1. RoundLink(r)'
    BY <1>1, <1>2, <1>a, <1>c DEF RoundLink, DriverType, Playing, Sealing, Turns
  <2>2. RecordLink(r)'
    BY <1>1 DEF RecordLink, DriverType, Playing, Sealing
  <2>3. PhaseLink(r)'
    BY <1>2, <1>a, <1>b, <1>c DEF PhaseLink, Turns, Receive, Admits
  <2>4. CallLink(r)'
    BY <1>1, <1>5 DEF CallLink, DriverType, NetworkType, Calling, None, Receive, Answer, Ok
  <2> QED
    BY <2>1, <2>2, <2>3, <2>4
<1> QED
  BY <1>1, <1>2, <1>3, <1>4, <1>5, <1>6

(* Recording an acknowledgement preserves the type invariant.              *)
LEMMA AcceptAcknowledgementType == ASSUME TypeInv, NEW p \in Peer, AcceptAcknowledgement(p)
   PROVE TypeInv'
<1> USE DEF TypeInv, AcceptAcknowledgement, TypeOK, Receive, Answer, Ok
<1>1. DriverType' /\ turn' \in [Peer -> Turns]
  <2>1. DriverType'
    BY DEF DriverType
  <2>2. turn \in [Peer -> Turns] /\ turn' = [turn EXCEPT ![Other(p)].acked = TRUE]
    OBVIOUS
  <2>3. \A t \in Turns : [t EXCEPT !.acked = TRUE] \in Turns
    BY DEF Turns
  <2> QED
    BY <2>1, <2>2, <2>3
<1>2. EvidenceType' /\ AuditType' /\ NetworkType'
  BY DEF EvidenceType, AuditType, NetworkType, Messages, Replies
<1>3. ASSUME NEW r \in Peer PROVE (RoundLink(r) /\ RecordLink(r) /\ PhaseLink(r) /\ CallLink(r))'
  <2>1. RoundLink(r)' /\ RecordLink(r)' /\ PhaseLink(r)'
    BY <1>1 DEF RoundLink, RecordLink, PhaseLink, DriverType, Playing, Sealing, Turns
  <2>2. CallLink(r)'
    BY <1>1, <1>2 DEF CallLink, DriverType, NetworkType, Calling, Suspended, None
  <2> QED
    BY <2>1, <2>2
<1> QED
  BY <1>1, <1>2, <1>3

(* Consuming a reveal preserves the type invariant: the barrier adopted is *)
(* on the board, the witness is complete, and the answer is an outcome.    *)
LEMMA AcceptRevealType == ASSUME TypeInv, NEW p \in Peer, AcceptReveal(p) PROVE TypeInv'
<1> USE DEF TypeInv, AcceptReveal, TypeOK
<1> DEFINE q == Other(p)
<1>a. q \in Peer /\ q # p /\ call[p] \in Messages /\ turn[q] \in Turns
  BY PeerFacts DEF NetworkType
<1> DEFINE m == call[p]
<1> DEFINE accepted == Acceptable(turn[q].live, m.action)
<1> DEFINE caught == Caught(turn[q].live, m.action, AnswerCell(q))
<1> DEFINE live == IF accepted THEN turn[q].live \cup Placed(m.action) ELSE turn[q].live
<1> DEFINE seen == [digest |-> turn[q].theirs, action |-> m.action, accepted |-> accepted,
                    row |-> [caught |-> caught, scent |-> m.scent]]
<1> DEFINE outcome == [kind |-> "ok", accepted |-> accepted, caught |-> caught]
<1>b. m.action \in Action /\ m.scent \in Scent /\ turn[q].theirs \in Sealed
      /\ m.kind = "reveal" /\ turn[q].phase = "AWAITING_REVEAL"
  BY <1>a, MessageFacts DEF Receive, Admits, PhaseLink
<1>c. accepted \in BOOLEAN /\ caught \in BOOLEAN
  BY DEF Acceptable, Caught
<1>d. seen \in Witness /\ outcome \in Outcome
  BY <1>b, <1>c DEF Witness, Row, Outcome
<1>e. live \in SUBSET Cells
  BY <1>a, <1>b, TurnFacts DEF Action, Placed
<1>f. turn' = [turn EXCEPT ![q] = [turn[q] EXCEPT !.live = live, !.seen = seen,
                                  !.phase = "CONSUMED"]]
      /\ call' = [call EXCEPT ![p] = None] /\ reply' = [reply EXCEPT ![p] = outcome]
      /\ UNCHANGED <<driver, evidence, audit, causes>>
  BY <1>a DEF Answer
<1>g. outcome \in Replies /\ outcome # None
  BY <1>d, OutcomeFacts
<1>h. pc[p] \in Calling
  BY <1>b DEF CallLink, None
<1> HIDE DEF q, m, accepted, caught, live, seen, outcome, AcceptReveal
<1>1. DriverType'
  BY <1>f DEF DriverType
<1>2. turn' \in [Peer -> Turns]
  <2>1. [turn[q] EXCEPT !.live = live, !.seen = seen, !.phase = "CONSUMED"] \in Turns
    BY <1>a, <1>d, <1>e DEF Turns, TurnPhases
  <2> QED
    BY <1>f, <2>1
<1>3. EvidenceType'
  BY <1>f DEF EvidenceType
<1>4. AuditType'
  BY <1>f DEF AuditType
<1>5. NetworkType'
  <2>1. None \in Messages
    BY DEF Messages
  <2> QED
    BY <2>1, <1>f, <1>g DEF NetworkType
<1>6. ASSUME NEW r \in Peer PROVE (RoundLink(r) /\ RecordLink(r) /\ PhaseLink(r) /\ CallLink(r))'
  <2>1. RoundLink(r)'
    BY <1>1, <1>2, <1>a, <1>f DEF RoundLink, DriverType, Playing, Sealing, Turns
  <2>2. RecordLink(r)'
    BY <1>f DEF RecordLink
  <2>3. PhaseLink(r)'
    BY <1>2, <1>a, <1>b, <1>d, <1>f DEF PhaseLink, Turns
  <2>4. CallLink(r)'
    BY <1>a, <1>d, <1>f, <1>g, <1>h DEF CallLink, NetworkType
  <2> QED
    BY <2>1, <2>2, <2>3, <2>4
<1> QED
  BY <1>1, <1>2, <1>3, <1>4, <1>5, <1>6

(* Taking the nonces preserves the type invariant.                         *)
LEMMA AcceptNoncesType == ASSUME TypeInv, NEW p \in Peer, AcceptNonces(p) PROVE TypeInv'
<1> USE DEF TypeInv, AcceptNonces, TypeOK, Receive, Answer, Ok
<1>1. DriverType' /\ turn' \in [Peer -> Turns]
  BY DEF DriverType, Turns
<1>2. EvidenceType' /\ AuditType' /\ NetworkType'
  BY DEF EvidenceType, AuditType, NetworkType, Messages, Replies
<1>3. ASSUME NEW r \in Peer PROVE (RoundLink(r) /\ RecordLink(r) /\ PhaseLink(r) /\ CallLink(r))'
  <2>1. RoundLink(r)' /\ RecordLink(r)' /\ PhaseLink(r)'
    BY <1>1 DEF RoundLink, RecordLink, PhaseLink, DriverType, Playing, Sealing, Turns
  <2>2. CallLink(r)'
    BY <1>1, <1>2 DEF CallLink, DriverType, NetworkType, Calling, Suspended, None
  <2> QED
    BY <2>1, <2>2
<1> QED
  BY <1>1, <1>2, <1>3

(* Taking the disclosure preserves the type invariant.                     *)
LEMMA AcceptDisclosureType == ASSUME TypeInv, NEW p \in Peer, AcceptDisclosure(p) PROVE TypeInv'
<1> USE DEF TypeInv, AcceptDisclosure, TypeOK
<1> DEFINE q == Other(p)
<1>a. q \in Peer /\ q # p /\ call[p] \in Messages /\ turn[q] \in Turns
  BY PeerFacts DEF NetworkType
<1>b. call[p].log \in Seq(Sealed)
  BY <1>a, MessageFacts DEF Receive
<1>1. DriverType'
  BY DEF DriverType
<1>2. turn' \in [Peer -> Turns]
  BY DEF Turns, Receive, Answer, Admits, TurnPhases, MaybeSealed
<1>3. EvidenceType'
  BY DEF EvidenceType
<1>4. AuditType'
  BY <1>a, <1>b DEF AuditType
<1>5. NetworkType'
  BY DEF NetworkType, Receive, Answer, Messages, Replies, Ok
<1>6. ASSUME NEW r \in Peer PROVE (RoundLink(r) /\ RecordLink(r) /\ PhaseLink(r) /\ CallLink(r))'
  <2>1. RoundLink(r)'
    BY <1>1, <1>2 DEF RoundLink, DriverType, Playing, Sealing, Turns, Receive, Answer
  <2>2. RecordLink(r)'
    BY <1>1 DEF RecordLink, DriverType, Playing, Sealing
  <2>3. PhaseLink(r)'
    BY <1>2 DEF PhaseLink, Turns, Receive, Answer
  <2>4. CallLink(r)'
    BY <1>1, <1>5 DEF CallLink, DriverType, NetworkType, Calling, None, Receive, Answer, Ok
  <2> QED
    BY <2>1, <2>2, <2>3, <2>4
<1> QED
  BY <1>1, <1>2, <1>3, <1>4, <1>5, <1>6

(* Refusing a request preserves the type invariant.                        *)
LEMMA RefuseType == ASSUME TypeInv, NEW p \in Peer, Refuse(p) PROVE TypeInv'
<1> USE DEF TypeInv, Refuse, TypeOK
<1>1. DriverType' /\ turn' \in [Peer -> Turns]
  BY DEF DriverType, Turns, Final
<1>2. EvidenceType' /\ AuditType' /\ NetworkType'
  BY DEF EvidenceType, AuditType, NetworkType, Messages, Replies, Answer
<1>3. ASSUME NEW r \in Peer PROVE (RoundLink(r) /\ RecordLink(r) /\ PhaseLink(r) /\ CallLink(r))'
  <2>1. RoundLink(r)' /\ RecordLink(r)' /\ PhaseLink(r)'
    BY <1>1 DEF RoundLink, RecordLink, PhaseLink, DriverType, Playing, Sealing, Turns
  <2>2. CallLink(r)'
    BY <1>1, <1>2 DEF CallLink, DriverType, NetworkType, Calling, Suspended, None, Answer
  <2> QED
    BY <2>1, <2>2
<1> QED
  BY <1>1, <1>2, <1>3

(* Losing a request preserves the type invariant.                          *)
LEMMA LoseCallType == ASSUME TypeInv, NEW p \in Peer, LoseCall(p) PROVE TypeInv'
<1> USE DEF TypeInv, LoseCall, TypeOK
<1>1. DriverType' /\ turn' \in [Peer -> Turns]
  BY DEF DriverType, Turns, Final
<1>2. EvidenceType' /\ AuditType' /\ NetworkType'
  BY DEF EvidenceType, AuditType, NetworkType, Messages, Replies, Answer, Blame
<1>3. ASSUME NEW r \in Peer PROVE (RoundLink(r) /\ RecordLink(r) /\ PhaseLink(r) /\ CallLink(r))'
  <2>1. RoundLink(r)' /\ RecordLink(r)' /\ PhaseLink(r)'
    BY <1>1 DEF RoundLink, RecordLink, PhaseLink, DriverType, Playing, Sealing, Turns
  <2>2. CallLink(r)'
    BY <1>1, <1>2 DEF CallLink, DriverType, NetworkType, Calling, Suspended, None, Answer, Blame
  <2> QED
    BY <2>1, <2>2
<1> QED
  BY <1>1, <1>2, <1>3

(* Losing an answer preserves the type invariant.                          *)
LEMMA LoseReplyType == ASSUME TypeInv, NEW p \in Peer, LoseReply(p) PROVE TypeInv'
<1> USE DEF TypeInv, LoseReply, TypeOK
<1>1. DriverType' /\ turn' \in [Peer -> Turns]
  BY DEF DriverType, Turns, Final
<1>2. EvidenceType' /\ AuditType' /\ NetworkType'
  BY DEF EvidenceType, AuditType, NetworkType, Messages, Replies, Blame
<1>3. ASSUME NEW r \in Peer PROVE (RoundLink(r) /\ RecordLink(r) /\ PhaseLink(r) /\ CallLink(r))'
  <2>1. RoundLink(r)' /\ RecordLink(r)' /\ PhaseLink(r)'
    BY <1>1 DEF RoundLink, RecordLink, PhaseLink, DriverType, Playing, Sealing, Turns
  <2>2. CallLink(r)'
    BY <1>1, <1>2 DEF CallLink, DriverType, NetworkType, Calling, Suspended, None, Blame
  <2> QED
    BY <2>1, <2>2
<1> QED
  BY <1>1, <1>2, <1>3

(* A deadline preserves the type invariant.                                *)
LEMMA TimeoutType == ASSUME TypeInv, NEW p \in Peer, Timeout(p) PROVE TypeInv'
<1> USE DEF TypeInv, Timeout, TypeOK
<1>1. DriverType' /\ turn' \in [Peer -> Turns]
  BY DEF DriverType, Turns, Final
<1>2. EvidenceType' /\ AuditType' /\ NetworkType'
  BY DEF EvidenceType, AuditType, NetworkType, Messages, Replies
<1>3. ASSUME NEW r \in Peer PROVE (RoundLink(r) /\ RecordLink(r) /\ PhaseLink(r) /\ CallLink(r))'
  <2>1. RoundLink(r)' /\ RecordLink(r)' /\ PhaseLink(r)'
    BY <1>1 DEF RoundLink, RecordLink, PhaseLink, DriverType, Playing, Sealing, Turns
  <2>2. CallLink(r)'
    BY <1>1, <1>2 DEF CallLink, DriverType, NetworkType, Calling, Suspended, None
  <2> QED
    BY <2>1, <2>2
<1> QED
  BY <1>1, <1>2, <1>3

(* A crash preserves the type invariant.                                   *)
LEMMA CrashType == ASSUME TypeInv, NEW p \in Peer, Crash(p) PROVE TypeInv'
<1> USE DEF TypeInv, Crash, TypeOK
<1>1. DriverType' /\ turn' \in [Peer -> Turns]
  BY DEF DriverType, Turns, Final
<1>2. EvidenceType' /\ AuditType' /\ NetworkType'
  BY DEF EvidenceType, AuditType, NetworkType, Messages, Replies
<1>3. ASSUME NEW r \in Peer PROVE (RoundLink(r) /\ RecordLink(r) /\ PhaseLink(r) /\ CallLink(r))'
  <2>1. RoundLink(r)' /\ RecordLink(r)' /\ PhaseLink(r)'
    BY <1>1 DEF RoundLink, RecordLink, PhaseLink, DriverType, Playing, Sealing, Turns
  <2>2. CallLink(r)'
    BY <1>1, <1>2 DEF CallLink, DriverType, NetworkType, Calling, Suspended, None
  <2> QED
    BY <2>1, <2>2
<1> QED
  BY <1>1, <1>2, <1>3

(* A stuttering step preserves the type invariant.                         *)
LEMMA TypeStutter == ASSUME TypeInv, UNCHANGED vars PROVE TypeInv'
  BY DEF TypeInv, TypeOK, DriverType, EvidenceType, AuditType, NetworkType, RoundLink, RecordLink,
     PhaseLink, CallLink

(* The strengthened type invariant is inductive.                           *)
LEMMA TypeNext == TypeInv /\ [Next]_vars => TypeInv'
<1> SUFFICES ASSUME TypeInv, [Next]_vars PROVE TypeInv'
  OBVIOUS
<1>1. CASE UNCHANGED vars
  BY <1>1, TypeStutter
<1>2. ASSUME NEW p \in Peer, Drive(p) PROVE TypeInv'
  BY <1>2, LaunchType, SendCommitmentType, CorneredType, SendAcknowledgementType,
     SendRevealType, AnsweredType, RefusedType, AdoptType, SendNoncesType, SendDisclosureType,
        CloseType DEF Drive
<1>3. ASSUME NEW p \in Peer, Serve(p) PROVE TypeInv'
  BY <1>3, AcceptCommitmentType, AcceptAcknowledgementType, AcceptRevealType, AcceptNoncesType,
     AcceptDisclosureType, RefuseType DEF Serve
<1>4. ASSUME NEW p \in Peer, Fault(p) PROVE TypeInv'
  BY <1>4, LoseCallType, LoseReplyType, TimeoutType, CrashType DEF Fault
<1>5. CASE Finished
  BY <1>5, TypeStutter DEF Finished
<1> QED
  BY <1>1, <1>2, <1>3, <1>4, <1>5 DEF Next

(* Every reachable state is well typed, on every board and threshold. *)
THEOREM TypeCorrect == Spec => []TypeOK
<1>1. Init => TypeInv
  BY TypeInit
<1>2. TypeInv /\ [Next]_vars => TypeInv'
  BY TypeNext
<1>3. TypeInv => TypeOK
  BY DEF TypeInv
<1> QED
  BY <1>1, <1>2, <1>3, PTL DEF Spec

-----------------------------------------------------------------------------
(* The fair exchange. FairExchange is not inductive: that a reveal in      *)
(* flight finds its receiver sealed, and its sender holding that seal,     *)
(* follows from what each earlier message of the round left behind on both *)
(* sides. The links below follow one digest along the round: sealed and    *)
(* registered, in flight, held by the peer, acknowledged, and finally      *)
(* witnessed.                                                              *)

(* The record of the bound round is sealed and registered, or neither.     *)
SealLink(p) ==
  IF turn[p].ours = None
  THEN Len(sealed[p]) = IF turn[p].cursor = 0 THEN 0 ELSE turn[p].cursor - 1
  ELSE /\ turn[p].cursor \in Rounds
       /\ Len(sealed[p]) = turn[p].cursor
       /\ sealed[p][turn[p].cursor] = turn[p].ours

(* One witness per round adopted, and it carries the digest held.          *)
WitnessLink(p) ==
  /\ pc[p] = "idle" => turn[p].cursor = 0
  /\ pc[p] \in {"idle"} \cup Playing => Len(witnessed[p]) = step[p]
  /\ turn[p].phase \in {"UNBOUND", "AWAITING_COMMITMENT"} => turn[p].theirs = None
  /\ turn[p].seen # None => turn[p].seen.digest = turn[p].theirs

(* What a round's request in flight restates of its sender's runtime.      *)
FlightLink(p) ==
  /\ call[p].kind = "commitment" => /\ pc[p] = "commitSent"
                                    /\ call[p].cursor = turn[p].cursor
                                    /\ call[p].digest = turn[p].ours
  /\ call[p].kind = "acknowledgement" => /\ pc[p] = "ackSent"
                                         /\ call[p].cursor = turn[p].cursor
                                         /\ call[p].digest = turn[p].theirs
  /\ call[p].kind = "reveal" => pc[p] = "revealSent" /\ call[p].cursor = turn[p].cursor

(* The milestones a driver has passed are recorded in its runtime.         *)
MilestoneLink(p) ==
  /\ pc[p] \in {"ackSent", "awaitAck", "revealSent", "awaitReveal"} => turn[p].theirs # None
  /\ pc[p] \in {"revealSent", "awaitReveal"} => turn[p].acked

(* The digest p holds is the one its peer sealed for that very round.      *)
TheirsLink(p) ==
  turn[p].theirs # None => /\ turn[p].cursor \in 1 .. Len(sealed[Other(p)])
                           /\ sealed[Other(p)][turn[p].cursor] = turn[p].theirs

(* An acknowledged peer knows its digest is held.                          *)
AckLink(p) ==
  turn[p].acked => /\ turn[p].ours # None
                   /\ HoldsDigest(Other(p), turn[p].cursor, turn[p].ours)

(* The reveal of round k has left p for good.                              *)
Revealed(p, k) ==
  \/ turn[p].cursor > k
  \/ /\ turn[p].cursor = k
     /\ pc[p] \notin {"idle", "commit", "commitSent", "awaitCommit", "ackSent", "awaitAck"}
     /\ call[p].kind # "reveal"

RevealLink(p) ==
  /\ turn[Other(p)].seen # None => Revealed(p, turn[Other(p)].cursor)
  /\ \A k \in 1 .. Len(witnessed[Other(p)]) : Revealed(p, k)

(* Whoever has seen a reveal was sealed before it, and its peer knows.     *)
SeenLink(p) ==
  turn[p].seen # None => /\ turn[p].cursor \in Rounds
                         /\ Len(sealed[p]) = turn[p].cursor
                         /\ HoldsDigest(Other(p), turn[p].cursor, sealed[p][turn[p].cursor])

FairInv ==
  /\ TypeInv
  /\ \A p \in Peer : /\ SealLink(p) /\ WitnessLink(p) /\ FlightLink(p) /\ MilestoneLink(p)
                     /\ TheirsLink(p) /\ AckLink(p) /\ RevealLink(p) /\ SeenLink(p)

(* A step that leaves the rounds alone: no milestone moves, no message of  *)
(* a round is sent, and a driver that moves only passes its own answered   *)
(* request or leaves play.                                                 *)
QuietTurn(r) ==
  /\ turn'[r].cursor = turn[r].cursor /\ turn'[r].phase = turn[r].phase
  /\ turn'[r].theirs = turn[r].theirs /\ turn'[r].ours = turn[r].ours
  /\ turn'[r].acked = turn[r].acked /\ turn'[r].seen = turn[r].seen

QuietCall(r) ==
  call'[r] = call[r] \/ call'[r].kind \notin {"commitment", "acknowledgement", "reveal"}

QuietDriver(r) ==
  \/ pc'[r] = pc[r]
  \/ /\ call'[r].kind \notin {"commitment", "acknowledgement", "reveal"}
     /\ \/ pc'[r] \notin {"idle"} \cup Playing
        \/ pc[r] = "commitSent" /\ pc'[r] = "awaitCommit"
        \/ pc[r] = "ackSent" /\ pc'[r] = "awaitAck"
        \/ pc[r] = "revealSent" /\ pc'[r] = "awaitReveal"

-----------------------------------------------------------------------------
(* TypeInv gives the sequences and runtimes their types.                   *)
LEMMA TypedFacts ==
  ASSUME TypeInv
  PROVE  /\ turn \in [Peer -> Turns] /\ call \in [Peer -> Messages] /\ DriverType
         /\ sealed \in [Peer -> Seq(Sealed)] /\ witnessed \in [Peer -> Seq(Witness)]
         /\ \A r \in Peer :
              /\ sealed[r] \in Seq(Sealed) /\ Len(sealed[r]) \in Nat /\ step[r] \in Nat
              /\ witnessed[r] \in Seq(Witness) /\ Len(witnessed[r]) \in Nat
              /\ turn[r].cursor \in Nat /\ turn[r].theirs \in Sealed \cup {None}
              /\ turn[r].ours \in Sealed \cup {None} /\ turn[r].seen \in Witness \cup {None}
<1>1. /\ turn \in [Peer -> Turns] /\ call \in [Peer -> Messages] /\ DriverType
      /\ sealed \in [Peer -> Seq(Sealed)] /\ witnessed \in [Peer -> Seq(Witness)]
      /\ step \in [Peer -> Steps]
  BY DEF TypeInv, TypeOK, EvidenceType, AuditType, NetworkType, DriverType
<1> QED
  BY <1>1, TurnFacts DEF Steps, MaybeSealed

(* Other is an involution on the two peers.                                *)
LEMMA PairFacts ==
  ASSUME NEW p \in Peer
  PROVE  /\ Other(p) \in Peer /\ Other(p) # p /\ Other(Other(p)) = p
         /\ \A r \in Peer : r = p \/ r = Other(p)
  BY PeerFacts

(* The empty slot is neither a record nor a witness.                       *)
LEMMA NoneFacts ==
  /\ None \notin Sealed /\ None \notin Witness
  /\ None.kind = "none"
  BY DEF None, Sealed, Witness

(* A quiet step preserves the exchange invariant.                          *)
LEMMA QuietFair ==
  ASSUME FairInv, TypeInv', UNCHANGED <<sealed, witnessed, step>>,
         \A r \in Peer : QuietTurn(r) /\ QuietCall(r) /\ QuietDriver(r)
  PROVE  FairInv'
<1> USE DEF QuietTurn, QuietCall, QuietDriver
<1> USE DEF FairInv
<1>1. ASSUME NEW r \in Peer PROVE SealLink(r)'
  BY DEF SealLink
<1>2. ASSUME NEW r \in Peer PROVE WitnessLink(r)'
  BY DEF WitnessLink, Playing
<1>3. ASSUME NEW r \in Peer PROVE FlightLink(r)'
  BY DEF FlightLink
<1>4. ASSUME NEW r \in Peer PROVE MilestoneLink(r)'
  BY DEF MilestoneLink, Playing
<1>5. ASSUME NEW r \in Peer PROVE TheirsLink(r)'
  BY PeerFacts DEF TheirsLink
<1>6. ASSUME NEW r \in Peer PROVE AckLink(r)'
  BY PeerFacts DEF AckLink, HoldsDigest
<1>7. ASSUME NEW r \in Peer PROVE RevealLink(r)'
  <2>1. ASSUME NEW k \in Nat, Revealed(r, k) PROVE Revealed(r, k)'
    BY <2>1 DEF Revealed, Playing
  <2>2. turn[Other(r)].seen # None => turn[Other(r)].cursor \in Nat
    BY TypedFacts, PeerFacts
  <2> QED
    BY <2>1, <2>2, PeerFacts, TypedFacts DEF RevealLink
<1>8. ASSUME NEW r \in Peer PROVE SeenLink(r)'
  BY PeerFacts DEF SeenLink, HoldsDigest
<1> QED
  BY <1>1, <1>2, <1>3, <1>4, <1>5, <1>6, <1>7, <1>8

(* A strategy that refuses to choose leaves the exchange alone.            *)
LEMMA CorneredFair == ASSUME FairInv, NEW p \in Peer, Cornered(p) PROVE FairInv'
<1>1. TypeInv' /\ UNCHANGED <<sealed, witnessed, step>>
  BY CorneredType DEF FairInv, Cornered
<1>2. ASSUME NEW r \in Peer PROVE QuietTurn(r)
  BY TypedFacts DEF Cornered, FairInv, Turns, QuietTurn
<1>3. ASSUME NEW r \in Peer PROVE QuietCall(r)
  BY NoneFacts DEF Cornered, FairInv, TypeInv, TypeOK, NetworkType, Send, Answer, QuietCall
<1>4. ASSUME NEW r \in Peer PROVE QuietDriver(r)
  BY NoneFacts DEF Cornered, FairInv, TypeInv, TypeOK, DriverType, NetworkType, CallLink, Send,
     None, Answer, Playing, Calling, Suspended, AfterCall, QuietDriver
<1> QED
  BY <1>1, <1>2, <1>3, <1>4, QuietFair

(* Taking an answer leaves the exchange alone: the milestone it waits for  *)
(* next is the peer's to record.                                           *)
LEMMA AnsweredFair == ASSUME FairInv, NEW p \in Peer, Answered(p) PROVE FairInv'
<1>1. TypeInv' /\ UNCHANGED <<sealed, witnessed, step>>
  BY AnsweredType DEF FairInv, Answered
<1>2. ASSUME NEW r \in Peer PROVE QuietTurn(r)
  <2>1. turn \in [Peer -> Turns]
    BY DEF FairInv, TypeInv, TypeOK
  <2>2. turn' = turn \/ turn' = [turn EXCEPT ![p].answered = reply[p]]
    BY DEF Answered
  <2> QED
    BY <2>1, <2>2 DEF Turns, QuietTurn
<1>3. ASSUME NEW r \in Peer PROVE QuietCall(r)
  BY NoneFacts DEF Answered, FairInv, TypeInv, TypeOK, NetworkType, Send, Answer, QuietCall
<1>4. ASSUME NEW r \in Peer PROVE QuietDriver(r)
  BY NoneFacts DEF Answered, FairInv, TypeInv, TypeOK, DriverType, NetworkType, CallLink, Send,
     None, Answer, Playing, Calling, Suspended, AfterCall, QuietDriver
<1> QED
  BY <1>1, <1>2, <1>3, <1>4, QuietFair

(* A refused request leaves the exchange alone.                            *)
LEMMA RefusedFair == ASSUME FairInv, NEW p \in Peer, Refused(p) PROVE FairInv'
<1>1. TypeInv' /\ UNCHANGED <<sealed, witnessed, step>>
  BY RefusedType DEF FairInv, Refused
<1>2. ASSUME NEW r \in Peer PROVE QuietTurn(r)
  BY TypedFacts DEF Refused, FairInv, Turns, QuietTurn
<1>3. ASSUME NEW r \in Peer PROVE QuietCall(r)
  BY NoneFacts DEF Refused, FairInv, TypeInv, TypeOK, NetworkType, Send, Answer, QuietCall
<1>4. ASSUME NEW r \in Peer PROVE QuietDriver(r)
  BY NoneFacts DEF Refused, FairInv, TypeInv, TypeOK, DriverType, NetworkType, CallLink, Send,
     None, Answer, Playing, Calling, Suspended, AfterCall, QuietDriver
<1> QED
  BY <1>1, <1>2, <1>3, <1>4, QuietFair

(* Disclosing the nonces leaves the exchange alone.                        *)
LEMMA SendNoncesFair == ASSUME FairInv, NEW p \in Peer, SendNonces(p) PROVE FairInv'
<1>1. TypeInv' /\ UNCHANGED <<sealed, witnessed, step>>
  BY SendNoncesType DEF FairInv, SendNonces
<1>2. ASSUME NEW r \in Peer PROVE QuietTurn(r)
  BY TypedFacts DEF SendNonces, FairInv, Turns, QuietTurn
<1>3. ASSUME NEW r \in Peer PROVE QuietCall(r)
  BY NoneFacts DEF SendNonces, FairInv, TypeInv, TypeOK, NetworkType, Send, Answer, QuietCall
<1>4. ASSUME NEW r \in Peer PROVE QuietDriver(r)
  BY NoneFacts DEF SendNonces, FairInv, TypeInv, TypeOK, DriverType, NetworkType, CallLink,
     Send, None, Answer, Playing, Calling, Suspended, AfterCall, QuietDriver
<1> QED
  BY <1>1, <1>2, <1>3, <1>4, QuietFair

(* Disclosing the log leaves the exchange alone.                           *)
LEMMA SendDisclosureFair == ASSUME FairInv, NEW p \in Peer, SendDisclosure(p) PROVE FairInv'
<1>1. TypeInv' /\ UNCHANGED <<sealed, witnessed, step>>
  BY SendDisclosureType DEF FairInv, SendDisclosure
<1>2. ASSUME NEW r \in Peer PROVE QuietTurn(r)
  BY TypedFacts DEF SendDisclosure, FairInv, Turns, QuietTurn
<1>3. ASSUME NEW r \in Peer PROVE QuietCall(r)
  BY NoneFacts DEF SendDisclosure, FairInv, TypeInv, TypeOK, NetworkType, Send, Answer, QuietCall
<1>4. ASSUME NEW r \in Peer PROVE QuietDriver(r)
  BY NoneFacts DEF SendDisclosure, FairInv, TypeInv, TypeOK, DriverType, NetworkType, CallLink,
     Send, None, Answer, Playing, Calling, Suspended, AfterCall, QuietDriver
<1> QED
  BY <1>1, <1>2, <1>3, <1>4, QuietFair

(* Closing the sub-game leaves the exchange alone.                         *)
LEMMA CloseFair == ASSUME FairInv, NEW p \in Peer, Close(p) PROVE FairInv'
<1>1. TypeInv' /\ UNCHANGED <<sealed, witnessed, step>>
  BY CloseType DEF FairInv, Close
<1>2. ASSUME NEW r \in Peer PROVE QuietTurn(r)
  BY TypedFacts DEF Close, FairInv, Turns, QuietTurn
<1>3. ASSUME NEW r \in Peer PROVE QuietCall(r)
  BY NoneFacts DEF Close, FairInv, TypeInv, TypeOK, NetworkType, Send, Answer, QuietCall
<1>4. ASSUME NEW r \in Peer PROVE QuietDriver(r)
  BY NoneFacts DEF Close, FairInv, TypeInv, TypeOK, DriverType, NetworkType, CallLink, Send,
     None, Answer, Playing, Calling, Suspended, AfterCall, QuietDriver
<1> QED
  BY <1>1, <1>2, <1>3, <1>4, QuietFair

(* Taking the nonces leaves the exchange alone.                            *)
LEMMA AcceptNoncesFair == ASSUME FairInv, NEW p \in Peer, AcceptNonces(p) PROVE FairInv'
<1>1. TypeInv' /\ UNCHANGED <<sealed, witnessed, step>>
  BY AcceptNoncesType DEF FairInv, AcceptNonces
<1>2. ASSUME NEW r \in Peer PROVE QuietTurn(r)
  BY TypedFacts DEF AcceptNonces, FairInv, Turns, QuietTurn
<1>3. ASSUME NEW r \in Peer PROVE QuietCall(r)
  BY NoneFacts DEF AcceptNonces, FairInv, TypeInv, TypeOK, NetworkType, Send, Answer, QuietCall
<1>4. ASSUME NEW r \in Peer PROVE QuietDriver(r)
  BY NoneFacts DEF AcceptNonces, FairInv, TypeInv, TypeOK, DriverType, NetworkType, CallLink,
     Send, None, Answer, Playing, Calling, Suspended, AfterCall, QuietDriver
<1> QED
  BY <1>1, <1>2, <1>3, <1>4, QuietFair

(* Taking the disclosure leaves the exchange alone.                        *)
LEMMA AcceptDisclosureFair == ASSUME FairInv, NEW p \in Peer, AcceptDisclosure(p) PROVE FairInv'
<1>1. TypeInv' /\ UNCHANGED <<sealed, witnessed, step>>
  BY AcceptDisclosureType DEF FairInv, AcceptDisclosure
<1>2. ASSUME NEW r \in Peer PROVE QuietTurn(r)
  BY TypedFacts DEF AcceptDisclosure, FairInv, Turns, QuietTurn
<1>3. ASSUME NEW r \in Peer PROVE QuietCall(r)
  BY NoneFacts DEF AcceptDisclosure, FairInv, TypeInv, TypeOK, NetworkType, Send, Answer,
     QuietCall
<1>4. ASSUME NEW r \in Peer PROVE QuietDriver(r)
  BY NoneFacts DEF AcceptDisclosure, FairInv, TypeInv, TypeOK, DriverType, NetworkType,
     CallLink, Send, None, Answer, Playing, Calling, Suspended, AfterCall, QuietDriver
<1> QED
  BY <1>1, <1>2, <1>3, <1>4, QuietFair

(* Refusing a request leaves the exchange alone.                           *)
LEMMA RefuseFair == ASSUME FairInv, NEW p \in Peer, Refuse(p) PROVE FairInv'
<1>1. TypeInv' /\ UNCHANGED <<sealed, witnessed, step>>
  BY RefuseType DEF FairInv, Refuse
<1>2. ASSUME NEW r \in Peer PROVE QuietTurn(r)
  BY TypedFacts DEF Refuse, FairInv, Turns, QuietTurn
<1>3. ASSUME NEW r \in Peer PROVE QuietCall(r)
  BY NoneFacts DEF Refuse, FairInv, TypeInv, TypeOK, NetworkType, Send, Answer, QuietCall
<1>4. ASSUME NEW r \in Peer PROVE QuietDriver(r)
  BY NoneFacts DEF Refuse, FairInv, TypeInv, TypeOK, DriverType, NetworkType, CallLink, Send,
     None, Answer, Playing, Calling, Suspended, AfterCall, QuietDriver
<1> QED
  BY <1>1, <1>2, <1>3, <1>4, QuietFair

(* Losing a request leaves the exchange alone.                             *)
LEMMA LoseCallFair == ASSUME FairInv, NEW p \in Peer, LoseCall(p) PROVE FairInv'
<1>1. TypeInv' /\ UNCHANGED <<sealed, witnessed, step>>
  BY LoseCallType DEF FairInv, LoseCall
<1>2. ASSUME NEW r \in Peer PROVE QuietTurn(r)
  BY TypedFacts DEF LoseCall, FairInv, Turns, QuietTurn
<1>3. ASSUME NEW r \in Peer PROVE QuietCall(r)
  BY NoneFacts DEF LoseCall, FairInv, TypeInv, TypeOK, NetworkType, Send, Answer, QuietCall
<1>4. ASSUME NEW r \in Peer PROVE QuietDriver(r)
  BY NoneFacts DEF LoseCall, FairInv, TypeInv, TypeOK, DriverType, NetworkType, CallLink, Send,
     None, Answer, Playing, Calling, Suspended, AfterCall, QuietDriver
<1> QED
  BY <1>1, <1>2, <1>3, <1>4, QuietFair

(* Losing an answer leaves the exchange alone.                             *)
LEMMA LoseReplyFair == ASSUME FairInv, NEW p \in Peer, LoseReply(p) PROVE FairInv'
<1>1. TypeInv' /\ UNCHANGED <<sealed, witnessed, step>>
  BY LoseReplyType DEF FairInv, LoseReply
<1>2. ASSUME NEW r \in Peer PROVE QuietTurn(r)
  BY TypedFacts DEF LoseReply, FairInv, Turns, QuietTurn
<1>3. ASSUME NEW r \in Peer PROVE QuietCall(r)
  BY NoneFacts DEF LoseReply, FairInv, TypeInv, TypeOK, NetworkType, Send, Answer, QuietCall
<1>4. ASSUME NEW r \in Peer PROVE QuietDriver(r)
  BY NoneFacts DEF LoseReply, FairInv, TypeInv, TypeOK, DriverType, NetworkType, CallLink, Send,
     None, Answer, Playing, Calling, Suspended, AfterCall, QuietDriver
<1> QED
  BY <1>1, <1>2, <1>3, <1>4, QuietFair

(* A deadline leaves the exchange alone.                                   *)
LEMMA TimeoutFair == ASSUME FairInv, NEW p \in Peer, Timeout(p) PROVE FairInv'
<1>1. TypeInv' /\ UNCHANGED <<sealed, witnessed, step>>
  BY TimeoutType DEF FairInv, Timeout
<1>2. ASSUME NEW r \in Peer PROVE QuietTurn(r)
  BY TypedFacts DEF Timeout, FairInv, Turns, QuietTurn
<1>3. ASSUME NEW r \in Peer PROVE QuietCall(r)
  BY NoneFacts DEF Timeout, FairInv, TypeInv, TypeOK, NetworkType, Send, Answer, QuietCall
<1>4. ASSUME NEW r \in Peer PROVE QuietDriver(r)
  BY NoneFacts DEF Timeout, FairInv, TypeInv, TypeOK, DriverType, NetworkType, CallLink, Send,
     None, Answer, Playing, Calling, Suspended, AfterCall, QuietDriver
<1> QED
  BY <1>1, <1>2, <1>3, <1>4, QuietFair

(* A crash leaves the exchange alone.                                      *)
LEMMA CrashFair == ASSUME FairInv, NEW p \in Peer, Crash(p) PROVE FairInv'
<1>1. TypeInv' /\ UNCHANGED <<sealed, witnessed, step>>
  BY CrashType DEF FairInv, Crash
<1>2. ASSUME NEW r \in Peer PROVE QuietTurn(r)
  BY TypedFacts DEF Crash, FairInv, Turns, QuietTurn
<1>3. ASSUME NEW r \in Peer PROVE QuietCall(r)
  BY NoneFacts DEF Crash, FairInv, TypeInv, TypeOK, NetworkType, Send, Answer, QuietCall
<1>4. ASSUME NEW r \in Peer PROVE QuietDriver(r)
  BY NoneFacts DEF Crash, FairInv, TypeInv, TypeOK, DriverType, NetworkType, CallLink, Send,
     None, Answer, Playing, Calling, Suspended, AfterCall, QuietDriver
<1> QED
  BY <1>1, <1>2, <1>3, <1>4, QuietFair

(* Revealing preserves the exchange: the acknowledgement gate guarantees   *)
(* that the peer holds our digest, the phase that we hold theirs.          *)
LEMMA SendRevealFair == ASSUME FairInv, NEW p \in Peer, SendReveal(p) PROVE FairInv'
<1>0. TypeInv'
  BY SendRevealType DEF FairInv
<1>t. TypeInv
  BY DEF FairInv
<1>a. /\ pc[p] = "awaitAck" /\ turn[p].acked
      /\ call' = [call EXCEPT ![p] = [kind |-> "reveal", cursor |-> turn[p].cursor,
                                      action |-> chosen[p].action, scent |-> chosen[p].scent]]
      /\ pc' = [pc EXCEPT ![p] = "revealSent"]
      /\ UNCHANGED <<turn, sealed, witnessed, step>>
  BY DEF SendReveal, Send
<1>b. /\ turn'[p].cursor = turn[p].cursor
      /\ turn'[p].phase = turn[p].phase
      /\ turn'[p].theirs = turn[p].theirs
      /\ turn'[p].ours = turn[p].ours
      /\ turn'[p].acked = turn[p].acked
      /\ turn'[p].seen = turn[p].seen
      /\ \A r \in Peer : r # p => turn'[r] = turn[r]
  BY <1>a, PairFacts, <1>t, TypedFacts DEF Turns
<1> HIDE DEF SendReveal
<1>h. ASSUME NEW r \in Peer, NEW k \in Rounds, NEW d \in Sealed, HoldsDigest(r, k, d)
      PROVE  HoldsDigest(r, k, d)'
  BY <1>h, <1>a, <1>b, PairFacts, <1>t, TypedFacts, NoneFacts DEF FairInv, HoldsDigest,
     WitnessLink, Rounds
<1>v. ASSUME NEW r \in Peer, NEW k \in Nat \ {0}, Revealed(r, k)
      PROVE  Revealed(r, k)'
  BY <1>v, <1>a, <1>b, PairFacts, <1>t, TypedFacts, NoneFacts DEF FairInv, Revealed,
     WitnessLink, FlightLink, DriverType
<1>1. ASSUME NEW r \in Peer PROVE SealLink(r)'
  BY <1>a, <1>b, PairFacts, <1>t, TypedFacts, NoneFacts DEF FairInv, DriverType, SealLink
<1>2. ASSUME NEW r \in Peer PROVE WitnessLink(r)'
  BY <1>a, <1>b, PairFacts, <1>t, TypedFacts, NoneFacts DEF FairInv, DriverType, WitnessLink,
     Playing
<1>3. ASSUME NEW r \in Peer PROVE FlightLink(r)'
  BY <1>a, <1>b, PairFacts, <1>t, TypedFacts, NoneFacts DEF FairInv, DriverType, FlightLink
<1>4. ASSUME NEW r \in Peer PROVE MilestoneLink(r)'
  BY <1>a, <1>b, PairFacts, <1>t, TypedFacts, NoneFacts DEF FairInv, DriverType, MilestoneLink
<1>5. ASSUME NEW r \in Peer PROVE TheirsLink(r)'
  BY <1>a, <1>b, PairFacts, <1>t, TypedFacts, NoneFacts DEF FairInv, DriverType, TheirsLink
<1>6. ASSUME NEW r \in Peer PROVE AckLink(r)'
  <2>1. turn[r].acked => /\ turn[r].ours \in Sealed /\ turn[r].cursor \in Rounds
                         /\ HoldsDigest(Other(r), turn[r].cursor, turn[r].ours)
    BY <1>t, TypedFacts DEF FairInv, AckLink, SealLink
  <2>2. turn' = turn /\ Other(r) \in Peer
    BY <1>a, PairFacts
  <2> QED
    BY <1>h, <2>1, <2>2, NoneFacts DEF AckLink
<1>7. ASSUME NEW r \in Peer PROVE RevealLink(r)'
  <2>0. /\ turn'[Other(r)].seen = turn[Other(r)].seen
        /\ turn'[Other(r)].cursor = turn[Other(r)].cursor
    BY <1>a, <1>b, PairFacts
  <2>1. turn'[Other(r)].seen # None =>
          /\ turn[Other(r)].seen # None /\ turn[Other(r)].cursor \in Nat \ {0}
          /\ turn'[Other(r)].cursor = turn[Other(r)].cursor
    BY <2>0, PairFacts DEF FairInv, SeenLink, Rounds
  <2>2. Other(r) \in Peer /\ witnessed' = witnessed /\ Len(witnessed[Other(r)]) \in Nat
    BY <1>a, PairFacts, <1>t, TypedFacts
  <2>3. RevealLink(r)
    BY DEF FairInv
  <2> QED
    BY <1>v, <2>1, <2>2, <2>3 DEF RevealLink
<1>8. ASSUME NEW r \in Peer PROVE SeenLink(r)'
  <2>1. turn[r].seen # None => /\ sealed[r][turn[r].cursor] \in Sealed /\ turn[r].cursor \in Rounds
                                /\ Len(sealed[r]) = turn[r].cursor
                                /\ HoldsDigest(Other(r), turn[r].cursor, sealed[r][turn[r].cursor])
    BY <1>t, TypedFacts DEF FairInv, SeenLink, Rounds
  <2>2. turn' = turn /\ sealed' = sealed /\ Other(r) \in Peer
    BY <1>a, PairFacts
  <2> QED
    BY <1>h, <2>1, <2>2 DEF SeenLink
<1> QED
  BY <1>0, <1>1, <1>2, <1>3, <1>4, <1>5, <1>6, <1>7, <1>8 DEF FairInv

(* Opening the sub-game preserves the exchange: nothing is sealed or held  *)
(* for round 1 yet.                                                        *)
LEMMA LaunchFair == ASSUME FairInv, NEW p \in Peer, Launch(p) PROVE FairInv'
<1>0. TypeInv'
  BY LaunchType DEF FairInv
<1>t. TypeInv
  BY DEF FairInv
<1>a. /\ pc[p] = "idle"
      /\ pc' = [pc EXCEPT ![p] = "commit"]
      /\ turn' = [turn EXCEPT ![p] = FreshTurn(0, blocked[p], cell[p])]
      /\ UNCHANGED <<call, sealed, witnessed, step>>
  BY DEF Launch
<1>b. /\ turn'[p].cursor = 1
      /\ turn'[p].phase = "AWAITING_COMMITMENT"
      /\ turn'[p].theirs = None
      /\ turn'[p].ours = None
      /\ turn'[p].acked = FALSE
      /\ turn'[p].seen = None
      /\ \A r \in Peer : r # p => turn'[r] = turn[r]
  BY <1>a, PairFacts, <1>t, TypedFacts DEF Turns, FreshTurn, NewTurn
<1> HIDE DEF Launch
<1>h. ASSUME NEW r \in Peer, NEW k \in Rounds, NEW d \in Sealed, HoldsDigest(r, k, d)
      PROVE  HoldsDigest(r, k, d)'
  BY <1>h, <1>a, <1>b, PairFacts, <1>t, TypedFacts, NoneFacts DEF FairInv, HoldsDigest,
     WitnessLink, Rounds
<1>v. ASSUME NEW r \in Peer, NEW k \in Nat \ {0}, Revealed(r, k)
      PROVE  Revealed(r, k)'
  BY <1>v, <1>a, <1>b, PairFacts, <1>t, TypedFacts, NoneFacts DEF FairInv, Revealed,
     WitnessLink, FlightLink, DriverType
<1>1. ASSUME NEW r \in Peer PROVE SealLink(r)'
  BY <1>a, <1>b, PairFacts, <1>t, TypedFacts, NoneFacts DEF FairInv, DriverType, SealLink,
     RecordLink, RoundLink, TypeInv
<1>2. ASSUME NEW r \in Peer PROVE WitnessLink(r)'
  BY <1>a, <1>b, PairFacts, <1>t, TypedFacts, NoneFacts DEF FairInv, DriverType, WitnessLink,
     Playing
<1>3. ASSUME NEW r \in Peer PROVE FlightLink(r)'
  BY <1>a, <1>b, PairFacts, <1>t, TypedFacts, NoneFacts DEF FairInv, DriverType, FlightLink
<1>4. ASSUME NEW r \in Peer PROVE MilestoneLink(r)'
  BY <1>a, <1>b, PairFacts, <1>t, TypedFacts, NoneFacts DEF FairInv, DriverType, MilestoneLink
<1>5. ASSUME NEW r \in Peer PROVE TheirsLink(r)'
  BY <1>a, <1>b, PairFacts, <1>t, TypedFacts, NoneFacts DEF FairInv, DriverType, TheirsLink
<1>6. ASSUME NEW r \in Peer PROVE AckLink(r)'
  BY <1>a, <1>b, PairFacts, <1>t, TypedFacts, NoneFacts, <1>h DEF FairInv, DriverType, AckLink,
     SealLink
<1>7. ASSUME NEW r \in Peer PROVE RevealLink(r)'
  <2>1. turn'[Other(r)].seen # None =>
          /\ turn[Other(r)].seen # None /\ turn[Other(r)].cursor \in Nat \ {0}
          /\ turn'[Other(r)].cursor = turn[Other(r)].cursor
    BY <1>a, <1>b, PairFacts, <1>t, TypedFacts DEF FairInv, SeenLink, Rounds
  <2>2. Other(r) \in Peer /\ witnessed' = witnessed /\ Len(witnessed[Other(r)]) \in Nat
    BY <1>a, PairFacts, <1>t, TypedFacts
  <2>3. RevealLink(r)
    BY DEF FairInv
  <2> QED
    BY <1>v, <2>1, <2>2, <2>3 DEF RevealLink
<1>8. ASSUME NEW r \in Peer PROVE SeenLink(r)'
  BY <1>a, <1>b, PairFacts, <1>t, TypedFacts, NoneFacts, <1>h DEF FairInv, DriverType, SeenLink,
     SealLink, Rounds
<1> QED
  BY <1>0, <1>1, <1>2, <1>3, <1>4, <1>5, <1>6, <1>7, <1>8 DEF FairInv

(* Committing preserves the exchange: the record is sealed, registered and *)
(* sent for the bound round, and no digest held so far moves.              *)
LEMMA SendCommitmentFair == ASSUME FairInv, NEW p \in Peer, SendCommitment(p) PROVE FairInv'
<1>0. TypeInv'
  BY SendCommitmentType DEF FairInv
<1>t. TypeInv
  BY DEF FairInv
<1>a. PICK record \in Sealed :
        /\ pc[p] = "commit" /\ turn[p].ours = None
        /\ pc' = [pc EXCEPT ![p] = "commitSent"]
        /\ turn' = [turn EXCEPT ![p].ours = record]
        /\ sealed' = [sealed EXCEPT ![p] = Append(@, record)]
        /\ call' = [call EXCEPT ![p] = [kind |-> "commitment", cursor |-> turn[p].cursor,
                                        digest |-> record]]
        /\ UNCHANGED <<witnessed, step>>
  <2>1. PICK a \in Lawful(p, blocked[p], cell[p]) :
          LET record == [step |-> turn[p].cursor, cell |-> cell[p], blocked |-> blocked[p],
                         action |-> a]
          IN /\ sealed' = [sealed EXCEPT ![p] = Append(@, record)]
             /\ turn' = [turn EXCEPT ![p].ours = record]
             /\ Send(p, [kind |-> "commitment", cursor |-> record.step, digest |-> record],
                     "commitSent")
    BY DEF SendCommitment
  <2>2. [step |-> turn[p].cursor, cell |-> cell[p], blocked |-> blocked[p], action |-> a] \in Sealed
    <3>1. pc[p] = "commit"
      BY DEF SendCommitment
    <3>2. turn[p].cursor \in Rounds /\ cell[p] \in Cells /\ blocked[p] \in SUBSET Cells
      BY <3>1, PlayingFacts DEF FairInv, Playing
    <3> QED
      BY <3>2, LawfulFacts DEF Sealed
  <2> QED
    BY <2>1, <2>2 DEF SendCommitment, Send
<1>b. /\ turn'[p].cursor = turn[p].cursor
      /\ turn'[p].phase = turn[p].phase
      /\ turn'[p].theirs = turn[p].theirs
      /\ turn'[p].ours = record
      /\ turn'[p].acked = turn[p].acked
      /\ turn'[p].seen = turn[p].seen
      /\ \A r \in Peer : r # p => turn'[r] = turn[r]
  BY <1>a, PairFacts, <1>t, TypedFacts DEF Turns
<1> HIDE DEF SendCommitment
<1>c. turn[p].cursor \in Rounds
  BY <1>a, PlayingFacts DEF FairInv, Playing
<1>h. ASSUME NEW r \in Peer, NEW k \in Rounds, NEW d \in Sealed, HoldsDigest(r, k, d)
      PROVE  HoldsDigest(r, k, d)'
  BY <1>h, <1>a, <1>b, PairFacts, <1>t, TypedFacts, NoneFacts DEF FairInv, HoldsDigest,
     WitnessLink, Rounds
<1>v. ASSUME NEW r \in Peer, NEW k \in Nat \ {0}, Revealed(r, k)
      PROVE  Revealed(r, k)'
  BY <1>v, <1>a, <1>b, PairFacts, <1>t, TypedFacts, NoneFacts DEF FairInv, Revealed,
     WitnessLink, FlightLink, DriverType
<1>s. sealed[p] \in Seq(Sealed) /\ (\A r \in Peer : SealLink(r)) /\ record # None
  BY <1>t, TypedFacts, NoneFacts DEF FairInv
<1>1. ASSUME NEW r \in Peer PROVE SealLink(r)'
  <2>1. CASE r # p
    <3>1. sealed'[r] = sealed[r] /\ turn'[r] = turn[r]
      BY <1>a, <1>b, <1>t, <2>1, TypedFacts
    <3> QED
      BY <1>s, <3>1 DEF SealLink
  <2>2. CASE r = p
    <3>1. sealed'[p] = Append(sealed[p], record)
      BY <1>a, <1>t, TypedFacts
    <3>2. Len(sealed[p]) = turn[p].cursor - 1 /\ turn[p].cursor \in Nat \ {0}
      BY <1>a, <1>c, <1>s DEF SealLink, Rounds
    <3>3. Len(sealed'[p]) = turn[p].cursor /\ sealed'[p][turn[p].cursor] = record
      BY <1>s, <3>1, <3>2
    <3> QED
      BY <1>b, <1>c, <1>s, <2>2, <3>3 DEF SealLink
  <2> QED
    BY <2>1, <2>2
<1>2. ASSUME NEW r \in Peer PROVE WitnessLink(r)'
  BY <1>a, <1>b, PairFacts, <1>t, TypedFacts, NoneFacts DEF FairInv, DriverType, WitnessLink,
     Playing
<1>3. ASSUME NEW r \in Peer PROVE FlightLink(r)'
  BY <1>a, <1>b, PairFacts, <1>t, TypedFacts, NoneFacts DEF FairInv, DriverType, FlightLink
<1>4. ASSUME NEW r \in Peer PROVE MilestoneLink(r)'
  BY <1>a, <1>b, PairFacts, <1>t, TypedFacts, NoneFacts DEF FairInv, DriverType, MilestoneLink
<1>5. ASSUME NEW r \in Peer PROVE TheirsLink(r)'
  BY <1>a, <1>b, PairFacts, <1>t, TypedFacts, NoneFacts DEF FairInv, DriverType, TheirsLink
<1>6. ASSUME NEW r \in Peer PROVE AckLink(r)'
  BY <1>a, <1>b, PairFacts, <1>t, TypedFacts, NoneFacts, <1>h, <1>c DEF FairInv, DriverType,
     AckLink, SealLink
<1>7. ASSUME NEW r \in Peer PROVE RevealLink(r)'
  <2>0. /\ turn'[Other(r)].seen = turn[Other(r)].seen
        /\ turn'[Other(r)].cursor = turn[Other(r)].cursor
    BY <1>a, <1>b, PairFacts
  <2>1. turn'[Other(r)].seen # None =>
          /\ turn[Other(r)].seen # None /\ turn[Other(r)].cursor \in Nat \ {0}
          /\ turn'[Other(r)].cursor = turn[Other(r)].cursor
    BY <2>0, PairFacts DEF FairInv, SeenLink, Rounds
  <2>2. Other(r) \in Peer /\ witnessed' = witnessed /\ Len(witnessed[Other(r)]) \in Nat
    BY <1>a, PairFacts, <1>t, TypedFacts
  <2>3. RevealLink(r)
    BY DEF FairInv
  <2> QED
    BY <1>v, <2>1, <2>2, <2>3 DEF RevealLink
<1>8. ASSUME NEW r \in Peer PROVE SeenLink(r)'
  BY <1>a, <1>b, PairFacts, <1>t, TypedFacts, NoneFacts, <1>h, <1>c DEF FairInv, DriverType,
     SeenLink, SealLink, Rounds
<1> QED
  BY <1>0, <1>1, <1>2, <1>3, <1>4, <1>5, <1>6, <1>7, <1>8 DEF FairInv

(* Acknowledging preserves the exchange: what is acknowledged is the       *)
(* digest held for the bound round.                                        *)
LEMMA SendAcknowledgementFair == ASSUME FairInv, NEW p \in Peer, SendAcknowledgement(p) PROVE FairInv'
<1>0. TypeInv'
  BY SendAcknowledgementType DEF FairInv
<1>t. TypeInv
  BY DEF FairInv
<1>a. /\ pc[p] = "awaitCommit"
      /\ turn[p].phase = "AWAITING_OUR_ACKNOWLEDGEMENT"
      /\ turn' = [turn EXCEPT ![p].phase = "AWAITING_REVEAL"]
      /\ call' = [call EXCEPT ![p] = [kind |-> "acknowledgement", cursor |-> turn[p].cursor,
                                      digest |-> turn[p].theirs]]
      /\ pc' = [pc EXCEPT ![p] = "ackSent"]
      /\ UNCHANGED <<sealed, witnessed, step>>
  BY DEF SendAcknowledgement, Send
<1>b. /\ turn'[p].cursor = turn[p].cursor
      /\ turn'[p].phase = "AWAITING_REVEAL"
      /\ turn'[p].theirs = turn[p].theirs
      /\ turn'[p].ours = turn[p].ours
      /\ turn'[p].acked = turn[p].acked
      /\ turn'[p].seen = turn[p].seen
      /\ \A r \in Peer : r # p => turn'[r] = turn[r]
  BY <1>a, PairFacts, <1>t, TypedFacts DEF Turns
<1> HIDE DEF SendAcknowledgement
<1>h. ASSUME NEW r \in Peer, NEW k \in Rounds, NEW d \in Sealed, HoldsDigest(r, k, d)
      PROVE  HoldsDigest(r, k, d)'
  BY <1>h, <1>a, <1>b, PairFacts, <1>t, TypedFacts, NoneFacts DEF FairInv, HoldsDigest,
     WitnessLink, Rounds
<1>v. ASSUME NEW r \in Peer, NEW k \in Nat \ {0}, Revealed(r, k)
      PROVE  Revealed(r, k)'
  BY <1>v, <1>a, <1>b, PairFacts, <1>t, TypedFacts, NoneFacts DEF FairInv, Revealed,
     WitnessLink, FlightLink, DriverType
<1>1. ASSUME NEW r \in Peer PROVE SealLink(r)'
  BY <1>a, <1>b, PairFacts, <1>t, TypedFacts, NoneFacts DEF FairInv, DriverType, SealLink
<1>2. ASSUME NEW r \in Peer PROVE WitnessLink(r)'
  BY <1>a, <1>b, PairFacts, <1>t, TypedFacts, NoneFacts DEF FairInv, DriverType, WitnessLink,
     Playing
<1>3. ASSUME NEW r \in Peer PROVE FlightLink(r)'
  BY <1>a, <1>b, PairFacts, <1>t, TypedFacts, NoneFacts DEF FairInv, DriverType, FlightLink
<1>4. ASSUME NEW r \in Peer PROVE MilestoneLink(r)'
  BY <1>a, <1>b, PairFacts, <1>t, TypedFacts, NoneFacts DEF FairInv, DriverType, MilestoneLink,
     TypeInv, PhaseLink
<1>5. ASSUME NEW r \in Peer PROVE TheirsLink(r)'
  BY <1>a, <1>b, PairFacts, <1>t, TypedFacts, NoneFacts DEF FairInv, DriverType, TheirsLink
<1>6. ASSUME NEW r \in Peer PROVE AckLink(r)'
  BY <1>a, <1>b, PairFacts, <1>t, TypedFacts, NoneFacts, <1>h DEF FairInv, DriverType, AckLink,
     SealLink
<1>7. ASSUME NEW r \in Peer PROVE RevealLink(r)'
  <2>0. /\ turn'[Other(r)].seen = turn[Other(r)].seen
        /\ turn'[Other(r)].cursor = turn[Other(r)].cursor
    BY <1>a, <1>b, PairFacts
  <2>1. turn'[Other(r)].seen # None =>
          /\ turn[Other(r)].seen # None /\ turn[Other(r)].cursor \in Nat \ {0}
          /\ turn'[Other(r)].cursor = turn[Other(r)].cursor
    BY <2>0, PairFacts DEF FairInv, SeenLink, Rounds
  <2>2. Other(r) \in Peer /\ witnessed' = witnessed /\ Len(witnessed[Other(r)]) \in Nat
    BY <1>a, PairFacts, <1>t, TypedFacts
  <2>3. RevealLink(r)
    BY DEF FairInv
  <2> QED
    BY <1>v, <2>1, <2>2, <2>3 DEF RevealLink
<1>8. ASSUME NEW r \in Peer PROVE SeenLink(r)'
  BY <1>a, <1>b, PairFacts, <1>t, TypedFacts, NoneFacts, <1>h DEF FairInv, DriverType, SeenLink,
     SealLink, Rounds
<1> QED
  BY <1>0, <1>1, <1>2, <1>3, <1>4, <1>5, <1>6, <1>7, <1>8 DEF FairInv

(* Locking a digest preserves the exchange: it is the one its sender       *)
(* registered, and it replaces none.                                       *)
LEMMA AcceptCommitmentFair == ASSUME FairInv, NEW p \in Peer, AcceptCommitment(p) PROVE FairInv'
<1>0. TypeInv'
  BY AcceptCommitmentType DEF FairInv
<1>t. TypeInv
  BY DEF FairInv
<1>a. /\ call[p].kind = "commitment"
      /\ turn[Other(p)].phase = "AWAITING_COMMITMENT"
      /\ call[p].cursor = turn[Other(p)].cursor
      /\ turn' = [turn EXCEPT ![Other(p)].theirs = call[p].digest,
                              ![Other(p)].phase = "AWAITING_OUR_ACKNOWLEDGEMENT"]
      /\ call' = [call EXCEPT ![p] = None]
      /\ UNCHANGED <<pc, sealed, witnessed, step>>
  BY DEF AcceptCommitment, Receive, Admits, Answer
<1>b. /\ turn'[Other(p)].cursor = turn[Other(p)].cursor
      /\ turn'[Other(p)].phase = "AWAITING_OUR_ACKNOWLEDGEMENT"
      /\ turn'[Other(p)].theirs = call[p].digest
      /\ turn'[Other(p)].ours = turn[Other(p)].ours
      /\ turn'[Other(p)].acked = turn[Other(p)].acked
      /\ turn'[Other(p)].seen = turn[Other(p)].seen
      /\ \A r \in Peer : r # Other(p) => turn'[r] = turn[r]
  BY <1>a, PairFacts, <1>t, TypedFacts DEF Turns
<1> HIDE DEF AcceptCommitment
<1>c. call[p].digest \in Sealed /\ call[p].digest = turn[p].ours
      /\ turn[p].cursor \in 1 .. Len(sealed[p]) /\ sealed[p][turn[p].cursor] = turn[p].ours
      /\ call[p].cursor = turn[p].cursor
  BY <1>a, <1>t, TypedFacts, MessageFacts, NoneFacts DEF FairInv, FlightLink, SealLink, Rounds
<1>d. turn[Other(p)].theirs = None /\ turn[Other(p)].seen = None
  BY <1>a, PairFacts, <1>t, TypedFacts, NoneFacts DEF FairInv, WitnessLink, Witness
<1>h. ASSUME NEW r \in Peer, NEW k \in Rounds, NEW d \in Sealed, HoldsDigest(r, k, d)
      PROVE  HoldsDigest(r, k, d)'
  BY <1>h, <1>a, <1>b, PairFacts, <1>t, TypedFacts, NoneFacts, <1>d DEF FairInv, HoldsDigest,
     WitnessLink, Rounds
<1>v. ASSUME NEW r \in Peer, NEW k \in Nat \ {0}, Revealed(r, k)
      PROVE  Revealed(r, k)'
  BY <1>v, <1>a, <1>b, PairFacts, <1>t, TypedFacts, NoneFacts DEF FairInv, Revealed,
     WitnessLink, FlightLink, DriverType
<1>1. ASSUME NEW r \in Peer PROVE SealLink(r)'
  BY <1>a, <1>b, PairFacts, <1>t, TypedFacts, NoneFacts, <1>c, <1>d DEF FairInv, DriverType,
     SealLink
<1>2. ASSUME NEW r \in Peer PROVE WitnessLink(r)'
  BY <1>a, <1>b, PairFacts, <1>t, TypedFacts, NoneFacts, <1>c, <1>d DEF FairInv, DriverType,
     WitnessLink, Playing
<1>3. ASSUME NEW r \in Peer PROVE FlightLink(r)'
  BY <1>a, <1>b, PairFacts, <1>t, TypedFacts, NoneFacts, <1>c, <1>d DEF FairInv, DriverType,
     FlightLink, MilestoneLink
<1>4. ASSUME NEW r \in Peer PROVE MilestoneLink(r)'
  BY <1>a, <1>b, PairFacts, <1>t, TypedFacts, NoneFacts, <1>c, <1>d DEF FairInv, DriverType,
     MilestoneLink
<1>5. ASSUME NEW r \in Peer PROVE TheirsLink(r)'
  BY <1>a, <1>b, PairFacts, <1>t, TypedFacts, NoneFacts, <1>c, <1>d DEF FairInv, DriverType,
     TheirsLink
<1>6. ASSUME NEW r \in Peer PROVE AckLink(r)'
  BY <1>a, <1>b, PairFacts, <1>t, TypedFacts, NoneFacts, <1>h, <1>c, <1>d DEF FairInv,
     DriverType, AckLink, SealLink
<1>7. ASSUME NEW r \in Peer PROVE RevealLink(r)'
  <2>0. /\ turn'[Other(r)].seen = turn[Other(r)].seen
        /\ turn'[Other(r)].cursor = turn[Other(r)].cursor
    BY <1>a, <1>b, PairFacts
  <2>1. turn'[Other(r)].seen # None =>
          /\ turn[Other(r)].seen # None /\ turn[Other(r)].cursor \in Nat \ {0}
          /\ turn'[Other(r)].cursor = turn[Other(r)].cursor
    BY <2>0, PairFacts DEF FairInv, SeenLink, Rounds
  <2>2. Other(r) \in Peer /\ witnessed' = witnessed /\ Len(witnessed[Other(r)]) \in Nat
    BY <1>a, PairFacts, <1>t, TypedFacts
  <2>3. RevealLink(r)
    BY DEF FairInv
  <2> QED
    BY <1>v, <2>1, <2>2, <2>3 DEF RevealLink
<1>8. ASSUME NEW r \in Peer PROVE SeenLink(r)'
  BY <1>a, <1>b, PairFacts, <1>t, TypedFacts, NoneFacts, <1>h, <1>c, <1>d DEF FairInv,
     DriverType, SeenLink, SealLink, Rounds
<1> QED
  BY <1>0, <1>1, <1>2, <1>3, <1>4, <1>5, <1>6, <1>7, <1>8 DEF FairInv

(* Recording an acknowledgement preserves the exchange: it restates our    *)
(* digest while its sender still holds it.                                 *)
LEMMA AcceptAcknowledgementFair == ASSUME FairInv, NEW p \in Peer, AcceptAcknowledgement(p) PROVE FairInv'
<1>0. TypeInv'
  BY AcceptAcknowledgementType DEF FairInv
<1>t. TypeInv
  BY DEF FairInv
<1>a. /\ call[p].kind = "acknowledgement"
      /\ turn[Other(p)].ours # None
      /\ call[p].cursor = turn[Other(p)].cursor
      /\ call[p].digest = turn[Other(p)].ours
      /\ turn' = [turn EXCEPT ![Other(p)].acked = TRUE]
      /\ call' = [call EXCEPT ![p] = None]
      /\ UNCHANGED <<pc, sealed, witnessed, step>>
  BY DEF AcceptAcknowledgement, Receive, Admits, Answer
<1>b. /\ turn'[Other(p)].cursor = turn[Other(p)].cursor
      /\ turn'[Other(p)].phase = turn[Other(p)].phase
      /\ turn'[Other(p)].theirs = turn[Other(p)].theirs
      /\ turn'[Other(p)].ours = turn[Other(p)].ours
      /\ turn'[Other(p)].acked = TRUE
      /\ turn'[Other(p)].seen = turn[Other(p)].seen
      /\ \A r \in Peer : r # Other(p) => turn'[r] = turn[r]
  BY <1>a, PairFacts, <1>t, TypedFacts DEF Turns
<1> HIDE DEF AcceptAcknowledgement
<1>c. HoldsDigest(p, turn[Other(p)].cursor, turn[Other(p)].ours)
  BY <1>a DEF FairInv, FlightLink, HoldsDigest
<1>h. ASSUME NEW r \in Peer, NEW k \in Rounds, NEW d \in Sealed, HoldsDigest(r, k, d)
      PROVE  HoldsDigest(r, k, d)'
  BY <1>h, <1>a, <1>b, PairFacts, <1>t, TypedFacts, NoneFacts DEF FairInv, HoldsDigest,
     WitnessLink, Rounds
<1>v. ASSUME NEW r \in Peer, NEW k \in Nat \ {0}, Revealed(r, k)
      PROVE  Revealed(r, k)'
  BY <1>v, <1>a, <1>b, PairFacts, <1>t, TypedFacts, NoneFacts DEF FairInv, Revealed,
     WitnessLink, FlightLink, DriverType
<1>1. ASSUME NEW r \in Peer PROVE SealLink(r)'
  BY <1>a, <1>b, PairFacts, <1>t, TypedFacts, NoneFacts DEF FairInv, DriverType, SealLink
<1>2. ASSUME NEW r \in Peer PROVE WitnessLink(r)'
  BY <1>a, <1>b, PairFacts, <1>t, TypedFacts, NoneFacts DEF FairInv, DriverType, WitnessLink,
     Playing
<1>3. ASSUME NEW r \in Peer PROVE FlightLink(r)'
  BY <1>a, <1>b, PairFacts, <1>t, TypedFacts, NoneFacts DEF FairInv, DriverType, FlightLink
<1>4. ASSUME NEW r \in Peer PROVE MilestoneLink(r)'
  BY <1>a, <1>b, PairFacts, <1>t, TypedFacts, NoneFacts DEF FairInv, DriverType, MilestoneLink
<1>5. ASSUME NEW r \in Peer PROVE TheirsLink(r)'
  BY <1>a, <1>b, PairFacts, <1>t, TypedFacts, NoneFacts DEF FairInv, DriverType, TheirsLink
<1>6. ASSUME NEW r \in Peer PROVE AckLink(r)'
  BY <1>a, <1>b, PairFacts, <1>t, TypedFacts, NoneFacts, <1>h, <1>c DEF FairInv, DriverType,
     AckLink, SealLink
<1>7. ASSUME NEW r \in Peer PROVE RevealLink(r)'
  <2>0. /\ turn'[Other(r)].seen = turn[Other(r)].seen
        /\ turn'[Other(r)].cursor = turn[Other(r)].cursor
    BY <1>a, <1>b, PairFacts
  <2>1. turn'[Other(r)].seen # None =>
          /\ turn[Other(r)].seen # None /\ turn[Other(r)].cursor \in Nat \ {0}
          /\ turn'[Other(r)].cursor = turn[Other(r)].cursor
    BY <2>0, PairFacts DEF FairInv, SeenLink, Rounds
  <2>2. Other(r) \in Peer /\ witnessed' = witnessed /\ Len(witnessed[Other(r)]) \in Nat
    BY <1>a, PairFacts, <1>t, TypedFacts
  <2>3. RevealLink(r)
    BY DEF FairInv
  <2> QED
    BY <1>v, <2>1, <2>2, <2>3 DEF RevealLink
<1>8. ASSUME NEW r \in Peer PROVE SeenLink(r)'
  BY <1>a, <1>b, PairFacts, <1>t, TypedFacts, NoneFacts, <1>h DEF FairInv, DriverType, SeenLink,
     SealLink, Rounds
<1> QED
  BY <1>0, <1>1, <1>2, <1>3, <1>4, <1>5, <1>6, <1>7, <1>8 DEF FairInv

(* Consuming a reveal preserves the exchange: it is of our own round, so   *)
(* our record was sealed and its sender holds it.                          *)
LEMMA AcceptRevealFair == ASSUME FairInv, NEW p \in Peer, AcceptReveal(p) PROVE FairInv'
<1>0. TypeInv'
  BY AcceptRevealType DEF FairInv
<1>t. TypeInv
  BY DEF FairInv
<1> DEFINE t == turn[Other(p)]
<1> DEFINE accepted == Acceptable(t.live, call[p].action)
<1> DEFINE seen == [digest |-> t.theirs, action |-> call[p].action, accepted |-> accepted,
                    row |-> [caught |-> Caught(t.live, call[p].action, AnswerCell(Other(p))),
                             scent |-> call[p].scent]]
<1> DEFINE live == IF accepted THEN t.live \cup Placed(call[p].action) ELSE t.live
<1>a. /\ call[p].kind = "reveal"
      /\ turn[Other(p)].phase = "AWAITING_REVEAL"
      /\ call[p].cursor = turn[Other(p)].cursor
      /\ turn' = [turn EXCEPT ![Other(p)].live = live, ![Other(p)].seen = seen,
                              ![Other(p)].phase = "CONSUMED"]
      /\ seen.digest = turn[Other(p)].theirs
      /\ call' = [call EXCEPT ![p] = None]
      /\ UNCHANGED <<pc, sealed, witnessed, step>>
  BY <1>t, TypedFacts, PairFacts DEF AcceptReveal, Receive, Admits, Answer
<1> HIDE DEF t, accepted, seen, live
<1>b. /\ turn'[Other(p)].cursor = turn[Other(p)].cursor
      /\ turn'[Other(p)].phase = "CONSUMED"
      /\ turn'[Other(p)].theirs = turn[Other(p)].theirs
      /\ turn'[Other(p)].ours = turn[Other(p)].ours
      /\ turn'[Other(p)].acked = turn[Other(p)].acked
      /\ turn'[Other(p)].seen = seen
      /\ \A r \in Peer : r # Other(p) => turn'[r] = turn[r]
  BY <1>a, PairFacts, <1>t, TypedFacts DEF Turns
<1> HIDE DEF AcceptReveal
<1>c. /\ pc[p] = "revealSent" /\ turn[p].cursor = turn[Other(p)].cursor
      /\ turn[p].theirs # None
  BY <1>a DEF FairInv, FlightLink, MilestoneLink
<1>d. /\ turn[Other(p)].cursor \in 1 .. Len(sealed[Other(p)])
      /\ sealed[Other(p)][turn[Other(p)].cursor] = turn[p].theirs
  BY <1>c DEF FairInv, TheirsLink
<1>e. Len(sealed[Other(p)]) = turn[Other(p)].cursor /\ turn[Other(p)].cursor \in Rounds
  BY <1>d, <1>t, TypedFacts, PairFacts DEF FairInv, SealLink
<1>i. HoldsDigest(p, turn[Other(p)].cursor, sealed[Other(p)][turn[Other(p)].cursor])
  BY <1>c, <1>d DEF HoldsDigest
<1>h. ASSUME NEW r \in Peer, NEW k \in Rounds, NEW d \in Sealed, HoldsDigest(r, k, d)
      PROVE  HoldsDigest(r, k, d)'
  BY <1>h, <1>a, <1>b, PairFacts, <1>t, TypedFacts, NoneFacts DEF FairInv, HoldsDigest,
     WitnessLink, Rounds
<1>v. ASSUME NEW r \in Peer, NEW k \in Nat \ {0}, Revealed(r, k)
      PROVE  Revealed(r, k)'
  BY <1>v, <1>a, <1>b, PairFacts, <1>t, TypedFacts, NoneFacts DEF FairInv, Revealed,
     WitnessLink, FlightLink, DriverType
<1>1. ASSUME NEW r \in Peer PROVE SealLink(r)'
  BY <1>a, <1>b, PairFacts, <1>t, TypedFacts, NoneFacts DEF FairInv, DriverType, SealLink
<1>2. ASSUME NEW r \in Peer PROVE WitnessLink(r)'
  BY <1>a, <1>b, PairFacts, <1>t, TypedFacts, NoneFacts DEF FairInv, DriverType, WitnessLink,
     Playing
<1>3. ASSUME NEW r \in Peer PROVE FlightLink(r)'
  BY <1>a, <1>b, PairFacts, <1>t, TypedFacts, NoneFacts DEF FairInv, DriverType, FlightLink
<1>4. ASSUME NEW r \in Peer PROVE MilestoneLink(r)'
  BY <1>a, <1>b, PairFacts, <1>t, TypedFacts, NoneFacts DEF FairInv, DriverType, MilestoneLink
<1>5. ASSUME NEW r \in Peer PROVE TheirsLink(r)'
  BY <1>a, <1>b, PairFacts, <1>t, TypedFacts, NoneFacts DEF FairInv, DriverType, TheirsLink
<1>6. ASSUME NEW r \in Peer PROVE AckLink(r)'
  BY <1>a, <1>b, PairFacts, <1>t, TypedFacts, NoneFacts, <1>h DEF FairInv, DriverType, AckLink,
     SealLink
<1>7. ASSUME NEW r \in Peer PROVE RevealLink(r)'
  <2>1. CASE r = Other(p)
    <3>0. Other(r) = p /\ turn'[p] = turn[p]
      BY <2>1, <1>b, PairFacts
    <3>1. /\ turn'[p].seen # None =>
               /\ turn[p].seen # None /\ turn[p].cursor \in Nat \ {0}
               /\ turn'[p].cursor = turn[p].cursor
          /\ Other(r) = p
      BY <3>0 DEF FairInv, SeenLink, Rounds
    <3>2. witnessed' = witnessed /\ Len(witnessed[p]) \in Nat /\ RevealLink(r)
      BY <1>a, <1>t, TypedFacts DEF FairInv
    <3> QED
      BY <1>v, <3>1, <3>2 DEF RevealLink
  <2>2. CASE r = p
    <3>1. Revealed(p, turn[Other(p)].cursor)'
      BY <1>a, <1>b, <1>c, PairFacts, <1>t, TypedFacts, NoneFacts DEF Revealed
    <3>2. witnessed' = witnessed /\ Len(witnessed[Other(p)]) \in Nat /\ RevealLink(p)
      BY <1>a, <1>t, TypedFacts, PairFacts DEF FairInv
    <3> QED
      BY <1>v, <2>2, <3>1, <3>2 DEF RevealLink
  <2> QED
    BY <2>1, <2>2, PairFacts
<1>8. ASSUME NEW r \in Peer PROVE SeenLink(r)'
  BY <1>a, <1>b, PairFacts, <1>t, TypedFacts, NoneFacts, <1>h, <1>e, <1>i DEF FairInv,
     DriverType, SeenLink, SealLink, Rounds
<1> QED
  BY <1>0, <1>1, <1>2, <1>3, <1>4, <1>5, <1>6, <1>7, <1>8 DEF FairInv

(* Adopting a round preserves the exchange: the digest held passes from    *)
(* the runtime to the witness kept for the audit, and the next runtime     *)
(* holds nothing.                                                          *)
LEMMA AdoptFair == ASSUME FairInv, NEW p \in Peer, Adopt(p) PROVE FairInv'
<1>0. TypeInv'
  BY AdoptType DEF FairInv
<1>t. TypeInv
  BY DEF FairInv
<1>c. /\ pc[p] = "awaitReveal" /\ turn[p].cursor = step[p] + 1
      /\ turn[p].cursor \in Rounds /\ Len(sealed[p]) = turn[p].cursor
      /\ Len(witnessed[p]) = step[p] /\ turn[p].seen \in Witness
      /\ turn[p].seen.digest = turn[p].theirs /\ call[p] = None
      /\ turn[p].theirs \in Sealed
  BY PlayingFacts, NoneFacts DEF Adopt, FairInv, TypeInv, Playing, Sealing, RecordLink, PhaseLink,
     WitnessLink, CallLink, Calling
<1>z. CASE ~turn[p].answered.accepted
  <2>1. /\ pc' = [pc EXCEPT ![p] = "failed"]
        /\ UNCHANGED <<turn, sealed, witnessed, step, call>>
    BY <1>z DEF Adopt
  <2> QED
    BY <1>0, <1>c, <1>t, TypedFacts, <2>1, NoneFacts, QuietFair
       DEF DriverType, Playing, QuietTurn, QuietCall, QuietDriver
<1>y. SUFFICES ASSUME turn[p].answered.accepted PROVE FairInv'
  BY <1>z
<1>a. /\ pc[p] = "awaitReveal"
      /\ step' = [step EXCEPT ![p] = @ + 1]
      /\ witnessed' = [witnessed EXCEPT ![p] = Append(@, turn[p].seen)]
      /\ \/ turn' = turn /\ pc' = [pc EXCEPT ![p] = "nonces"]
         \/ /\ pc' = [pc EXCEPT ![p] = "commit"]
            /\ \E b, c : turn' = [turn EXCEPT ![p] = FreshTurn(step[p] + 1, b, c)]
      /\ UNCHANGED <<sealed, call>>
  <2> DEFINE c == Landing(p, chosen[p].action)
             b == Merged(p, chosen[p].action)
             over == Terminal(captured[p] \/ CaughtIn(turn[p]), step[p] + 1) # "NONE"
  <2>1. /\ turn' = IF over THEN turn ELSE [turn EXCEPT ![p] = FreshTurn(step[p] + 1, b, c)]
        /\ pc' = [pc EXCEPT ![p] = IF over THEN "nonces" ELSE "commit"]
    BY <1>y DEF Adopt
  <2>2. \/ turn' = turn /\ pc' = [pc EXCEPT ![p] = "nonces"]
        \/ /\ pc' = [pc EXCEPT ![p] = "commit"]
           /\ turn' = [turn EXCEPT ![p] = FreshTurn(step[p] + 1, b, c)]
    BY <2>1
  <2> HIDE DEF c, b
  <2>3. \/ turn' = turn /\ pc' = [pc EXCEPT ![p] = "nonces"]
        \/ /\ pc' = [pc EXCEPT ![p] = "commit"]
           /\ \E x, y : turn' = [turn EXCEPT ![p] = FreshTurn(step[p] + 1, x, y)]
    BY <2>2
  <2> QED
    BY <2>3, <1>y DEF Adopt
<1>b. /\ Len(witnessed'[p]) = Len(witnessed[p]) + 1
      /\ witnessed'[p][turn[p].cursor] = turn[p].seen
      /\ \A k \in 1 .. Len(witnessed[p]) : witnessed'[p][k] = witnessed[p][k]
      /\ \A r \in Peer : r # p => turn'[r] = turn[r] /\ witnessed'[r] = witnessed[r]
      /\ \/ pc'[p] = "nonces" /\ turn' = turn
         \/ /\ pc'[p] = "commit"
            /\ turn'[p].cursor = turn[p].cursor + 1 /\ turn'[p].phase = "AWAITING_COMMITMENT"
            /\ turn'[p].theirs = None /\ turn'[p].ours = None /\ turn'[p].acked = FALSE
            /\ turn'[p].seen = None
  <2>1. \A b, c : LET fresh == FreshTurn(step[p] + 1, b, c)
                  IN /\ fresh.cursor = turn[p].cursor + 1 /\ fresh.phase = "AWAITING_COMMITMENT"
                     /\ fresh.theirs = None /\ fresh.ours = None /\ fresh.acked = FALSE
                     /\ fresh.seen = None
    BY <1>c, <1>t, TypedFacts DEF FreshTurn, NewTurn
  <2> QED
    BY <2>1, <1>a, <1>c, <1>t, TypedFacts DEF DriverType
<1> HIDE DEF Adopt
<1>d. ASSUME NEW r \in Peer
      PROVE  \/ turn'[r] = turn[r]
             \/ /\ r = p /\ turn'[r].cursor = turn[r].cursor + 1
                /\ turn'[r].theirs = None /\ turn'[r].ours = None /\ turn'[r].acked = FALSE
                /\ turn'[r].seen = None
  BY <1>b
<1>h. ASSUME NEW r \in Peer, NEW k \in Rounds, NEW d \in Sealed, HoldsDigest(r, k, d)
      PROVE  HoldsDigest(r, k, d)'
  BY <1>h, <1>a, PairFacts, <1>t, TypedFacts, NoneFacts, <1>b, <1>c DEF FairInv, HoldsDigest,
     WitnessLink, Rounds
<1>v. ASSUME NEW r \in Peer, NEW k \in Nat \ {0}, Revealed(r, k)
      PROVE  Revealed(r, k)'
  BY <1>v, <1>a, PairFacts, <1>t, TypedFacts, NoneFacts, <1>b, <1>c DEF FairInv, Revealed,
     WitnessLink, FlightLink, DriverType
<1>1. ASSUME NEW r \in Peer PROVE SealLink(r)'
  <2>1. SealLink(r) /\ sealed' = sealed
    BY <1>a DEF FairInv
  <2>2. CASE turn'[r] = turn[r]
    BY <2>1, <2>2 DEF SealLink
  <2>3. CASE turn'[r] # turn[r]
    <3>1. r = p /\ turn'[r].cursor = turn[r].cursor + 1 /\ turn'[r].ours = None
      BY <2>3, <1>d
    <3>2. Len(sealed[r]) = turn[r].cursor /\ turn[r].cursor \in Nat /\ turn[r].cursor >= 1
      BY <3>1, <1>c, <1>t, TypedFacts DEF Rounds
    <3> QED
      BY <2>1, <3>1, <3>2 DEF SealLink
  <2> QED
    BY <2>2, <2>3
<1>2. ASSUME NEW r \in Peer PROVE WitnessLink(r)'
  BY <1>a, PairFacts, <1>t, TypedFacts, NoneFacts, <1>b, <1>c DEF FairInv, DriverType,
     WitnessLink, Playing
<1>3. ASSUME NEW r \in Peer PROVE FlightLink(r)'
  BY <1>a, PairFacts, <1>t, TypedFacts, NoneFacts, <1>b, <1>c DEF FairInv, DriverType, FlightLink
<1>4. ASSUME NEW r \in Peer PROVE MilestoneLink(r)'
  BY <1>a, PairFacts, <1>t, TypedFacts, NoneFacts, <1>b, <1>c DEF FairInv, DriverType,
     MilestoneLink
<1>5. ASSUME NEW r \in Peer PROVE TheirsLink(r)'
  <2>1. TheirsLink(r) /\ sealed' = sealed
    BY <1>a DEF FairInv
  <2> QED
    BY <2>1, <1>d DEF TheirsLink
<1>6. ASSUME NEW r \in Peer PROVE AckLink(r)'
  <2>1. turn[r].acked => /\ turn[r].ours \in Sealed /\ turn[r].cursor \in Rounds
                         /\ HoldsDigest(Other(r), turn[r].cursor, turn[r].ours)
    BY <1>t, TypedFacts DEF FairInv, AckLink, SealLink
  <2>2. Other(r) \in Peer
    BY PairFacts
  <2> QED
    BY <1>d, <1>h, <2>1, <2>2, NoneFacts DEF AckLink
<1>7. ASSUME NEW r \in Peer PROVE RevealLink(r)'
  <2>1. turn'[Other(r)].seen # None =>
          /\ turn[Other(r)].seen # None /\ turn[Other(r)].cursor \in Nat \ {0}
          /\ turn'[Other(r)].cursor = turn[Other(r)].cursor
    <3>1. SeenLink(Other(r)) /\ Other(r) \in Peer
      BY PairFacts DEF FairInv
    <3> QED
      <4>1. CASE turn'[Other(r)] = turn[Other(r)]
        BY <3>1, <4>1 DEF SeenLink, Rounds
      <4>2. CASE turn'[Other(r)] # turn[Other(r)]
        BY <3>1, <4>2, <1>d
      <4> QED
        BY <4>1, <4>2
  <2>2. RevealLink(r) /\ Other(r) \in Peer
    BY PairFacts DEF FairInv
  <2>3. ASSUME NEW k \in 1 .. Len(witnessed'[Other(r)]) PROVE Revealed(r, k)'
    <3>1. CASE k \in 1 .. Len(witnessed[Other(r)])
      BY <1>v, <2>2, <3>1, <1>t, TypedFacts DEF RevealLink
    <3>2. CASE k \notin 1 .. Len(witnessed[Other(r)])
      <4>1. Other(r) = p /\ k = turn[p].cursor /\ turn[p].seen # None
        <5>1. Other(r) = p
          BY <3>2, <2>2, <1>b
        <5>2. k = Len(witnessed[p]) + 1
          BY <3>2, <5>1, <1>b, <1>t, TypedFacts
        <5> QED
          BY <5>1, <5>2, <1>c, <1>t, TypedFacts, NoneFacts
      <4>2. Revealed(r, k)
        BY <4>1, <2>2 DEF RevealLink
      <4> QED
        BY <4>2, <1>v
    <3> QED
      BY <3>1, <3>2
  <2> QED
    BY <1>v, <2>1, <2>2, <2>3 DEF RevealLink
<1>8. ASSUME NEW r \in Peer PROVE SeenLink(r)'
  <2>1. turn[r].seen # None => /\ sealed[r][turn[r].cursor] \in Sealed /\ turn[r].cursor \in Rounds
                                /\ Len(sealed[r]) = turn[r].cursor
                                /\ HoldsDigest(Other(r), turn[r].cursor, sealed[r][turn[r].cursor])
    BY <1>t, TypedFacts DEF FairInv, SeenLink, Rounds
  <2>2. sealed' = sealed /\ Other(r) \in Peer
    BY <1>a, PairFacts
  <2> QED
    BY <1>d, <1>h, <2>1, <2>2 DEF SeenLink
<1> QED
  BY <1>0, <1>1, <1>2, <1>3, <1>4, <1>5, <1>6, <1>7, <1>8 DEF FairInv

(* The exchange invariant holds in the initial state.                      *)
LEMMA FairInit == Init => FairInv
<1> SUFFICES ASSUME Init PROVE FairInv
  OBVIOUS
<1>1. TypeInv
  BY TypeInit
<1>2. ASSUME NEW p \in Peer
      PROVE  /\ pc[p] = "idle" /\ turn[p] = Unbound /\ call[p] = None /\ step[p] = 0
             /\ sealed[p] = <<>> /\ witnessed[p] = <<>>
  BY DEF Init
<1>3. /\ Unbound.cursor = 0 /\ Unbound.theirs = None /\ Unbound.ours = None
      /\ Unbound.acked = FALSE /\ Unbound.seen = None
  BY DEF Unbound, NewTurn
<1>4. ASSUME NEW p \in Peer
      PROVE  /\ SealLink(p) /\ WitnessLink(p) /\ FlightLink(p) /\ MilestoneLink(p)
             /\ TheirsLink(p) /\ AckLink(p) /\ SeenLink(p)
  BY <1>2, <1>3, NoneFacts DEF SealLink, WitnessLink, FlightLink, MilestoneLink, TheirsLink,
     AckLink, SeenLink
<1>5. ASSUME NEW p \in Peer PROVE RevealLink(p)
  BY <1>2, <1>3, PeerFacts DEF RevealLink
<1> QED
  BY <1>1, <1>4, <1>5 DEF FairInv

(* A stuttering step preserves the exchange invariant.                     *)
LEMMA FairStutter == ASSUME FairInv, UNCHANGED vars PROVE FairInv'
<1>1. TypeInv'
  BY TypeStutter DEF FairInv
<1> QED
  BY <1>1, QuietFair DEF QuietTurn, QuietCall, QuietDriver

(* The exchange invariant is inductive.                                    *)
LEMMA FairNext == FairInv /\ [Next]_vars => FairInv'
<1> SUFFICES ASSUME FairInv, [Next]_vars PROVE FairInv'
  OBVIOUS
<1>1. CASE UNCHANGED vars
  BY <1>1, FairStutter
<1>2. ASSUME NEW p \in Peer, Drive(p) PROVE FairInv'
  BY <1>2, LaunchFair, SendCommitmentFair, CorneredFair, SendAcknowledgementFair,
     SendRevealFair, AnsweredFair, RefusedFair, AdoptFair, SendNoncesFair, SendDisclosureFair,
     CloseFair DEF Drive
<1>3. ASSUME NEW p \in Peer, Serve(p) PROVE FairInv'
  BY <1>3, AcceptCommitmentFair, AcceptAcknowledgementFair, AcceptRevealFair, AcceptNoncesFair,
     AcceptDisclosureFair, RefuseFair DEF Serve
<1>4. ASSUME NEW p \in Peer, Fault(p) PROVE FairInv'
  BY <1>4, LoseCallFair, LoseReplyFair, TimeoutFair, CrashFair DEF Fault
<1>5. CASE Finished
  BY <1>5, FairStutter DEF Finished
<1> QED
  BY <1>1, <1>2, <1>3, <1>4, <1>5 DEF Next

(* The exchange invariant implies the fair exchange: a reveal in flight is *)
(* of the round its receiver is in, because a receiver past it would have  *)
(* consumed it.                                                            *)
LEMMA FairImplies == FairInv => FairExchange
<1> SUFFICES ASSUME FairInv, NEW p \in Peer
             PROVE  LET q == Other(p)
                        k == turn[q].cursor
                    IN (call[p].kind = "reveal" \/ turn[q].seen # None)
                         => /\ call[p].kind = "reveal" => call[p].cursor = k
                            /\ Len(sealed[q]) = k
                            /\ HoldsDigest(p, k, sealed[q][k])
  BY DEF FairExchange
<1> DEFINE q == Other(p)
<1> DEFINE k == turn[q].cursor
<1>1. q \in Peer /\ Other(q) = p /\ Len(sealed[q]) \in Nat /\ k \in Nat
  BY PairFacts, TypedFacts DEF FairInv
<1>2. CASE call[p].kind = "reveal"
  <2>1. call[p].cursor = turn[p].cursor /\ turn[p].theirs # None /\ turn[p].acked
    BY <1>2 DEF FairInv, FlightLink, MilestoneLink
  <2>2. turn[p].cursor \in 1 .. Len(sealed[q]) /\ sealed[q][turn[p].cursor] = turn[p].theirs
    BY <2>1 DEF FairInv, TheirsLink
  <2>3. ~Revealed(p, turn[p].cursor)
    BY <1>2, <2>2 DEF Revealed
  <2>4. turn[p].cursor \notin 1 .. Len(witnessed[q])
    BY <2>3 DEF FairInv, RevealLink
  <2>5. k = turn[p].cursor
    <3>1. HoldsDigest(q, turn[p].cursor, turn[p].ours)
      BY <2>1 DEF FairInv, AckLink
    <3> QED
      BY <2>2, <2>4, <3>1, <1>1, TypedFacts DEF HoldsDigest, FairInv
  <2>6. Len(sealed[q]) = k
    BY <1>1, <2>2, <2>5 DEF FairInv, SealLink
  <2> QED
    BY <2>1, <2>2, <2>5, <2>6 DEF HoldsDigest
<1>3. CASE call[p].kind # "reveal" /\ turn[q].seen # None
  BY <1>1, <1>3 DEF FairInv, SeenLink
<1> QED
  BY <1>2, <1>3

(* On every board and for every threshold, whatever is lost, delayed or    *)
(* crashes: a peer that can see an action of the other has sealed its own  *)
(* for that round, and the other holds that very digest (R1 and the        *)
(* acknowledgement gate of `reveal_turn`).                                 *)
THEOREM FairExchangeHolds == Spec => []FairExchange
<1>1. Init => FairInv
  BY FairInit
<1>2. FairInv /\ [Next]_vars => FairInv'
  BY FairNext
<1>3. FairInv => FairExchange
  BY FairImplies
<1> QED
  BY <1>1, <1>2, <1>3, PTL DEF Spec

-----------------------------------------------------------------------------
(***************************************************************************)
(* The two copies of the game in `TurnExchange` are one game.              *)
(*                                                                         *)
(* Each driver keeps its own board, cell and capture flag and builds them  *)
(* from what it was told. The links below read every one of those copies,  *)
(* every message and every retained row off one common object: the two     *)
(* logs of sealed records, in which the board before a round, the cell a   *)
(* role begins it on and the answer to its capture question are all        *)
(* determined by the rounds before it.                                     *)
(***************************************************************************)

(* What the logs say of the question p's round-k action asks its peer, and *)
(* of what it deposits.                                                    *)
Asked(log, p, k) ==
  [caught |-> Caught(BoardBefore(log, k), log[p][k].action, CellBefore(log, Other(p), k)),
   scent |-> EmissionOf(BoardBefore(log, k), CellBefore(log, p, k), log[p][k].action)]

(* A capture question of the first n rounds was answered yes.              *)
Hit(log, n) == \E r \in Peer : \E k \in 1 .. n : Asked(log, r, k).caught

(* The witness w is what p's round-k record and reveal show to its peer.   *)
Shows(log, w, p, k) ==
  /\ k <= Len(log[p])
  /\ w.digest = log[p][k] /\ w.action = log[p][k].action
  /\ w.accepted = TRUE /\ w.row = Asked(log, p, k)

(* A record is sealed on the game the earlier rounds determine, lawfully   *)
(* and before any end event; neither log is two rounds ahead.              *)
LogLink(p) ==
  /\ Len(sealed[p]) <= Len(sealed[Other(p)]) + 1
  /\ \A k \in 1 .. Len(sealed[p]) :
       /\ sealed[p][k].cell = CellBefore(sealed, p, k)
       /\ sealed[p][k].blocked = BoardBefore(sealed, k)
       /\ sealed[p][k].action \in Lawful(p, BoardBefore(sealed, k), CellBefore(sealed, p, k))
       /\ k <= SurvivalThreshold /\ ~Hit(sealed, k - 1)

(* The driver's truth is the game after the rounds it adopted.             *)
TruthLink(p) ==
  /\ step[p] <= Len(sealed[p]) /\ step[p] <= Len(sealed[Other(p)])
  /\ Len(sealed[p]) <= step[p] + 1
  /\ cell[p] = CellBefore(sealed, p, step[p] + 1)
  /\ blocked[p] = BoardBefore(sealed, step[p] + 1)
  /\ captured[p] <=> Hit(sealed, step[p])
  /\ pc[p] \in {"idle"} \cup Playing => ~captured[p]

(* The runtime holds the board of its round, with the peer's placement     *)
(* once the reveal was consumed, and our own cell at its start.            *)
BoundLink(p) ==
  /\ turn[p].cursor = 0 => turn[p].live = {} /\ step[p] = 0
  /\ turn[p].cursor # 0 =>
       /\ turn[p].cursor <= Len(sealed[Other(p)]) + 1
       /\ turn[p].here = CellBefore(sealed, p, turn[p].cursor)
       /\ step[p] = turn[p].cursor - 1 \/ (step[p] = turn[p].cursor /\ turn[p].seen # None)
       /\ turn[p].seen = None => turn[p].live = BoardBefore(sealed, turn[p].cursor)
       /\ turn[p].seen # None =>
            turn[p].live = BoardBefore(sealed, turn[p].cursor)
                             \cup Placed(sealed[Other(p)][turn[p].cursor].action)

(* What p prepared is its last record, and its reveal carries just that.   *)
PreparedLink(p) ==
  /\ Len(sealed[p]) # 0 =>
       /\ chosen[p].action = sealed[p][Len(sealed[p])].action
       /\ chosen[p].scent = Asked(sealed, p, Len(sealed[p])).scent
  /\ call[p].kind = "reveal" =>
       call[p].action = chosen[p].action /\ call[p].scent = chosen[p].scent

(* What p saw, and kept for the audit, is what its peer's records show.    *)
ShownLink(p) ==
  /\ turn[p].phase # "CONSUMED" => turn[p].seen = None
  /\ turn[p].seen # None => Shows(sealed, turn[p].seen, Other(p), turn[p].cursor)
  /\ \A k \in 1 .. Len(witnessed[p]) : Shows(sealed, witnessed[p][k], Other(p), k)

(* The peer accepted p's reveal and answered what the logs determine.      *)
AnswerLink(p) ==
  /\ pc[p] = "revealSent" /\ reply[p].kind = "ok" =>
       /\ reply[p].accepted = TRUE
       /\ reply[p].caught = Asked(sealed, p, turn[p].cursor).caught
  /\ pc[p] = "awaitReveal" =>
       /\ turn[p].answered.accepted = TRUE
       /\ turn[p].answered.caught = Asked(sealed, p, turn[p].cursor).caught

(* One row retained per answered reveal, and it is that answer.            *)
Unanswered == ({"idle"} \cup Playing) \ {"awaitReveal"}
Closing == {"nonces", "noncesSent", "disclose", "disclosureSent", "awaitAudit", "closed"}
ToldLink(p) ==
  /\ \A k \in 1 .. Len(told[p]) : k <= Len(sealed[p]) /\ told[p][k] = Asked(sealed, p, k)
  /\ pc[p] \in Unanswered \cup Closing => Len(told[p]) = step[p]
  /\ pc[p] = "awaitReveal" => Len(told[p]) = step[p] + 1

(* The quota is kept by the union of the two boards p holds.               *)
QuotaLink(p) ==
  /\ IsFiniteSet(blocked[p] \cup turn[p].live)
  /\ Cardinality(blocked[p] \cup turn[p].live) <= MaxBarriers

GameLinks(p) ==
  /\ LogLink(p) /\ TruthLink(p) /\ BoundLink(p) /\ PreparedLink(p)
  /\ ShownLink(p) /\ AnswerLink(p) /\ ToldLink(p) /\ QuotaLink(p)

GameInv == FairInv /\ \A p \in Peer : GameLinks(p)

-----------------------------------------------------------------------------
USE DEF vars, driver, evidence, audit, network

(* The board before a round depends on the earlier records only.           *)
LEMMA SameBoard ==
  ASSUME NEW log, NEW log2, NEW k \in Nat,
         \A p \in Peer : \A j \in 1 .. (k - 1) : log2[p][j] = log[p][j]
  PROVE  BoardBefore(log2, k) = BoardBefore(log, k)
  BY DEF BoardBefore

(* So does the cell a role begins it on.                                   *)
LEMMA SameStart ==
  ASSUME NEW log, NEW log2, NEW k \in Nat \ {0}, NEW p \in Peer,
         \A j \in 1 .. (k - 1) : log2[p][j] = log[p][j]
  PROVE  CellBefore(log2, p, k) = CellBefore(log, p, k)
  BY DEF CellBefore

(* And what a round's action asks depends on that action besides.          *)
LEMMA SameAsked ==
  ASSUME NEW log, NEW log2, NEW k \in Nat \ {0}, NEW p \in Peer,
         \A r \in Peer : \A j \in 1 .. (k - 1) : log2[r][j] = log[r][j],
         log2[p][k] = log[p][k]
  PROVE  Asked(log2, p, k) = Asked(log, p, k)
<1>1. BoardBefore(log2, k) = BoardBefore(log, k)
  BY SameBoard
<1>2. ASSUME NEW r \in Peer PROVE CellBefore(log2, r, k) = CellBefore(log, r, k)
  BY SameStart
<1>3. Other(p) \in Peer
  BY PairFacts
<1> QED
  BY <1>1, <1>2, <1>3 DEF Asked

(* A capture of the first n rounds depends on those rounds only.           *)
LEMMA SameHit ==
  ASSUME NEW log, NEW log2, NEW n \in Nat,
         \A r \in Peer : \A j \in 1 .. n : log2[r][j] = log[r][j]
  PROVE  Hit(log2, n) <=> Hit(log, n)
<1>1. ASSUME NEW r \in Peer, NEW k \in 1 .. n PROVE Asked(log2, r, k) = Asked(log, r, k)
  BY SameAsked
<1> QED
  BY <1>1 DEF Hit

(* A round adds both its placements to the board.                          *)
LEMMA BoardStep ==
  ASSUME NEW log, NEW k \in Nat \ {0}, NEW p \in Peer
  PROVE  BoardBefore(log, k + 1) = BoardBefore(log, k) \cup Placed(log[p][k].action)
                                     \cup Placed(log[Other(p)][k].action)
<1>1. Other(p) \in Peer /\ \A r \in Peer : r = p \/ r = Other(p)
  BY PairFacts
<1>2. \A j : j \in 1 .. ((k + 1) - 1) <=> j \in 1 .. (k - 1) \/ j = k
  OBVIOUS
<1>3. ASSUME NEW x
      PROVE  x \in BoardBefore(log, k + 1) <=>
               \E r \in Peer : \E j \in 1 .. ((k + 1) - 1) : x \in Placed(log[r][j].action)
  BY DEF BoardBefore
<1>4. ASSUME NEW x
      PROVE  x \in BoardBefore(log, k) <=>
               \E r \in Peer : \E j \in 1 .. (k - 1) : x \in Placed(log[r][j].action)
  BY DEF BoardBefore
<1>5. ASSUME NEW x
      PROVE  x \in BoardBefore(log, k + 1) <=>
               \/ x \in BoardBefore(log, k) \/ x \in Placed(log[p][k].action)
               \/ x \in Placed(log[Other(p)][k].action)
  BY <1>1, <1>2, <1>3, <1>4
<1> QED
  BY <1>5

(* A round adds its two questions to the capture flag.                     *)
LEMMA HitStep ==
  ASSUME NEW log, NEW k \in Nat \ {0}, NEW p \in Peer
  PROVE  Hit(log, k) <=> \/ Hit(log, k - 1) \/ Asked(log, p, k).caught
                         \/ Asked(log, Other(p), k).caught
<1>1. Other(p) \in Peer /\ \A r \in Peer : r = p \/ r = Other(p)
  BY PairFacts
<1>2. \A j : j \in 1 .. k <=> j \in 1 .. (k - 1) \/ j = k
  OBVIOUS
<1> QED
  BY <1>1, <1>2, Zenon DEF Hit

(* Nothing is placed, and nobody is hit, before the first round.           *)
LEMMA FirstRound ==
  ASSUME NEW log
  PROVE  /\ BoardBefore(log, 1) = {} /\ ~Hit(log, 0)
         /\ \A p \in Peer : CellBefore(log, p, 1) = StartCell[p]
<1>1. BoardBefore(log, 1) = {}
  <2>1. 1 .. (1 - 1) = {}
    OBVIOUS
  <2> QED
    BY <2>1 DEF BoardBefore
<1>2. ~Hit(log, 0)
  BY DEF Hit
<1> QED
  BY <1>1, <1>2 DEF CellBefore

(* A lawful action is one the other side can accept, and keeps the quota.  *)
LEMMA LawfulPlaced ==
  ASSUME NEW p \in Peer, NEW S, NEW c, NEW a \in Lawful(p, S, c), IsFiniteSet(S),
         Cardinality(S) <= MaxBarriers
  PROVE  /\ Acceptable(S, a) /\ IsFiniteSet(S \cup Placed(a))
         /\ Cardinality(S \cup Placed(a)) <= MaxBarriers
         /\ p # Police => Placed(a) = {}
<1>0. Cardinality(S) \in Nat /\ MaxBarriers \in Nat
  BY FS_CardinalityType, BoardAssumption
<1>1. a.kind = "barrier" => /\ p = Police /\ Placeable(S, c, a.arg)
  BY DEF Lawful
<1>2. CASE a.kind = "barrier"
  <2>1. Placed(a) = {a.arg} /\ Traversable(S, a.arg) /\ Cardinality(S) < MaxBarriers /\ p = Police
    BY <1>1, <1>2 DEF Placed, Placeable
  <2>2. /\ IsFiniteSet(S \cup {a.arg})
        /\ Cardinality(S \cup {a.arg}) = IF a.arg \in S THEN Cardinality(S) ELSE Cardinality(S) + 1
    BY FS_AddElement
  <2> QED
    BY <1>0, <2>1, <2>2 DEF Acceptable
<1>3. CASE a.kind # "barrier"
  <2>1. Placed(a) = {} /\ S \cup Placed(a) = S
    BY <1>3 DEF Placed
  <2> QED
    BY <2>1, <1>3 DEF Acceptable
<1> QED
  BY <1>2, <1>3

(* A step that leaves the game alone for r: no truth, record or row moves, *)
(* the runtime keeps its round, and a driver that moves stays on the same  *)
(* side of its reveal.                                                     *)
SameGround(r) ==
  /\ turn'[r].cursor = turn[r].cursor /\ turn'[r].here = turn[r].here
  /\ turn'[r].live = turn[r].live /\ turn'[r].seen = turn[r].seen
  /\ turn'[r].answered = turn[r].answered
  /\ turn'[r].phase = turn[r].phase \/ turn[r].phase # "CONSUMED"

SameReveal(r) ==
  call'[r].kind = "reveal" =>
    \/ call'[r] = call[r]
    \/ call'[r].action = chosen[r].action /\ call'[r].scent = chosen[r].scent

SameSide(r) ==
  /\ pc'[r] = "revealSent" /\ reply'[r].kind = "ok" => pc[r] = "revealSent" /\ reply'[r] = reply[r]
  /\ pc'[r] = "awaitReveal" => pc[r] = "awaitReveal"
  /\ pc'[r] \in Unanswered \cup Closing => pc[r] \in Unanswered \cup Closing
  /\ pc'[r] \in {"idle"} \cup Playing => pc[r] \in {"idle"} \cup Playing

SameData(r) ==
  /\ told'[r] = told[r] /\ witnessed'[r] = witnessed[r] /\ cell'[r] = cell[r]
  /\ blocked'[r] = blocked[r] /\ step'[r] = step[r] /\ captured'[r] = captured[r]
  /\ chosen'[r] = chosen[r]

(* What such a step leaves of one peer's links.                            *)
LEMMA QuietPeer ==
  ASSUME NEW r \in Peer, GameLinks(r), sealed' = sealed,
         SameData(r), SameGround(r), SameReveal(r), SameSide(r)
  PROVE  GameLinks(r)'
<1> USE DEF SameData, SameGround, SameReveal, SameSide
<1>1. LogLink(r)'
  BY DEF GameLinks, LogLink
<1>2. TruthLink(r)'
  BY DEF GameLinks, TruthLink
<1>3. BoundLink(r)'
  BY DEF GameLinks, BoundLink
<1>4. PreparedLink(r)'
  BY DEF GameLinks, PreparedLink
<1>5. ShownLink(r)'
  BY DEF GameLinks, ShownLink, Shows
<1>6. AnswerLink(r)'
  BY DEF GameLinks, AnswerLink
<1>7. ToldLink(r)'
  BY DEF GameLinks, ToldLink
<1>8. QuotaLink(r)'
  BY DEF GameLinks, QuotaLink
<1> QED
  BY <1>1, <1>2, <1>3, <1>4, <1>5, <1>6, <1>7, <1>8 DEF GameLinks

(* A step that leaves the game alone on both sides preserves the invariant.*)
GameData == <<sealed, told, witnessed, cell, blocked, step, captured, chosen>>

LEMMA QuietGame ==
  ASSUME GameInv, FairInv', UNCHANGED GameData,
         \A r \in Peer : SameGround(r) /\ SameReveal(r) /\ SameSide(r)
  PROVE  GameInv'
<1> SUFFICES ASSUME NEW r \in Peer PROVE GameLinks(r)'
  BY DEF GameInv
<1>1. GameLinks(r) /\ SameData(r) /\ sealed' = sealed
  BY DEF GameInv, GameData, SameData
<1> QED
  BY <1>1, QuietPeer

(* A peer nothing of which moves keeps its links.                          *)
Untouched(r) ==
  /\ SameData(r) /\ turn'[r] = turn[r] /\ pc'[r] = pc[r] /\ call'[r] = call[r]
  /\ reply'[r] = reply[r]

LEMMA UntouchedPeer ==
  ASSUME NEW r \in Peer, GameLinks(r), sealed' = sealed, Untouched(r)
  PROVE  GameLinks(r)'
  BY QuietPeer DEF Untouched, SameGround, SameReveal, SameSide

(* The actions that move a driver past its own requests, or only exchange  *)
(* digests, acknowledgements, nonces, disclosures and failures.            *)
Aside(p) ==
  \/ Cornered(p) \/ SendAcknowledgement(p) \/ SendReveal(p) \/ Refused(p) \/ SendNonces(p)
  \/ SendDisclosure(p) \/ Close(p) \/ AcceptCommitment(p) \/ AcceptAcknowledgement(p)
  \/ AcceptNonces(p) \/ AcceptDisclosure(p) \/ Refuse(p) \/ Fault(p)

(* They preserve the game invariant.                                       *)
LEMMA AsideGame ==
  ASSUME GameInv, FairInv', NEW p \in Peer, Aside(p)
  PROVE  GameInv'
<1>t. TypeInv /\ turn \in [Peer -> Turns] /\ pc \in [Peer -> Ready \cup Calling \cup Suspended \cup Final]
      /\ call \in [Peer -> Messages] /\ reply \in [Peer -> Replies]
  BY DEF GameInv, FairInv, TypeInv, TypeOK, DriverType, NetworkType
<1>c. \A r \in Peer : pc[r] \notin Calling => reply[r] = None
  BY <1>t DEF TypeInv, CallLink
<1>n. None.kind = "none"
  BY DEF None
<1>1. UNCHANGED GameData
  BY DEF Aside, GameData, Cornered, SendAcknowledgement, SendReveal, Refused, SendNonces,
     SendDisclosure, Close, AcceptCommitment, AcceptAcknowledgement, AcceptNonces,
     AcceptDisclosure, Refuse, Fault, LoseCall, LoseReply, Timeout, Crash
<1>2. ASSUME NEW r \in Peer PROVE SameGround(r)
  <2>1. CASE turn' = turn
    BY <2>1 DEF SameGround
  <2>2. CASE SendAcknowledgement(p)
    BY <2>2, <1>t DEF SendAcknowledgement, SameGround, Turns
  <2>3. CASE AcceptCommitment(p)
    BY <2>3, <1>t, PeerFacts DEF AcceptCommitment, Receive, Admits, SameGround, Turns
  <2>4. CASE AcceptAcknowledgement(p)
    BY <2>4, <1>t, PeerFacts DEF AcceptAcknowledgement, SameGround, Turns
  <2> QED
    BY <2>1, <2>2, <2>3, <2>4
       DEF Aside, Cornered, SendReveal, Refused, SendNonces, SendDisclosure, Close,
           AcceptNonces, AcceptDisclosure, Refuse, Fault, LoseCall, LoseReply, Timeout, Crash
<1>3. ASSUME NEW r \in Peer PROVE SameReveal(r)
  BY <1>t, <1>n
     DEF Aside, Cornered, SendAcknowledgement, SendReveal, Refused, SendNonces, SendDisclosure,
         Close, AcceptCommitment, AcceptAcknowledgement, AcceptNonces, AcceptDisclosure, Refuse,
         Fault, LoseCall, LoseReply, Timeout, Crash, Send, Answer, SameReveal
<1>4. ASSUME NEW r \in Peer PROVE SameSide(r)
  <2>1. CASE Cornered(p) \/ Refused(p) \/ Timeout(p) \/ Crash(p)
    BY <2>1, <1>t, <1>c, <1>n DEF Cornered, Refused, Timeout, Crash, Unanswered, Closing,
       Playing, Calling, Suspended, SameSide
  <2>2. CASE SendAcknowledgement(p) \/ SendReveal(p)
    BY <2>2, <1>t, <1>c, <1>n DEF SendAcknowledgement, SendReveal, Send, Unanswered, Closing,
       Playing, Calling, SameSide
  <2>3. CASE SendNonces(p) \/ SendDisclosure(p) \/ Close(p)
    BY <2>3, <1>t, <1>c, <1>n DEF SendNonces, SendDisclosure, Close, Send, Unanswered, Closing,
       Playing, Calling, SameSide
  <2>4. CASE LoseCall(p) \/ LoseReply(p) \/ Refuse(p)
    BY <2>4, <1>t, <1>c, <1>n DEF LoseCall, LoseReply, Refuse, Answer, Unanswered, Closing,
       Playing, Calling, SameSide
  <2>5. CASE AcceptCommitment(p) \/ AcceptAcknowledgement(p) \/ AcceptNonces(p)
               \/ AcceptDisclosure(p)
    <3>1. pc[p] # "revealSent" /\ pc' = pc
      <4>1. call[p] # None /\ call[p].kind # "reveal" /\ pc' = pc
        BY <2>5, <1>n DEF AcceptCommitment, AcceptAcknowledgement, AcceptNonces,
           AcceptDisclosure, Receive
      <4> QED
        BY <4>1, <1>t DEF TypeInv, CallLink
    <3> QED
      BY <3>1, <2>5, <1>t DEF AcceptCommitment, AcceptAcknowledgement, AcceptNonces,
         AcceptDisclosure, Answer, SameSide
  <2> QED
    BY <2>1, <2>2, <2>3, <2>4, <2>5 DEF Aside, Fault
<1> QED
  BY <1>1, <1>2, <1>3, <1>4, QuietGame

(* The types the proofs below need.                                        *)
LEMMA GameFacts ==
  ASSUME GameInv
  PROVE  /\ TypeInv /\ turn \in [Peer -> Turns] /\ DriverType
         /\ call \in [Peer -> Messages] /\ reply \in [Peer -> Replies]
         /\ sealed \in [Peer -> Seq(Sealed)] /\ told \in [Peer -> Seq(Row)]
         /\ witnessed \in [Peer -> Seq(Witness)]
         /\ \A r \in Peer :
              /\ GameLinks(r) /\ GameLinks(Other(r)) /\ Other(r) \in Peer /\ Other(Other(r)) = r
              /\ Len(sealed[r]) \in Nat /\ Len(told[r]) \in Nat /\ Len(witnessed[r]) \in Nat
              /\ step[r] \in Nat /\ turn[r].cursor \in Nat /\ turn[r] \in Turns
  BY TypedFacts, PairFacts
     DEF GameInv, FairInv, TypeInv, TypeOK, DriverType, EvidenceType, AuditType, NetworkType

(* Opening the sub-game preserves the game invariant: the runtime of the   *)
(* first round is bound on the opening.                                    *)
LEMMA LaunchGame ==
  ASSUME GameInv, FairInv', NEW p \in Peer, Launch(p)
  PROVE  GameInv'
<1>t. /\ turn \in [Peer -> Turns] /\ DriverType /\ GameLinks(p)
      /\ Len(sealed[Other(p)]) \in Nat
  BY GameFacts
<1>a. /\ pc[p] = "idle" /\ step[p] = 0 /\ turn[p].cursor = 0 /\ turn[p].live = {}
      /\ pc' = [pc EXCEPT ![p] = "commit"]
      /\ turn' = [turn EXCEPT ![p] = FreshTurn(0, blocked[p], cell[p])]
      /\ UNCHANGED <<sealed, told, witnessed, cell, blocked, step, captured, chosen, call, reply>>
  BY <1>t DEF Launch, GameInv, FairInv, WitnessLink, RoundLink, TypeInv, GameLinks, BoundLink
<1>b. /\ pc'[p] = "commit"
      /\ turn'[p].cursor = 1 /\ turn'[p].seen = None /\ turn'[p].here = cell[p]
      /\ turn'[p].live = blocked[p] /\ turn'[p].phase = "AWAITING_COMMITMENT"
      /\ \A r \in Peer : r # p => turn'[r] = turn[r] /\ pc'[r] = pc[r]
  BY <1>a, <1>t DEF FreshTurn, NewTurn, DriverType
<1>c. blocked[p] = BoardBefore(sealed, 1) /\ cell[p] = CellBefore(sealed, p, 1)
  BY <1>a, <1>t DEF GameLinks, TruthLink
<1>d. ASSUME NEW r \in Peer, r # p PROVE GameLinks(r)'
  <2>1. GameLinks(r) /\ Untouched(r)
    BY <1>a, <1>b, <1>d, GameFacts DEF Untouched, SameData
  <2> QED
    BY <2>1, <1>a, UntouchedPeer
<1>1. LogLink(p)'
  BY <1>t, <1>a DEF GameLinks, LogLink
<1>2. TruthLink(p)'
  BY <1>t, <1>a DEF GameLinks, TruthLink, DriverType, Playing
<1>3. BoundLink(p)'
  BY <1>t, <1>a, <1>b, <1>c DEF BoundLink
<1>4. PreparedLink(p)'
  BY <1>t, <1>a DEF GameLinks, PreparedLink
<1>5. ShownLink(p)'
  BY <1>t, <1>a, <1>b DEF GameLinks, ShownLink, Shows
<1>6. AnswerLink(p)'
  BY <1>b DEF AnswerLink
<1>7. ToldLink(p)'
  BY <1>t, <1>a, <1>b DEF GameLinks, ToldLink, Unanswered, Closing, Playing
<1>8. QuotaLink(p)'
  <2>1. blocked[p] \cup turn[p].live = blocked[p] \cup blocked[p]
    BY <1>a
  <2> QED
    BY <2>1, <1>t, <1>a, <1>b DEF GameLinks, QuotaLink
<1> QED
  BY <1>d, <1>1, <1>2, <1>3, <1>4, <1>5, <1>6, <1>7, <1>8 DEF GameLinks, GameInv

(* Taking an answer preserves the game invariant: the row retained of a    *)
(* reveal is the one the logs determine.                                   *)
LEMMA AnsweredGame ==
  ASSUME GameInv, FairInv', NEW p \in Peer, Answered(p)
  PROVE  GameInv'
<1>t. /\ turn \in [Peer -> Turns] /\ DriverType /\ GameLinks(p) /\ TypeInv
      /\ reply \in [Peer -> Replies] /\ told \in [Peer -> Seq(Row)] /\ step[p] \in Nat
      /\ Len(told[p]) \in Nat /\ told[p] \in Seq(Row) /\ turn[p].cursor \in Nat
  BY GameFacts
<1>a. /\ pc[p] \in Calling /\ reply[p].kind = "ok"
      /\ reply' = [reply EXCEPT ![p] = None] /\ pc' = [pc EXCEPT ![p] = AfterCall[pc[p]]]
      /\ UNCHANGED <<sealed, witnessed, cell, blocked, step, captured, chosen, call>>
      /\ pc[p] # "revealSent" => UNCHANGED <<turn, told>>
      /\ pc[p] = "revealSent" => /\ turn' = [turn EXCEPT ![p].answered = reply[p]]
                                 /\ told' = [told EXCEPT ![p] = Retained(p)]
  BY DEF Answered
<1>n. None.kind = "none"
  BY DEF None
<1>1. CASE pc[p] # "revealSent"
  <2>1. UNCHANGED GameData
    BY <1>1, <1>a DEF GameData
  <2>2. ASSUME NEW r \in Peer PROVE SameGround(r) /\ SameReveal(r) /\ SameSide(r)
    BY <1>1, <1>a, <1>n, <1>t DEF SameGround, SameReveal, SameSide, DriverType, AfterCall,
       Calling, Unanswered, Closing, Playing
  <2> QED
    BY <2>1, <2>2, QuietGame
<1>2. CASE pc[p] = "revealSent"
  <2>a. pc'[p] = "awaitReveal" /\ \A r \in Peer : r # p => pc'[r] = pc[r] /\ reply'[r] = reply[r]
    BY <1>2, <1>a, <1>t DEF DriverType, AfterCall
  <2>b. /\ turn'[p].cursor = turn[p].cursor /\ turn'[p].phase = turn[p].phase
        /\ turn'[p].seen = turn[p].seen /\ turn'[p].here = turn[p].here
        /\ turn'[p].live = turn[p].live /\ turn'[p].answered = reply[p]
        /\ \A r \in Peer : r # p => turn'[r] = turn[r]
    BY <1>2, <1>a, <1>t DEF Turns
  <2>c. /\ turn[p].cursor = step[p] + 1 /\ Len(sealed[p]) = step[p] + 1 /\ Len(told[p]) = step[p]
        /\ reply[p].accepted = TRUE
        /\ reply[p].caught = Asked(sealed, p, step[p] + 1).caught
        /\ chosen[p].scent = Asked(sealed, p, step[p] + 1).scent
    <3>1. turn[p].cursor = step[p] + 1 /\ Len(sealed[p]) = step[p] + 1
      BY <1>2, <1>t DEF TypeInv, RoundLink, RecordLink, Playing, Sealing
    <3>2. Len(told[p]) = step[p]
      BY <1>2, <1>t DEF GameLinks, ToldLink, Unanswered, Playing
    <3>3. reply[p].accepted = TRUE /\ reply[p].caught = Asked(sealed, p, turn[p].cursor).caught
      BY <1>2, <1>a, <1>t DEF GameLinks, AnswerLink
    <3>4. chosen[p].scent = Asked(sealed, p, step[p] + 1).scent
      BY <3>1, <1>t DEF GameLinks, PreparedLink
    <3> QED
      BY <3>1, <3>2, <3>3, <3>4
  <2>d. Retained(p) = Append(told[p], Asked(sealed, p, step[p] + 1))
    BY <2>c DEF Retained, Asked
  <2>e. /\ Len(told'[p]) = step[p] + 1 /\ told'[p][step[p] + 1] = Asked(sealed, p, step[p] + 1)
        /\ \A k \in 1 .. step[p] : told'[p][k] = told[p][k]
        /\ \A r \in Peer : r # p => told'[r] = told[r]
    <3>1. told' = [told EXCEPT ![p] = Append(told[p], Asked(sealed, p, step[p] + 1))]
      BY <1>2, <1>a, <2>d
    <3> QED
      BY <3>1, <1>t, <2>c
  <2>f. ASSUME NEW r \in Peer, r # p PROVE GameLinks(r)'
    <3>1. GameLinks(r) /\ Untouched(r)
      BY <1>a, <2>a, <2>b, <2>e, <2>f, GameFacts DEF Untouched, SameData
    <3> QED
      BY <3>1, <1>a, UntouchedPeer
  <2>1. LogLink(p)'
    BY <1>t, <1>a DEF GameLinks, LogLink
  <2>2. TruthLink(p)'
    BY <1>t, <1>a, <1>2 DEF GameLinks, TruthLink, Playing
  <2>3. BoundLink(p)'
    BY <1>t, <1>a, <2>b DEF GameLinks, BoundLink
  <2>4. PreparedLink(p)'
    BY <1>t, <1>a DEF GameLinks, PreparedLink
  <2>5. ShownLink(p)'
    BY <1>t, <1>a, <2>b DEF GameLinks, ShownLink, Shows
  <2>6. AnswerLink(p)'
    BY <1>t, <1>a, <2>a, <2>b, <2>c DEF AnswerLink
  <2>7. ToldLink(p)'
    <3>1. ASSUME NEW k \in 1 .. Len(told'[p])
          PROVE  k <= Len(sealed[p]) /\ told'[p][k] = Asked(sealed, p, k)
      <4>1. k = step[p] + 1 \/ k \in 1 .. step[p]
        BY <1>t, <2>e
      <4>2. CASE k = step[p] + 1
        BY <4>2, <2>c, <2>e, <1>t
      <4>3. CASE k \in 1 .. step[p]
        BY <4>3, <2>c, <2>e, <1>t DEF GameLinks, ToldLink
      <4> QED
        BY <4>1, <4>2, <4>3
    <3> QED
      BY <3>1, <1>a, <2>a, <2>e DEF ToldLink, Unanswered, Closing, Playing
  <2>8. QuotaLink(p)'
    BY <1>t, <1>a, <2>b DEF GameLinks, QuotaLink
  <2> QED
    BY <2>f, <2>1, <2>2, <2>3, <2>4, <2>5, <2>6, <2>7, <2>8 DEF GameLinks, GameInv
<1> QED
  BY <1>1, <1>2

(* Consuming a reveal preserves the game invariant: the action is lawful   *)
(* on the very board the receiver holds, so it is accepted, and the answer *)
(* is given from the cell the receiver began the round on.                 *)
LEMMA AcceptRevealGame ==
  ASSUME GameInv, FairInv', NEW p \in Peer, AcceptReveal(p)
  PROVE  GameInv'
<1> DEFINE q == Other(p)
<1> DEFINE k == turn[p].cursor
<1> DEFINE a == sealed[p][k].action
<1> DEFINE row == Asked(sealed, p, k)
<1>t. /\ turn \in [Peer -> Turns] /\ GameLinks(p) /\ GameLinks(q) /\ TypeInv /\ FairInv
      /\ reply \in [Peer -> Replies] /\ call \in [Peer -> Messages]
      /\ q \in Peer /\ Other(q) = p /\ p # q /\ \A r \in Peer : r = p \/ r = q
      /\ step[p] \in Nat /\ step[q] \in Nat /\ turn[p].cursor \in Nat /\ turn[q] \in Turns
  BY GameFacts, PairFacts DEF GameInv
<1>r. /\ call[p].kind = "reveal" /\ turn[q].phase = "AWAITING_REVEAL"
      /\ call[p].cursor = turn[q].cursor
      /\ UNCHANGED <<driver, evidence, audit, causes>>
  BY DEF AcceptReveal, Receive, Admits
<1>p. /\ pc[p] = "revealSent" /\ k = turn[q].cursor /\ k = step[p] + 1 /\ Len(sealed[p]) = k
      /\ turn[q].theirs = sealed[p][k] /\ turn[q].seen = None /\ k # 0
  <2>1. pc[p] = "revealSent" /\ call[p].cursor = k
    BY <1>r, <1>t DEF FairInv, FlightLink
  <2>2. k = step[p] + 1 /\ Len(sealed[p]) = step[p] + 1
    BY <2>1, <1>t DEF TypeInv, RoundLink, RecordLink, Playing, Sealing
  <2>3. turn[q].theirs \in Sealed
    BY <1>r, <1>t DEF TypeInv, PhaseLink
  <2>4. sealed[p][turn[q].cursor] = turn[q].theirs
    BY <2>3, <1>t, NoneFacts DEF FairInv, TheirsLink
  <2>5. turn[q].seen = None
    BY <1>r, <1>t DEF GameLinks, ShownLink
  <2> QED
    BY <2>1, <2>2, <2>4, <2>5, <1>r, <1>t
<1>b. /\ turn[q].live = BoardBefore(sealed, k) /\ blocked[q] = BoardBefore(sealed, k)
      /\ turn[q].here = CellBefore(sealed, q, k)
      /\ IsFiniteSet(BoardBefore(sealed, k)) /\ Cardinality(BoardBefore(sealed, k)) <= MaxBarriers
  <2>1. /\ turn[q].live = BoardBefore(sealed, k) /\ turn[q].here = CellBefore(sealed, q, k)
        /\ step[q] = k - 1
    BY <1>p, <1>t DEF GameLinks, BoundLink
  <2>2. blocked[q] = BoardBefore(sealed, k)
    BY <2>1, <1>t, <1>p DEF GameLinks, TruthLink
  <2>3. blocked[q] \cup turn[q].live = BoardBefore(sealed, k)
    BY <2>1, <2>2
  <2> QED
    BY <2>1, <2>2, <2>3, <1>t DEF GameLinks, QuotaLink
<1>m. call[p].action = a /\ call[p].scent = row.scent
  BY <1>p, <1>r, <1>t DEF GameLinks, PreparedLink
<1>l. /\ Acceptable(BoardBefore(sealed, k), a)
      /\ IsFiniteSet(BoardBefore(sealed, k) \cup Placed(a))
      /\ Cardinality(BoardBefore(sealed, k) \cup Placed(a)) <= MaxBarriers
  <2>1. a \in Lawful(p, BoardBefore(sealed, k), CellBefore(sealed, p, k))
    BY <1>p, <1>t DEF GameLinks, LogLink
  <2> QED
    BY <2>1, <1>b, LawfulPlaced
<1>c. Caught(turn[q].live, call[p].action, AnswerCell(q)) = row.caught
  BY <1>b, <1>m, <1>t DEF Asked, AnswerCell
<1>w. [caught |-> row.caught, scent |-> row.scent] = row
  BY DEF Asked
<1> DEFINE w == [digest |-> turn[q].theirs, action |-> call[p].action, accepted |-> TRUE,
                 row |-> row]
<1>a. /\ turn' = [turn EXCEPT ![q].live = BoardBefore(sealed, k) \cup Placed(a),
                              ![q].seen = w, ![q].phase = "CONSUMED"]
      /\ reply' = [reply EXCEPT ![p] = [kind |-> "ok", accepted |-> TRUE, caught |-> row.caught]]
      /\ call' = [call EXCEPT ![p] = None]
  <2>1. Acceptable(turn[q].live, call[p].action) = TRUE
    BY <1>l, <1>b, <1>m
  <2> DEFINE accepted == Acceptable(turn[q].live, call[p].action)
             caught == Caught(turn[q].live, call[p].action, AnswerCell(q))
  <2>2. /\ turn' = [turn EXCEPT
              ![q].live = IF accepted THEN turn[q].live \cup Placed(call[p].action)
                          ELSE turn[q].live,
              ![q].seen = [digest |-> turn[q].theirs, action |-> call[p].action,
                           accepted |-> accepted,
                           row |-> [caught |-> caught, scent |-> call[p].scent]],
              ![q].phase = "CONSUMED"]
        /\ call' = [call EXCEPT ![p] = None]
        /\ reply' = [reply EXCEPT ![p] = [kind |-> "ok", accepted |-> accepted,
                                          caught |-> caught]]
    BY DEF AcceptReveal, Answer
  <2>3. accepted = TRUE /\ caught = row.caught /\ call[p].scent = row.scent
    BY <2>1, <1>c, <1>m
  <2>4. turn[q].live \cup Placed(call[p].action) = BoardBefore(sealed, k) \cup Placed(a)
    BY <1>b, <1>m
  <2> HIDE DEF accepted, caught, k, a, row, q
  <2> QED
    BY <2>2, <2>3, <2>4, <1>w
<1> HIDE DEF w
<1>n. /\ turn'[q].cursor = turn[q].cursor /\ turn'[q].here = turn[q].here
      /\ turn'[q].live = BoardBefore(sealed, k) \cup Placed(a) /\ turn'[q].seen = w
      /\ turn'[q].phase = "CONSUMED" /\ turn'[q].answered = turn[q].answered
      /\ turn'[p] = turn[p]
  BY <1>a, <1>t DEF Turns
<1>s. Shows(sealed, w, p, k) /\ w # None
  <2>1. k <= Len(sealed[p])
    BY <1>p, <1>t
  <2>2. Shows(sealed, w, p, k)
    BY <2>1, <1>p, <1>m DEF Shows, w
  <2>3. turn'[q].seen \in Witness
    BY <1>n, <1>t DEF FairInv, TypeInv, PhaseLink
  <2> QED
    BY <2>2, <2>3, <1>n, NoneFacts
<1>u. /\ UNCHANGED <<sealed, pc>> /\ SameData(p) /\ SameData(q) /\ call'[p] = None
      /\ reply'[p].accepted = TRUE /\ reply'[p].caught = row.caught
      /\ call'[q] = call[q] /\ reply'[q] = reply[q]
  BY <1>r, <1>a, <1>t DEF SameData
<1> HIDE DEF q, k, a, row
<1>x. GameLinks(p)'
  <2>1. LogLink(p)' /\ TruthLink(p)' /\ BoundLink(p)' /\ ShownLink(p)' /\ ToldLink(p)'
          /\ QuotaLink(p)'
    <3>1. LogLink(p)' /\ TruthLink(p)'
      BY <1>t, <1>u, <1>n DEF GameLinks, SameData, LogLink, TruthLink
    <3>2. BoundLink(p)' /\ ShownLink(p)'
      BY <1>t, <1>u, <1>n DEF GameLinks, SameData, BoundLink, ShownLink, Shows
    <3>3. ToldLink(p)' /\ QuotaLink(p)'
      BY <1>t, <1>u, <1>n DEF GameLinks, SameData, ToldLink, QuotaLink, Shows
    <3> QED
      BY <3>1, <3>2, <3>3
  <2>2. PreparedLink(p)'
    BY <1>t, <1>u, NoneFacts DEF GameLinks, SameData, PreparedLink
  <2>3. AnswerLink(p)'
    BY <1>t, <1>u, <1>n, <1>p DEF AnswerLink, row, k
  <2> QED
    BY <2>1, <2>2, <2>3 DEF GameLinks
<1>y. GameLinks(q)'
  <2>1. LogLink(q)' /\ TruthLink(q)' /\ PreparedLink(q)' /\ ToldLink(q)'
    BY <1>t, <1>u DEF GameLinks, SameData, LogLink, TruthLink, PreparedLink, ToldLink
  <2>2. BoundLink(q)'
    BY <1>t, <1>u, <1>n, <1>p, <1>s DEF GameLinks, SameData, BoundLink, a
  <2>3. ShownLink(q)'
    BY <1>t, <1>u, <1>n, <1>p, <1>s DEF GameLinks, SameData, ShownLink, Shows
  <2>4. AnswerLink(q)'
    BY <1>t, <1>u, <1>n DEF GameLinks, AnswerLink
  <2>5. QuotaLink(q)'
    <3>1. blocked'[q] \cup turn'[q].live = BoardBefore(sealed, k) \cup Placed(a)
      BY <1>b, <1>n, <1>u DEF SameData
    <3> QED
      BY <3>1, <1>l DEF QuotaLink
  <2> QED
    BY <2>1, <2>2, <2>3, <2>4, <2>5 DEF GameLinks
<1> QED
  BY <1>x, <1>y, <1>t DEF GameInv

(* Adopting a round preserves the game invariant: our action applied to    *)
(* the round's truth, merged with the peer's placement, is the game after  *)
(* that round in both logs, and the two answers are its two questions.     *)
LEMMA AdoptGame ==
  ASSUME GameInv, FairInv', NEW p \in Peer, Adopt(p)
  PROVE  GameInv'
<1> DEFINE q == Other(p)
<1> DEFINE k == step[p] + 1
<1> DEFINE a == sealed[p][k].action
<1> DEFINE e == sealed[q][k].action
<1> DEFINE hit == captured[p] \/ CaughtIn(turn[p])
<1> DEFINE over == Terminal(hit, k) # "NONE"
<1> DEFINE c == Landing(p, a)
<1> DEFINE b == Merged(p, a)
<1>t. /\ turn \in [Peer -> Turns] /\ DriverType /\ GameLinks(p) /\ GameLinks(q) /\ TypeInv
      /\ FairInv /\ witnessed \in [Peer -> Seq(Witness)] /\ witnessed[p] \in Seq(Witness)
      /\ q \in Peer /\ Other(q) = p /\ p # q /\ \A r \in Peer : r = p \/ r = q
      /\ step[p] \in Nat /\ step[q] \in Nat /\ turn[p] \in Turns
      /\ Len(sealed[p]) \in Nat /\ Len(sealed[q]) \in Nat
  BY GameFacts, PairFacts DEF GameInv
<1>p. /\ pc[p] = "awaitReveal" /\ turn[p].phase = "CONSUMED" /\ turn[p].cursor = k
      /\ Len(sealed[p]) = k /\ k <= Len(sealed[q]) /\ k \in Nat \ {0} /\ k - 1 = step[p]
      /\ turn[p].seen \in Witness /\ turn[p].seen # None /\ Shows(sealed, turn[p].seen, q, k)
      /\ turn[p].answered.accepted = TRUE /\ turn[p].answered.caught = Asked(sealed, p, k).caught
      /\ ~captured[p] /\ Len(witnessed[p]) = step[p] /\ Len(told[p]) = k
      /\ call[p] = None /\ k \in Rounds
  <2>1. pc[p] = "awaitReveal" /\ turn[p].phase = "CONSUMED"
    BY DEF Adopt
  <2>2. /\ turn[p].cursor = k /\ Len(sealed[p]) = k /\ turn[p].seen \in Witness
        /\ call[p] = None /\ turn[p].cursor \in Rounds
    BY <2>1, <1>t, PlayingFacts DEF TypeInv, RoundLink, RecordLink, PhaseLink, CallLink, Playing,
       Sealing, Calling
  <2>3. Shows(sealed, turn[p].seen, q, k) /\ turn[p].seen # None
    BY <2>2, <1>t, NoneFacts DEF GameLinks, ShownLink
  <2>4. /\ turn[p].answered.accepted = TRUE
        /\ turn[p].answered.caught = Asked(sealed, p, k).caught
    BY <2>1, <2>2, <1>t DEF GameLinks, AnswerLink
  <2>5. ~captured[p] /\ Len(witnessed[p]) = step[p] /\ Len(told[p]) = k
    BY <2>1, <1>t DEF GameLinks, TruthLink, ToldLink, Playing, FairInv, WitnessLink
  <2> QED
    BY <2>1, <2>2, <2>3, <2>4, <2>5, <1>t DEF Shows
<1>a. chosen[p].action = a
  BY <1>p, <1>t DEF GameLinks, PreparedLink
<1>g. /\ cell[p] = CellBefore(sealed, p, k) /\ blocked[p] = BoardBefore(sealed, k)
      /\ turn[p].live = BoardBefore(sealed, k) \cup Placed(e)
      /\ sealed[p][k].cell = CellBefore(sealed, p, k)
      /\ a \in Lawful(p, BoardBefore(sealed, k), CellBefore(sealed, p, k))
      /\ e \in Lawful(q, BoardBefore(sealed, k), CellBefore(sealed, q, k))
      /\ ~Hit(sealed, k - 1)
  <2>1. k \in 1 .. Len(sealed[p]) /\ k \in 1 .. Len(sealed[q])
    BY <1>p, <1>t
  <2>2. cell[p] = CellBefore(sealed, p, k) /\ blocked[p] = BoardBefore(sealed, k)
    BY <1>t DEF GameLinks, TruthLink
  <2>3. turn[p].live = BoardBefore(sealed, k) \cup Placed(e)
    BY <1>p, <1>t DEF GameLinks, BoundLink
  <2>4. /\ sealed[p][k].cell = CellBefore(sealed, p, k)
        /\ a \in Lawful(p, BoardBefore(sealed, k), CellBefore(sealed, p, k))
        /\ ~Hit(sealed, k - 1)
    BY <2>1, <1>t DEF GameLinks, LogLink
  <2>5. e \in Lawful(q, BoardBefore(sealed, k), CellBefore(sealed, q, k))
    BY <2>1, <1>t DEF GameLinks, LogLink
  <2> QED
    BY <2>2, <2>3, <2>4, <2>5
<1>s. /\ step' = [step EXCEPT ![p] = k]
      /\ cell' = [cell EXCEPT ![p] = c]
      /\ blocked' = [blocked EXCEPT ![p] = b]
      /\ captured' = [captured EXCEPT ![p] = hit]
      /\ turn' = IF over THEN turn ELSE [turn EXCEPT ![p] = FreshTurn(k, b, c)]
      /\ pc' = [pc EXCEPT ![p] = IF over THEN "nonces" ELSE "commit"]
      /\ witnessed' = [witnessed EXCEPT ![p] = Append(@, turn[p].seen)]
      /\ UNCHANGED <<chosen, evidence, call, reply>>
  BY <1>p, <1>a DEF Adopt
<1>b. b = BoardBefore(sealed, k + 1)
  <2>1. BoardBefore(sealed, k + 1) = BoardBefore(sealed, k) \cup Placed(a) \cup Placed(e)
    BY <1>p, BoardStep
  <2> QED
    BY <2>1, <1>g DEF Merged
<1>c. c = CellBefore(sealed, p, k + 1)
  <2>1. k + 1 # 1 /\ (k + 1) - 1 = k
    BY <1>p
  <2>2. CellBefore(sealed, p, k + 1) = CellAfter(sealed[p][k].cell, sealed[p][k].action)
    BY <2>1 DEF CellBefore
  <2> QED
    BY <2>2, <1>g DEF Landing
<1>h. hit <=> Hit(sealed, k)
  <2>1. Hit(sealed, k) <=> \/ Hit(sealed, k - 1) \/ Asked(sealed, p, k).caught
                           \/ Asked(sealed, q, k).caught
    BY <1>p, HitStep
  <2>2. turn[p].seen.row.caught = Asked(sealed, q, k).caught
    BY <1>p DEF Shows
  <2> QED
    BY <2>1, <2>2, <1>p, <1>g DEF CaughtIn
<1>o. ~over => ~hit
  BY DEF Terminal
<1>e. turn[p].live \subseteq b
  BY DEF Merged
<1>l. IsFiniteSet(b) /\ Cardinality(b) <= MaxBarriers
  <2> DEFINE S == BoardBefore(sealed, k)
  <2>1. blocked[p] \cup turn[p].live = S \cup Placed(e) /\ b = S \cup Placed(a) \cup Placed(e)
    BY <1>g DEF Merged
  <2>2. IsFiniteSet(S \cup Placed(e)) /\ Cardinality(S \cup Placed(e)) <= MaxBarriers
    BY <2>1, <1>t DEF GameLinks, QuotaLink
  <2>3. IsFiniteSet(S) /\ Cardinality(S) <= MaxBarriers
    <3>1. /\ IsFiniteSet(S) /\ Cardinality(S) <= Cardinality(S \cup Placed(e))
          /\ Cardinality(S) \in Nat /\ Cardinality(S \cup Placed(e)) \in Nat
      <4>1. S \in SUBSET (S \cup Placed(e))
        OBVIOUS
      <4>2. IsFiniteSet(S) /\ Cardinality(S) <= Cardinality(S \cup Placed(e))
        BY <4>1, <2>2, FS_Subset
      <4> QED
        BY <4>2, <2>2, FS_CardinalityType
    <3> QED
      BY <3>1, <2>2, BoardAssumption
  <2>4. CASE p = Police
    <3>1. Placed(e) = {}
      <4>1. e \in Lawful(q, S, CellBefore(sealed, q, k)) /\ q \in Peer /\ q # Police
        BY <2>4, <1>g, <1>t
      <4> QED
        BY <2>3, <4>1, LawfulPlaced
    <3>2. IsFiniteSet(S \cup Placed(a)) /\ Cardinality(S \cup Placed(a)) <= MaxBarriers
      BY <2>3, <1>g, LawfulPlaced
    <3>3. b = S \cup Placed(a)
      BY <2>1, <3>1
    <3> QED
      BY <3>2, <3>3
  <2>5. CASE p # Police
    <3>1. Placed(a) = {}
      BY <2>3, <2>5, <1>g, LawfulPlaced
    <3>2. b = S \cup Placed(e)
      BY <2>1, <3>1
    <3> QED
      BY <3>2, <2>2
  <2> QED
    BY <2>4, <2>5
<1> HIDE DEF a, e, hit, over, c, b
<1>u. /\ step'[p] = k /\ cell'[p] = c /\ blocked'[p] = b /\ captured'[p] = hit
      /\ sealed' = sealed /\ told' = told /\ chosen' = chosen /\ call' = call /\ reply' = reply
      /\ Untouched(q)
  BY <1>s, <1>t DEF DriverType, Untouched, SameData
<1>v. \/ /\ over /\ pc'[p] = "nonces" /\ turn' = turn
      \/ /\ ~over /\ pc'[p] = "commit"
         /\ turn'[p].cursor = k + 1 /\ turn'[p].seen = None /\ turn'[p].here = c
         /\ turn'[p].live = b /\ turn'[p].phase = "AWAITING_COMMITMENT"
  BY <1>s, <1>t DEF DriverType, FreshTurn, NewTurn
<1>w. /\ Len(witnessed'[p]) = k /\ witnessed'[p][k] = turn[p].seen
      /\ \A j \in 1 .. step[p] : witnessed'[p][j] = witnessed[p][j]
  BY <1>s, <1>t, <1>p
<1> HIDE DEF k, q
<1>x. GameLinks(q)'
  BY <1>t, <1>u, UntouchedPeer
<1>1. LogLink(p)'
  BY <1>t, <1>u DEF GameLinks, LogLink
<1>2. TruthLink(p)'
  <2>1. /\ step'[p] <= Len(sealed'[p]) /\ step'[p] <= Len(sealed'[q])
        /\ Len(sealed'[p]) <= step'[p] + 1
    BY <1>u, <1>p
  <2>2. pc'[p] \in {"idle"} \cup Playing => ~captured'[p]
    BY <1>u, <1>v, <1>o DEF Playing
  <2>3. captured'[p] <=> Hit(sealed', step'[p])
    BY <1>u, <1>h
  <2>4. cell'[p] = CellBefore(sealed', p, step'[p] + 1)
          /\ blocked'[p] = BoardBefore(sealed', step'[p] + 1)
    BY <1>u, <1>b, <1>c
  <2> QED
    BY <2>1, <2>2, <2>3, <2>4 DEF TruthLink, q
<1>3. BoundLink(p)'
  <2>1. CASE over
    BY <2>1, <1>v, <1>u, <1>p, <1>t DEF GameLinks, BoundLink
  <2>2. CASE ~over
    BY <2>2, <1>v, <1>u, <1>p, <1>b, <1>c DEF BoundLink, q
  <2> QED
    BY <2>1, <2>2
<1>4. PreparedLink(p)'
  BY <1>t, <1>u DEF GameLinks, PreparedLink
<1>5. ShownLink(p)'
  <2>1. ASSUME NEW j \in 1 .. Len(witnessed'[p])
        PROVE  Shows(sealed, witnessed'[p][j], Other(p), j)
    <3>1. j = k \/ j \in 1 .. step[p]
      BY <1>w, <1>p
    <3>2. CASE j = k
      BY <3>2, <1>w, <1>p DEF q
    <3>3. CASE j \in 1 .. step[p]
      BY <3>3, <1>w, <1>p, <1>t DEF GameLinks, ShownLink
    <3> QED
      BY <3>1, <3>2, <3>3
  <2>2. /\ turn'[p].phase # "CONSUMED" => turn'[p].seen = None
        /\ turn'[p].seen # None => Shows(sealed, turn'[p].seen, Other(p), turn'[p].cursor)
    BY <1>v, <1>p DEF q
  <2> QED
    BY <2>1, <2>2, <1>u DEF ShownLink, Shows
<1>6. AnswerLink(p)'
  BY <1>v DEF AnswerLink
<1>7. ToldLink(p)'
  BY <1>t, <1>u, <1>v, <1>p DEF GameLinks, ToldLink, Unanswered, Closing, Playing
<1>8. QuotaLink(p)'
  <2>1. blocked'[p] \cup turn'[p].live = b
    BY <1>u, <1>v, <1>e
  <2> QED
    BY <2>1, <1>l DEF QuotaLink
<1> QED
  BY <1>x, <1>t, <1>1, <1>2, <1>3, <1>4, <1>5, <1>6, <1>7, <1>8 DEF GameLinks, GameInv

(* Committing preserves the game invariant: the new record is sealed on    *)
(* the game after the rounds adopted, which no end event has closed, and   *)
(* leaves every earlier round of both logs as it was.                      *)
LEMMA SendCommitmentGame ==
  ASSUME GameInv, FairInv', NEW p \in Peer, SendCommitment(p)
  PROVE  GameInv'
<1> DEFINE q == Other(p)
<1> DEFINE k == step[p] + 1
<1>t. /\ turn \in [Peer -> Turns] /\ DriverType /\ GameLinks(p) /\ GameLinks(q) /\ TypeInv
      /\ FairInv /\ sealed \in [Peer -> Seq(Sealed)] /\ call \in [Peer -> Messages]
      /\ q \in Peer /\ Other(q) = p /\ p # q /\ \A r \in Peer : r = p \/ r = q
      /\ step[p] \in Nat /\ step[q] \in Nat /\ turn[p] \in Turns
      /\ Len(sealed[p]) \in Nat /\ Len(sealed[q]) \in Nat
      /\ sealed[p] \in Seq(Sealed) /\ turn[q].cursor \in Nat
  BY GameFacts, PairFacts DEF GameInv
<1>p. /\ pc[p] = "commit" /\ turn[p].cursor = k /\ Len(sealed[p]) = step[p]
      /\ turn[p].seen = None /\ k \in Nat \ {0} /\ k <= SurvivalThreshold /\ ~captured[p]
      /\ k - 1 = step[p] /\ step[p] <= Len(sealed[q])
      /\ turn[p].here = cell[p] /\ cell[p] = CellBefore(sealed, p, k)
      /\ blocked[p] = BoardBefore(sealed, k) /\ turn[p].live = BoardBefore(sealed, k)
      /\ ~Hit(sealed, step[p])
  <2>1. pc[p] = "commit"
    BY DEF SendCommitment
  <2>2. /\ turn[p].cursor = k /\ step[p] < SurvivalThreshold /\ turn[p].here = cell[p]
        /\ Len(sealed[p]) = step[p]
    BY <2>1, <1>t DEF TypeInv, RoundLink, RecordLink, Playing
  <2>3. turn[p].seen = None
    BY <2>2, <1>t DEF FairInv, SeenLink
  <2>4. /\ cell[p] = CellBefore(sealed, p, k) /\ blocked[p] = BoardBefore(sealed, k)
        /\ step[p] <= Len(sealed[q]) /\ ~captured[p] /\ ~Hit(sealed, step[p])
    BY <2>1, <1>t DEF GameLinks, TruthLink, Playing
  <2>5. turn[p].live = BoardBefore(sealed, k)
    BY <2>2, <2>3, <1>t DEF GameLinks, BoundLink
  <2> QED
    BY <2>1, <2>2, <2>3, <2>4, <2>5, <1>t, BoardAssumption
<1>a. PICK a \in Lawful(p, blocked[p], cell[p]) :
        LET record == [step |-> turn[p].cursor, cell |-> cell[p], blocked |-> blocked[p],
                       action |-> a]
        IN /\ chosen' = [chosen EXCEPT ![p] =
                [kind |-> "prepared", action |-> a,
                 scent |-> EmissionOf(turn[p].live, turn[p].here, a)]]
           /\ sealed' = [sealed EXCEPT ![p] = Append(@, record)]
           /\ turn' = [turn EXCEPT ![p].ours = record]
           /\ Send(p, [kind |-> "commitment", cursor |-> record.step, digest |-> record],
                   "commitSent")
  BY DEF SendCommitment
<1> DEFINE record == [step |-> turn[p].cursor, cell |-> cell[p], blocked |-> blocked[p],
                      action |-> a]
<1>s. /\ UNCHANGED <<cell, blocked, step, captured, told, witnessed, reply>>
      /\ chosen'[p].action = a /\ chosen'[p].scent = EmissionOf(turn[p].live, turn[p].here, a)
      /\ chosen'[q] = chosen[q] /\ turn'[q] = turn[q] /\ pc'[p] = "commitSent" /\ pc'[q] = pc[q]
      /\ call'[p].kind = "commitment" /\ call'[q] = call[q]
      /\ turn'[p].cursor = turn[p].cursor /\ turn'[p].here = turn[p].here
      /\ turn'[p].live = turn[p].live /\ turn'[p].seen = turn[p].seen
      /\ turn'[p].phase = turn[p].phase
  BY <1>a, <1>t DEF SendCommitment, Send, DriverType, Turns
<1>l. sealed' = [sealed EXCEPT ![p] = Append(@, record)]
  BY <1>a
<1>r. record.cell = cell[p] /\ record.blocked = blocked[p] /\ record.action = a
  OBVIOUS
<1> HIDE DEF record
<1>m. /\ Len(sealed'[p]) = k /\ sealed'[p][k] = record /\ sealed'[q] = sealed[q]
      /\ \A j \in 1 .. step[p] : sealed'[p][j] = sealed[p][j]
  BY <1>l, <1>p, <1>t
<1> HIDE DEF k
(* What the earlier records determine, they still determine.               *)
<1>e. ASSUME NEW r \in Peer, NEW j \in 1 .. step[p] PROVE sealed'[r][j] = sealed[r][j]
  <2>1. CASE r = p
    BY <2>1, <1>m
  <2>2. CASE r = q
    BY <2>2, <1>m
  <2> QED
    BY <2>1, <2>2, <1>t
<1>1. ASSUME NEW r \in Peer, NEW j \in Nat \ {0}, j - 1 <= step[p]
      PROVE  /\ BoardBefore(sealed', j) = BoardBefore(sealed, j)
             /\ CellBefore(sealed', r, j) = CellBefore(sealed, r, j)
             /\ Hit(sealed', j - 1) <=> Hit(sealed, j - 1)
  <2>1. ASSUME NEW x \in Peer, NEW i \in 1 .. (j - 1) PROVE sealed'[x][i] = sealed[x][i]
    BY <1>1, <1>e, <1>t
  <2>2. BoardBefore(sealed', j) = BoardBefore(sealed, j)
    BY <2>1, SameBoard
  <2>3. CellBefore(sealed', r, j) = CellBefore(sealed, r, j)
    BY <2>1, SameStart
  <2>4. Hit(sealed', j - 1) <=> Hit(sealed, j - 1)
    <3>1. j - 1 \in Nat
      OBVIOUS
    <3> QED
      BY <2>1, <3>1, SameHit
  <2> QED
    BY <2>2, <2>3, <2>4
<1>2. ASSUME NEW r \in Peer, NEW j \in 1 .. Len(sealed[r])
      PROVE  /\ j \in Nat \ {0} /\ j - 1 <= step[p] /\ sealed'[r][j] = sealed[r][j]
             /\ Asked(sealed', r, j) = Asked(sealed, r, j)
  <2>1. j \in Nat \ {0} /\ j - 1 <= step[p]
    <3>1. Len(sealed[q]) <= Len(sealed[p]) + 1
      BY <1>t DEF GameLinks, LogLink
    <3> QED
      BY <3>1, <1>p, <1>t
  <2>2. sealed'[r][j] = sealed[r][j]
    <3>1. CASE r = p
      BY <3>1, <1>m, <1>p
    <3>2. CASE r = q
      BY <3>2, <1>m
    <3> QED
      BY <3>1, <3>2, <1>t
  <2>3. Asked(sealed', r, j) = Asked(sealed, r, j)
    <3>1. ASSUME NEW x \in Peer, NEW i \in 1 .. (j - 1) PROVE sealed'[x][i] = sealed[x][i]
      BY <2>1, <1>e, <1>t
    <3> QED
      BY <3>1, <2>1, <2>2, SameAsked
  <2> QED
    BY <2>1, <2>2, <2>3
<1>3. ASSUME NEW r \in Peer, NEW w, NEW j \in Nat \ {0}, Shows(sealed, w, r, j)
      PROVE  Shows(sealed', w, r, j)
  <2>1. j \in 1 .. Len(sealed[r])
    BY <1>3, <1>t DEF Shows
  <2>2. Len(sealed[r]) <= Len(sealed'[r])
    <3>1. CASE r = p
      BY <3>1, <1>m, <1>p, <1>t DEF k
    <3>2. CASE r = q
      BY <3>2, <1>m, <1>t
    <3> QED
      BY <3>1, <3>2, <1>t
  <2>3. Len(sealed'[r]) \in Nat
    BY <1>m, <1>p, <1>t DEF k
  <2> QED
    BY <2>1, <2>2, <2>3, <1>2, <1>3, <1>t DEF Shows
<1>o. Other(p) = q /\ Other(q) = p /\ q \in Peer /\ p # q
  BY <1>t
<1>g. ASSUME NEW r \in Peer
      PROVE  /\ Len(sealed[r]) <= Len(sealed'[r]) /\ Len(sealed'[r]) \in Nat
             /\ Len(sealed[r]) \in Nat
  <2>1. CASE r = p
    BY <2>1, <1>m, <1>p, <1>t DEF k
  <2>2. CASE r = q
    BY <2>2, <1>m, <1>t
  <2> QED
    BY <2>1, <2>2, <1>t
<1> HIDE DEF q
<1>5. ASSUME NEW r \in Peer PROVE LogLink(r)'
  <2>1. Len(sealed'[r]) <= Len(sealed'[Other(r)]) + 1
    <3>1. Len(sealed[q]) <= Len(sealed[p]) + 1 /\ Len(sealed[p]) <= Len(sealed[q]) + 1
      BY <1>t, <1>o DEF GameLinks, LogLink
    <3>2. Len(sealed'[p]) = Len(sealed[p]) + 1 /\ Len(sealed'[q]) = Len(sealed[q])
      BY <1>m, <1>p DEF k
    <3>3. Len(sealed'[p]) <= Len(sealed'[q]) + 1 /\ Len(sealed'[q]) <= Len(sealed'[p]) + 1
      BY <3>1, <3>2, <1>p, <1>g, <1>o
    <3> QED
      BY <3>3, <1>o, <1>t
  <2>2. ASSUME NEW j \in 1 .. Len(sealed'[r])
        PROVE  /\ sealed'[r][j].cell = CellBefore(sealed', r, j)
               /\ sealed'[r][j].blocked = BoardBefore(sealed', j)
               /\ sealed'[r][j].action \in Lawful(r, BoardBefore(sealed', j),
                                                  CellBefore(sealed', r, j))
               /\ j <= SurvivalThreshold /\ ~Hit(sealed', j - 1)
    <3>1. CASE j \in 1 .. Len(sealed[r])
      <4>1. /\ sealed[r][j].cell = CellBefore(sealed, r, j)
            /\ sealed[r][j].blocked = BoardBefore(sealed, j)
            /\ sealed[r][j].action \in Lawful(r, BoardBefore(sealed, j), CellBefore(sealed, r, j))
            /\ j <= SurvivalThreshold /\ ~Hit(sealed, j - 1)
        <5>1. GameLinks(r)
          BY GameFacts
        <5> QED
          BY <3>1, <5>1 DEF GameLinks, LogLink
      <4>2. j \in Nat \ {0} /\ j - 1 <= step[p] /\ sealed'[r][j] = sealed[r][j]
        BY <3>1, <1>2
      <4> QED
        BY <4>1, <4>2, <1>1
    <3>2. CASE j \notin 1 .. Len(sealed[r])
      <4>1. r = p /\ j = k
        BY <3>2, <1>m, <1>p, <1>t DEF q, k
      <4>2. /\ BoardBefore(sealed', k) = BoardBefore(sealed, k)
            /\ CellBefore(sealed', p, k) = CellBefore(sealed, p, k)
            /\ Hit(sealed', k - 1) <=> Hit(sealed, k - 1)
        BY <1>1, <1>p, <1>t
      <4> QED
        BY <4>1, <4>2, <1>m, <1>r, <1>p, <1>a
    <3> QED
      BY <3>1, <3>2
  <2> QED
    BY <2>1, <2>2 DEF LogLink
<1>6. ASSUME NEW r \in Peer PROVE TruthLink(r)'
  <2>1. GameLinks(r) /\ step[r] \in Nat /\ Other(r) \in Peer
    BY GameFacts
  <2>3. step[r] + 1 \in Nat \ {0} /\ (step[r] + 1) - 1 <= step[p] /\ (step[r] + 1) - 1 = step[r]
    <3>1. step[q] <= step[p]
      BY <1>t, <1>o, <1>p DEF GameLinks, TruthLink
    <3>2. step[p] \in Nat /\ step[r] \in Nat
      BY <1>t, <2>1
    <3>3. step[r] <= step[p]
      <4>1. CASE r = p
        BY <3>2, <4>1
      <4>2. CASE r = q
        BY <3>1, <4>2
      <4> QED
        BY <4>1, <4>2, <1>t
    <3> QED
      BY <3>2, <3>3
  <2>4. /\ BoardBefore(sealed', step[r] + 1) = BoardBefore(sealed, step[r] + 1)
        /\ CellBefore(sealed', r, step[r] + 1) = CellBefore(sealed, r, step[r] + 1)
        /\ Hit(sealed', step[r]) <=> Hit(sealed, step[r])
    BY <2>3, <1>1
  <2>5. /\ step[r] <= Len(sealed'[r]) /\ step[r] <= Len(sealed'[Other(r)])
        /\ Len(sealed'[r]) <= step[r] + 1
    <3>1. /\ step[r] <= Len(sealed[r]) /\ step[r] <= Len(sealed[Other(r)])
          /\ Len(sealed[r]) <= step[r] + 1
      BY <2>1 DEF GameLinks, TruthLink
    <3>2. step[r] <= Len(sealed'[r]) /\ step[r] <= Len(sealed'[Other(r)])
      BY <3>1, <2>1, <1>g
    <3>3. Len(sealed'[r]) <= step[r] + 1
      <4>1. CASE r = p
        BY <4>1, <1>m DEF k
      <4>2. CASE r = q
        BY <4>2, <3>1, <1>m
      <4> QED
        BY <4>1, <4>2, <1>t
    <3> QED
      BY <3>2, <3>3
  <2>6. pc'[r] \in {"idle"} \cup Playing => ~captured'[r]
    <3>1. CASE r = p
      BY <3>1, <1>p, <1>s
    <3>2. CASE r = q
      BY <3>2, <1>s, <2>1 DEF GameLinks, TruthLink
    <3> QED
      BY <3>1, <3>2, <1>t
  <2> QED
    BY <2>1, <2>4, <2>5, <2>6, <1>s DEF GameLinks, TruthLink
<1>7. ASSUME NEW r \in Peer PROVE BoundLink(r)'
  <2>1. GameLinks(r) /\ turn[r].cursor \in Nat /\ Other(r) \in Peer /\ BoundLink(r)
    BY GameFacts DEF GameLinks
  <2>2. turn[r].cursor # 0 => turn[r].cursor - 1 <= step[p]
    <3>1. turn[q].cursor # 0 => turn[q].cursor <= step[p] + 1
      BY <1>t, <1>o, <1>p DEF GameLinks, BoundLink
    <3>2. turn[p].cursor <= step[p] + 1
      BY <1>p, <1>t DEF k
    <3>3. turn[r].cursor # 0 => turn[r].cursor <= step[p] + 1
      BY <3>1, <3>2, <1>t
    <3> QED
      BY <3>3, <2>1, <1>t
  <2>3. turn[r].cursor # 0 =>
          /\ BoardBefore(sealed', turn[r].cursor) = BoardBefore(sealed, turn[r].cursor)
          /\ CellBefore(sealed', r, turn[r].cursor) = CellBefore(sealed, r, turn[r].cursor)
    BY <2>1, <2>2, <1>1
  <2>4. turn[r].cursor # 0 => turn[r].cursor <= Len(sealed'[Other(r)]) + 1
    <3>1. /\ Len(sealed[Other(r)]) <= Len(sealed'[Other(r)])
          /\ Len(sealed'[Other(r)]) \in Nat /\ Len(sealed[Other(r)]) \in Nat
      BY <1>g, <2>1
    <3> QED
      BY <3>1, <2>1 DEF BoundLink
  <2>5. turn[r].seen # None /\ turn[r].cursor # 0 =>
          sealed'[Other(r)][turn[r].cursor] = sealed[Other(r)][turn[r].cursor]
    <3> SUFFICES ASSUME turn[r].seen # None, turn[r].cursor # 0
                 PROVE  sealed'[Other(r)][turn[r].cursor] = sealed[Other(r)][turn[r].cursor]
      OBVIOUS
    <3>1. turn[r].cursor <= Len(sealed[Other(r)]) /\ Len(sealed[Other(r)]) \in Nat
      BY <2>1, <1>t, GameFacts DEF GameLinks, ShownLink, Shows
    <3> QED
      BY <3>1, <2>1, <1>2
  <2>6. /\ turn'[r].cursor = turn[r].cursor /\ turn'[r].here = turn[r].here
        /\ turn'[r].live = turn[r].live /\ turn'[r].seen = turn[r].seen
    <3>1. CASE r = p
      BY <3>1, <1>s
    <3>2. CASE r = q
      BY <3>2, <1>s
    <3> QED
      BY <3>1, <3>2, <1>t
  <2> QED
    BY <2>1, <2>3, <2>4, <2>5, <2>6, <1>s DEF BoundLink
<1>8. PreparedLink(p)'
  <2>1. Asked(sealed', p, k).scent = EmissionOf(BoardBefore(sealed', k), CellBefore(sealed', p, k),
                                                record.action)
    BY <1>m DEF Asked
  <2>2. /\ BoardBefore(sealed', k) = BoardBefore(sealed, k)
        /\ CellBefore(sealed', p, k) = CellBefore(sealed, p, k)
    BY <1>1, <1>p, <1>t
  <2> QED
    BY <2>1, <2>2, <1>m, <1>r, <1>p, <1>s DEF PreparedLink
<1>9. PreparedLink(q)'
  <2>1. Len(sealed[q]) # 0 => Asked(sealed', q, Len(sealed[q])) = Asked(sealed, q, Len(sealed[q]))
    BY <1>2, <1>t
  <2> QED
    BY <2>1, <1>m, <1>s, <1>t DEF GameLinks, PreparedLink
<1>10. ASSUME NEW r \in Peer PROVE ShownLink(r)'
  <2>1. GameLinks(r) /\ Other(r) \in Peer /\ Len(witnessed[r]) \in Nat /\ turn[r].cursor \in Nat
    BY GameFacts
  <2>2. turn'[r].cursor = turn[r].cursor /\ turn'[r].seen = turn[r].seen
          /\ turn'[r].phase = turn[r].phase
    <3>1. CASE r = p
      BY <3>1, <1>s
    <3>2. CASE r = q
      BY <3>2, <1>s
    <3> QED
      BY <3>1, <3>2, <1>t
  <2>3. turn[r].seen # None => turn[r].cursor # 0
    BY <1>t DEF FairInv, SeenLink, Rounds
  <2>4. turn[r].seen # None => Shows(sealed', turn[r].seen, Other(r), turn[r].cursor)
    BY <2>1, <2>3, <1>3 DEF GameLinks, ShownLink
  <2>5. ASSUME NEW j \in 1 .. Len(witnessed[r])
        PROVE  Shows(sealed', witnessed[r][j], Other(r), j)
    BY <2>1, <1>3 DEF GameLinks, ShownLink
  <2> QED
    BY <2>1, <2>2, <2>4, <2>5, <1>s DEF GameLinks, ShownLink
<1>11. ASSUME NEW r \in Peer PROVE AnswerLink(r)'
  <2>1. CASE r = p
    BY <2>1, <1>s DEF AnswerLink
  <2>2. CASE r = q /\ pc[q] \in {"revealSent", "awaitReveal"}
    <3>1. turn[q].cursor = step[q] + 1 /\ Len(sealed[q]) = step[q] + 1
      BY <2>2, <1>t DEF TypeInv, RoundLink, RecordLink, Playing, Sealing
    <3>2. Asked(sealed', q, turn[q].cursor) = Asked(sealed, q, turn[q].cursor)
      BY <3>1, <1>2, <1>t
    <3> QED
      BY <2>2, <3>2, <1>s, <1>t DEF GameLinks, AnswerLink
  <2>3. CASE r = q /\ pc[q] \notin {"revealSent", "awaitReveal"}
    BY <2>3, <1>s DEF AnswerLink
  <2> QED
    BY <2>1, <2>2, <2>3, <1>t
<1>12. ASSUME NEW r \in Peer PROVE ToldLink(r)'
  <2>1. ToldLink(r) /\ Len(told[r]) \in Nat /\ Len(sealed[r]) \in Nat
    BY GameFacts DEF GameLinks
  <2>2. ASSUME NEW j \in 1 .. Len(told[r])
        PROVE  j <= Len(sealed'[r]) /\ told[r][j] = Asked(sealed', r, j)
    <3>1. j \in 1 .. Len(sealed[r]) /\ told[r][j] = Asked(sealed, r, j)
      BY <2>1 DEF ToldLink
    <3>2. Len(sealed[r]) <= Len(sealed'[r]) /\ Len(sealed'[r]) \in Nat
      BY <1>g
    <3> QED
      BY <3>1, <3>2, <2>1, <1>2
  <2>3. CASE r = p
    BY <2>1, <2>2, <2>3, <1>s, <1>p DEF ToldLink, Unanswered, Closing, Playing
  <2>4. CASE r = q
    BY <2>1, <2>2, <2>4, <1>s DEF ToldLink
  <2> QED
    BY <2>3, <2>4, <1>t
<1>13. ASSUME NEW r \in Peer PROVE QuotaLink(r)'
  <2>1. QuotaLink(r)
    BY GameFacts DEF GameLinks
  <2>2. turn'[r].live = turn[r].live
    BY <1>s, <1>t
  <2> QED
    BY <2>1, <2>2, <1>s DEF QuotaLink
<1> QED
  BY <1>5, <1>6, <1>7, <1>8, <1>9, <1>10, <1>11, <1>12, <1>13, <1>t DEF GameInv, GameLinks

(* The game invariant holds in the initial state.                          *)
LEMMA GameInit == Init => GameInv
<1> SUFFICES ASSUME Init PROVE GameInv
  OBVIOUS
<1>1. FairInv
  BY FairInit
<1>2. ASSUME NEW p \in Peer
      PROVE  /\ pc[p] = "idle" /\ turn[p] = Unbound /\ call[p] = None /\ reply[p] = None
             /\ step[p] = 0 /\ sealed[p] = <<>> /\ witnessed[p] = <<>> /\ told[p] = <<>>
             /\ cell[p] = StartCell[p] /\ blocked[p] = {} /\ ~captured[p]
  BY DEF Init
<1>3. /\ Unbound.cursor = 0 /\ Unbound.seen = None /\ Unbound.live = {}
      /\ Unbound.phase = "UNBOUND"
  BY DEF Unbound, NewTurn
<1>4. ASSUME NEW p \in Peer PROVE GameLinks(p)
  <2>0. Other(p) \in Peer /\ None.kind = "none"
    BY PairFacts DEF None
  <2>1. LogLink(p) /\ BoundLink(p) /\ PreparedLink(p) /\ ShownLink(p) /\ AnswerLink(p)
    BY <1>2, <1>3, <2>0 DEF LogLink, BoundLink, PreparedLink, ShownLink, AnswerLink
  <2>2. TruthLink(p)
    <3>1. /\ Len(sealed[p]) = 0 /\ Len(sealed[Other(p)]) = 0 /\ step[p] = 0
          /\ step[p] + 1 = 1 /\ ~captured[p]
      BY <1>2, <2>0
    <3>2. cell[p] = CellBefore(sealed, p, 1) /\ blocked[p] = BoardBefore(sealed, 1)
      BY <1>2, FirstRound
    <3>3. ~Hit(sealed, 0)
      BY FirstRound
    <3> QED
      BY <3>1, <3>2, <3>3 DEF TruthLink
  <2>3. ToldLink(p)
    BY <1>2 DEF ToldLink, Unanswered, Closing, Playing
  <2>4. QuotaLink(p)
    <3>1. blocked[p] \cup turn[p].live = {}
      BY <1>2, <1>3
    <3> QED
      BY <3>1, FS_EmptySet, BoardAssumption DEF QuotaLink
  <2> QED
    BY <2>1, <2>2, <2>3, <2>4 DEF GameLinks
<1> QED
  BY <1>1, <1>4 DEF GameInv

(* A stuttering step preserves the game invariant.                         *)
LEMMA GameStutter == ASSUME GameInv, FairInv', UNCHANGED vars PROVE GameInv'
  BY QuietGame DEF GameData, SameGround, SameReveal, SameSide

(* The game invariant is inductive.                                        *)
LEMMA GameNext == GameInv /\ [Next]_vars => GameInv'
<1> SUFFICES ASSUME GameInv, [Next]_vars PROVE GameInv'
  OBVIOUS
<1>0. FairInv'
  BY FairNext DEF GameInv
<1>1. CASE UNCHANGED vars
  BY <1>0, <1>1, GameStutter
<1>2. ASSUME NEW p \in Peer, Drive(p) \/ Serve(p) \/ Fault(p) PROVE GameInv'
  <2>1. CASE Aside(p)
    BY <1>0, <2>1, AsideGame
  <2>2. CASE Launch(p) \/ SendCommitment(p) \/ Answered(p) \/ Adopt(p) \/ AcceptReveal(p)
    BY <1>0, <2>2, LaunchGame, SendCommitmentGame, AnsweredGame, AdoptGame, AcceptRevealGame
  <2> QED
    BY <1>2, <2>1, <2>2 DEF Drive, Serve, Aside
<1>3. CASE Finished
  BY <1>0, <1>3, GameStutter DEF Finished
<1> QED
  BY <1>1, <1>2, <1>3 DEF Next

(* It implies that the two copies agree: both are read off the same logs,  *)
(* and nobody seals a record past an end event.                            *)
LEMMA GameImplies == GameInv => CopiesAgree
<1> SUFFICES ASSUME GameInv PROVE CopiesAgree
  OBVIOUS
<1>t. /\ Police \in Peer /\ Thief \in Peer
      /\ \A p \in Peer : /\ GameLinks(p) /\ GameLinks(Other(p)) /\ Other(p) \in Peer
                         /\ Other(Other(p)) = p /\ step[p] \in Nat /\ Len(sealed[p]) \in Nat
                         /\ captured[p] \in BOOLEAN
  BY GameFacts DEF Peer, DriverType
<1>1. BoardsAgree
  <2>1. step[Police] = step[Thief] => blocked[Police] = blocked[Thief]
    BY <1>t DEF GameLinks, TruthLink
  <2>2. ASSUME NEW k \in Rounds, k <= Len(sealed[Police]), k <= Len(sealed[Thief])
        PROVE  sealed[Police][k].blocked = sealed[Thief][k].blocked
    <3>1. k \in 1 .. Len(sealed[Police]) /\ k \in 1 .. Len(sealed[Thief])
      BY <2>2, <1>t DEF Rounds
    <3> QED
      BY <3>1, <1>t DEF GameLinks, LogLink
  <2> QED
    BY <2>1, <2>2, <1>t DEF BoardsAgree, GameLinks, QuotaLink
<1>2. OutcomeAgreement
  <2>1. step[Police] = step[Thief] => captured[Police] = captured[Thief]
    BY <1>t DEF GameLinks, TruthLink
  <2>2. ASSUME NEW p \in Peer, Over(p)
        PROVE  step[Other(p)] <= step[p] /\ Len(sealed[Other(p)]) <= step[p]
    <3>1. Hit(sealed, step[p]) \/ step[p] >= SurvivalThreshold
      BY <2>2, <1>t DEF Over, Terminal, GameLinks, TruthLink
    <3>2. Len(sealed[Other(p)]) <= step[p]
      <4> SUFFICES ASSUME ~(Len(sealed[Other(p)]) <= step[p]) PROVE FALSE
        OBVIOUS
      <4>1. step[p] + 1 \in 1 .. Len(sealed[Other(p)]) /\ (step[p] + 1) - 1 = step[p]
        BY <1>t
      <4>2. step[p] + 1 <= SurvivalThreshold /\ ~Hit(sealed, step[p])
        BY <4>1, <1>t DEF GameLinks, LogLink
      <4> QED
        BY <3>1, <4>2, <1>t, BoardAssumption
    <3>3. step[Other(p)] <= Len(sealed[Other(p)])
      BY <1>t DEF GameLinks, TruthLink
    <3> QED
      BY <3>2, <3>3, <1>t
  <2> QED
    BY <2>1, <2>2 DEF OutcomeAgreement
<1> QED
  BY <1>1, <1>2 DEF CopiesAgree

(* On every board, threshold and quota, whatever is lost, delayed or       *)
(* crashes: peers at the same count hold the same public board and the     *)
(* same capture flag, every round was sealed by both over one start board, *)
(* the quota both check independently is kept by the union of their        *)
(* boards, and nobody seals a round past the end the other one reached     *)
(* (`merged_truth`, `caught_in`, `settled`).                               *)
THEOREM CopiesAlwaysAgree == Spec => []CopiesAgree
<1>1. Init => GameInv
  BY GameInit
<1>2. GameInv /\ [Next]_vars => GameInv'
  BY GameNext
<1>3. GameInv => CopiesAgree
  BY GameImplies
<1> QED
  BY <1>1, <1>2, <1>3, PTL DEF Spec


-----------------------------------------------------------------------------
(* Honest play audits clean. What is disclosed is the log itself, so every *)
(* witness opens, and the replay of both logs meets the links above.       *)
Ending == {"disclosureSent", "awaitAudit", "closed", "failed"}

AuditLink(p) ==
  /\ pc[p] = "idle" => auPhase[p] = "UNBOUND"
  /\ call[p].kind = "disclosure" => call[p].log = sealed[p] /\ pc[p] = "disclosureSent"
  /\ auPhase[p] # "COMPLETE" => verdict[p] = "NONE" /\ pc[p] # "closed"
  /\ auPhase[p] = "COMPLETE" => /\ verdict[p] = "VERIFIED_OK" /\ disclosed[p] = sealed[Other(p)]
                                /\ Len(sealed[Other(p)]) = Len(witnessed[p])
                                /\ pc[Other(p)] \in Ending
  /\ finding[p] = IF pc[p] = "closed" THEN "CONSISTENT" ELSE "NONE"

AuditInv == GameInv /\ \A p \in Peer : AuditLink(p)

(* A step that leaves the audit of r alone.                                *)
SameAudit(r) ==
  /\ verdict'[r] = verdict[r] /\ finding'[r] = finding[r] /\ disclosed'[r] = disclosed[r]
  /\ pc'[r] = "idle" => pc[r] = "idle" /\ auPhase'[r] = auPhase[r]
  /\ auPhase'[r] = "COMPLETE" <=> auPhase[r] = "COMPLETE"
  /\ auPhase[r] = "COMPLETE" => witnessed'[r] = witnessed[r]
  /\ pc'[r] = "closed" <=> pc[r] = "closed"
  /\ pc[r] \in Ending => pc'[r] \in Ending /\ sealed'[r] = sealed[r]
  /\ call'[r].kind = "disclosure" => call'[r] = call[r] /\ pc'[r] = pc[r]

LEMMA QuietAudit ==
  ASSUME AuditInv, GameInv', \A r \in Peer : SameAudit(r)
  PROVE  AuditInv'
<1> SUFFICES ASSUME NEW r \in Peer PROVE AuditLink(r)'
  BY DEF AuditInv
<1>1. AuditLink(r) /\ Other(r) \in Peer /\ SameAudit(r) /\ SameAudit(Other(r))
  BY PairFacts DEF AuditInv
<1> QED
  BY <1>1 DEF AuditLink, SameAudit, Ending

(* The types the audit proofs need.                                        *)
LEMMA AuditFacts ==
  ASSUME AuditInv
  PROVE  /\ GameInv /\ TypeInv /\ FairInv
         /\ pc \in [Peer -> Ready \cup Calling \cup Suspended \cup Final]
         /\ call \in [Peer -> Messages] /\ sealed \in [Peer -> Seq(Sealed)]
         /\ auPhase \in [Peer -> {"UNBOUND", "AWAITING_NONCES", "AWAITING_DISCLOSURE", "COMPLETE"}]
         /\ verdict \in [Peer -> {"NONE", "VERIFIED_OK", "TAMPERED"}]
         /\ finding \in [Peer -> {"NONE", "CONSISTENT", "VIOLATION"}]
         /\ disclosed \in [Peer -> Seq(Sealed)] /\ witnessed \in [Peer -> Seq(Witness)]
         /\ None.kind = "none"
         /\ \A r \in Peer : /\ AuditLink(r) /\ Other(r) \in Peer /\ Other(Other(r)) = r
                            /\ Other(r) # r /\ GameLinks(r)
                            /\ (\A s \in Peer : s = r \/ s = Other(r))
  BY PairFacts
     DEF AuditInv, GameInv, FairInv, TypeInv, TypeOK, DriverType, AuditType, EvidenceType,
         NetworkType, None

(* Every action but the disclosure, its receipt and the review leaves the  *)
(* audit alone.                                                            *)
LEMMA PlayAudit ==
  ASSUME AuditInv, GameInv', NEW p \in Peer,
         \/ Launch(p) \/ SendCommitment(p) \/ Cornered(p) \/ SendAcknowledgement(p)
         \/ SendReveal(p) \/ Answered(p) \/ Refused(p) \/ Adopt(p) \/ SendNonces(p)
         \/ AcceptCommitment(p) \/ AcceptAcknowledgement(p) \/ AcceptReveal(p)
         \/ AcceptNonces(p) \/ Refuse(p) \/ Fault(p)
  PROVE  AuditInv'
<1>t. /\ pc \in [Peer -> Ready \cup Calling \cup Suspended \cup Final]
      /\ call \in [Peer -> Messages] /\ sealed \in [Peer -> Seq(Sealed)]
      /\ auPhase \in [Peer -> {"UNBOUND", "AWAITING_NONCES", "AWAITING_DISCLOSURE", "COMPLETE"}]
      /\ witnessed \in [Peer -> Seq(Witness)] /\ None.kind = "none"
      /\ TypeInv
  BY AuditFacts
<1>l. \A r \in Peer : AuditLink(r) /\ Other(r) \in Peer /\ CallLink(r)
  BY AuditFacts DEF TypeInv
<1> SUFFICES ASSUME NEW r \in Peer PROVE SameAudit(r)
  BY QuietAudit
<1>r. AuditLink(r) /\ CallLink(r)
  BY <1>l
<1>1. CASE Launch(p)
  BY <1>1, <1>t, <1>l, <1>r DEF Launch, SameAudit, AuditLink, CallLink, Ending, Calling
<1>2. CASE SendCommitment(p)
  BY <1>2, <1>t, <1>r DEF SendCommitment, Send, SameAudit, Ending
<1>3. CASE Cornered(p)
  BY <1>3, <1>t, <1>l, <1>r DEF Cornered, SameAudit, CallLink, Ending, Calling
<1>4. CASE SendAcknowledgement(p) \/ SendReveal(p) \/ SendNonces(p)
  BY <1>4, <1>t, <1>r DEF SendAcknowledgement, SendReveal, SendNonces, Send, SameAudit, Ending
<1>5. CASE Answered(p)
  <2>1. pc[p] \in Calling /\ call[p] = None
    BY <1>5, <1>t, <1>l DEF Answered, CallLink, None
  <2> QED
    BY <2>1, <1>5, <1>t DEF Answered, AfterCall, SameAudit, Ending, Calling
<1>6. CASE Refused(p)
  <2>1. pc[p] \in Calling /\ call[p] = None
    BY <1>6, <1>t, <1>l DEF Refused, CallLink, None
  <2> QED
    BY <2>1, <1>6, <1>t DEF Refused, SameAudit, Ending, Calling
<1>7. CASE Adopt(p)
  <2>1. pc[p] = "awaitReveal" /\ call[p] = None
    BY <1>7, <1>l DEF Adopt, CallLink, Calling
  <2>2. auPhase[p] # "COMPLETE"
    <3>1. /\ Len(witnessed[p]) = step[p] /\ Len(witnessed[p]) \in Nat
          /\ step[p] + 1 <= Len(sealed[Other(p)])
      <4>1. turn[p].phase = "CONSUMED" /\ turn[p].cursor = step[p] + 1 /\ turn[p].seen \in Witness
        BY <1>7, <2>1, <1>t DEF Adopt, TypeInv, PhaseLink, RoundLink, Playing
      <4>2. Shows(sealed, turn[p].seen, Other(p), turn[p].cursor)
        BY <4>1, NoneFacts, AuditFacts DEF GameLinks, ShownLink
      <4> QED
        BY <2>1, <4>1, <4>2, <1>t, AuditFacts DEF Shows, FairInv, WitnessLink, Playing
    <3> QED
      BY <3>1, <1>l DEF AuditLink
  <2> QED
    BY <1>7, <2>1, <2>2, <1>t DEF Adopt, SameAudit, Ending
<1>8. CASE AcceptCommitment(p) \/ AcceptAcknowledgement(p) \/ AcceptReveal(p) \/ Refuse(p)
  BY <1>8, <1>t DEF AcceptCommitment, AcceptAcknowledgement, AcceptReveal, Refuse, Answer,
     SameAudit
<1>9. CASE AcceptNonces(p)
  BY <1>9, <1>t, <1>l DEF AcceptNonces, Receive, Admits, Answer, SameAudit, AuditLink
<1>10. CASE Fault(p)
  <2>1. CASE LoseCall(p) \/ LoseReply(p)
    BY <2>1, <1>t DEF LoseCall, LoseReply, Answer, SameAudit
  <2>2. CASE Timeout(p)
    BY <2>2, <1>t, <1>l DEF Timeout, SameAudit, CallLink, Ending, Suspended, Calling
  <2>3. CASE Crash(p)
    BY <2>3, <1>t DEF Crash, SameAudit, Ending, Final
  <2> QED
    BY <1>10, <2>1, <2>2, <2>3 DEF Fault
<1> QED
  BY <1>1, <1>2, <1>3, <1>4, <1>5, <1>6, <1>7, <1>8, <1>9, <1>10

(* Disclosing preserves the audit invariant: the log sent is the log kept. *)
LEMMA SendDisclosureAudit ==
  ASSUME AuditInv, GameInv', NEW p \in Peer, SendDisclosure(p)
  PROVE  AuditInv'
<1>t. /\ pc \in [Peer -> Ready \cup Calling \cup Suspended \cup Final]
      /\ call \in [Peer -> Messages]
      /\ \A r \in Peer : AuditLink(r) /\ Other(r) \in Peer
  BY AuditFacts
<1> SUFFICES ASSUME NEW r \in Peer PROVE AuditLink(r)'
  BY DEF AuditInv
<1>1. AuditLink(r) /\ Other(r) \in Peer
  BY <1>t
<1>2. /\ UNCHANGED <<sealed, audit>> /\ pc[p] = "disclose"
      /\ pc' = [pc EXCEPT ![p] = "disclosureSent"]
      /\ call' = [call EXCEPT ![p] = [kind |-> "disclosure", log |-> sealed[p], rows |-> told[p]]]
  BY DEF SendDisclosure, Send
<1> QED
  BY <1>1, <1>2, <1>t DEF AuditLink, Ending

(* Receiving a disclosure preserves it: every witness opens to the record  *)
(* its digest named (`verify_disclosure`).                                 *)
LEMMA AcceptDisclosureAudit ==
  ASSUME AuditInv, GameInv', NEW p \in Peer, AcceptDisclosure(p)
  PROVE  AuditInv'
<1> DEFINE q == Other(p)
<1>t. /\ pc \in [Peer -> Ready \cup Calling \cup Suspended \cup Final]
      /\ auPhase \in [Peer -> {"UNBOUND", "AWAITING_NONCES", "AWAITING_DISCLOSURE", "COMPLETE"}]
      /\ verdict \in [Peer -> {"NONE", "VERIFIED_OK", "TAMPERED"}]
      /\ disclosed \in [Peer -> Seq(Sealed)] /\ call \in [Peer -> Messages]
      /\ None.kind = "none" /\ q \in Peer /\ Other(q) = p /\ p # q
      /\ \A r \in Peer : AuditLink(r) /\ (r = p \/ r = q)
      /\ GameLinks(q) /\ AuditLink(p) /\ AuditLink(q)
  BY AuditFacts
<1>1. /\ call[p].kind = "disclosure" /\ call[p].log = sealed[p] /\ pc[p] = "disclosureSent"
      /\ auPhase[q] = "AWAITING_DISCLOSURE" /\ Len(sealed[p]) = Len(witnessed[q])
  BY <1>t DEF AcceptDisclosure, Receive, Admits, AuditLink
<1>2. \A k \in 1 .. Len(witnessed[q]) : Verifies(witnessed[q][k], call[p].log[k])
  BY <1>1, <1>t DEF GameLinks, ShownLink, Shows, Verifies
<1>3. /\ disclosed' = [disclosed EXCEPT ![q] = sealed[p]]
      /\ verdict' = [verdict EXCEPT ![q] = "VERIFIED_OK"]
      /\ auPhase' = [auPhase EXCEPT ![q] = "COMPLETE"]
      /\ call' = [call EXCEPT ![p] = None]
      /\ UNCHANGED <<driver, evidence, witnessed, finding>>
  BY <1>1, <1>2 DEF AcceptDisclosure, Answer
<1> HIDE DEF q
<1>4. /\ disclosed'[q] = sealed[p] /\ verdict'[q] = "VERIFIED_OK" /\ auPhase'[q] = "COMPLETE"
      /\ disclosed'[p] = disclosed[p] /\ verdict'[p] = verdict[p] /\ auPhase'[p] = auPhase[p]
      /\ call'[p] = None /\ call'[q] = call[q]
  BY <1>3, <1>t
<1>5. Other(p) = q
  BY DEF q
<1>6. pc[q] # "closed" /\ pc[q] # "idle" /\ pc[p] # "idle"
  BY <1>1, <1>t DEF AuditLink
<1>7. AuditLink(q)'
  BY <1>1, <1>3, <1>4, <1>6, <1>t DEF AuditLink, Ending
<1>8. AuditLink(p)'
  BY <1>1, <1>3, <1>4, <1>5, <1>6, <1>t DEF AuditLink, Ending
<1> QED
  BY <1>7, <1>8, <1>t DEF AuditInv

(* The replay of the two logs, with the rows their owners were told, finds *)
(* every step honest.                                                      *)
LEMMA HonestLogs ==
  ASSUME AuditInv, NEW p \in Peer, pc[p] = "awaitAudit", auPhase[p] = "COMPLETE",
         NEW rows, rows[p] = told[p], rows[Other(p)] = RowsOf(witnessed[p])
  PROVE  Consistent(sealed, rows)
<1> SUFFICES ASSUME NEW r \in Peer, NEW k \in 1 .. Len(sealed[r])
             PROVE  HonestStep(sealed, rows, r, k)
  BY DEF Consistent
<1>t. /\ GameLinks(r) /\ GameLinks(p) /\ AuditLink(p) /\ Other(p) \in Peer /\ TypeInv
      /\ r = p \/ r = Other(p)
      /\ witnessed[p] \in Seq(Witness) /\ Len(sealed[r]) \in Nat /\ sealed[p] \in Seq(Sealed)
  BY AuditFacts
<1>1. /\ sealed[r][k].cell = CellBefore(sealed, r, k)
      /\ sealed[r][k].blocked = BoardBefore(sealed, k)
      /\ sealed[r][k].action \in Lawful(r, BoardBefore(sealed, k), CellBefore(sealed, r, k))
  BY <1>t DEF GameLinks, LogLink
<1>2. rows[r][k] = Asked(sealed, r, k)
  <2>1. CASE r = p
    <3>1. Len(told[p]) = step[p] /\ Len(sealed[p]) = step[p]
      BY <1>t DEF GameLinks, ToldLink, Closing, TypeInv, RecordLink
    <3> QED
      BY <2>1, <3>1, <1>t DEF GameLinks, ToldLink
  <2>2. CASE r = Other(p)
    <3>1. k \in 1 .. Len(witnessed[p])
      BY <2>2, <1>t DEF AuditLink
    <3>2. Shows(sealed, witnessed[p][k], Other(p), k)
      BY <3>1, <1>t DEF GameLinks, ShownLink
    <3>3. rows[r][k] = witnessed[p][k].row
      BY <2>2, <3>1 DEF RowsOf
    <3> QED
      BY <2>2, <3>2, <3>3 DEF Shows
  <2> QED
    BY <2>1, <2>2, <1>t
<1>3. Caught(BoardBefore(sealed, k), sealed[r][k].action, CellBefore(sealed, Other(r), k))
        = Caught(BoardBefore(sealed, k), sealed[r][k].action, CellBefore(sealed, Thief, k))
  <2>1. CASE r = Police
    BY <2>1 DEF Other
  <2>2. CASE r # Police
    BY <2>2, <1>1 DEF Caught, Lawful
  <2> QED
    BY <2>1, <2>2
<1> QED
  BY <1>1, <1>2, <1>3 DEF HonestStep, Asked

(* The review preserves the audit invariant: it finds no violation.        *)
LEMMA CloseAudit ==
  ASSUME AuditInv, GameInv', NEW p \in Peer, Close(p)
  PROVE  AuditInv'
<1>t. /\ pc \in [Peer -> Ready \cup Calling \cup Suspended \cup Final]
      /\ sealed \in [Peer -> Seq(Sealed)] /\ finding \in [Peer -> {"NONE", "CONSISTENT", "VIOLATION"}]
      /\ AuditLink(p) /\ CallLink(p) /\ Other(p) # p /\ Other(p) \in Peer
      /\ \A r \in Peer : AuditLink(r) /\ Other(r) \in Peer /\ (r = p \/ r = Other(p))
  BY AuditFacts DEF TypeInv
<1>a. /\ pc[p] = "awaitAudit" /\ auPhase[p] = "COMPLETE" /\ call[p] = None
      /\ pc' = [pc EXCEPT ![p] = "closed"]
      /\ UNCHANGED <<evidence, witnessed, auPhase, disclosed, verdict, network>>
  BY <1>t DEF Close, CallLink, Calling
<1> DEFINE log == [r \in Peer |-> IF r = p THEN sealed[p] ELSE disclosed[p]]
<1> DEFINE rows == [r \in Peer |-> IF r = p THEN told[p] ELSE RowsOf(witnessed[p])]
<1>b. log = sealed
  <2>1. disclosed[p] = sealed[Other(p)]
    BY <1>a, <1>t DEF AuditLink
  <2>2. \A r \in Peer : log[r] = sealed[r]
    BY <2>1, <1>t
  <2> QED
    BY <2>2, <1>t
<1>c. rows[p] = told[p] /\ rows[Other(p)] = RowsOf(witnessed[p])
  BY <1>t
<1>d. finding' = [finding EXCEPT ![p] = IF Consistent(log, rows) THEN "CONSISTENT" ELSE "VIOLATION"]
  BY DEF Close
<1> HIDE DEF log, rows
<1>e. finding' = [finding EXCEPT ![p] = "CONSISTENT"]
  <2>1. Consistent(sealed, rows)
    BY <1>a, <1>c, HonestLogs
  <2> QED
    BY <2>1, <1>b, <1>d
<1> SUFFICES ASSUME NEW r \in Peer PROVE AuditLink(r)'
  BY DEF AuditInv
<1>1. AuditLink(r) /\ Other(r) \in Peer /\ None.kind = "none"
  BY <1>t DEF None
<1> QED
  BY <1>1, <1>a, <1>e, <1>t DEF AuditLink, Ending

LEMMA AuditInit == Init => AuditInv
<1> SUFFICES ASSUME Init, NEW p \in Peer PROVE GameInv /\ AuditLink(p)
  BY GameInit, PairFacts DEF AuditInv
<1> QED
  BY GameInit DEF Init, AuditLink, None

(* The audit invariant is inductive.                                       *)
LEMMA AuditNext == AuditInv /\ [Next]_vars => AuditInv'
<1> SUFFICES ASSUME AuditInv, [Next]_vars PROVE AuditInv'
  OBVIOUS
<1>0. GameInv'
  BY GameNext DEF AuditInv
<1>1. CASE UNCHANGED vars
  BY <1>0, <1>1, QuietAudit DEF SameAudit
<1>2. ASSUME NEW p \in Peer, Drive(p) \/ Serve(p) \/ Fault(p) PROVE AuditInv'
  BY <1>0, <1>2, PlayAudit, SendDisclosureAudit, AcceptDisclosureAudit, CloseAudit
     DEF Drive, Serve
<1>3. CASE Finished
  BY <1>0, <1>3, QuietAudit DEF Finished, SameAudit
<1> QED
  BY <1>1, <1>2, <1>3 DEF Next

(* Whatever the interleaving and the faults, on every board: the other     *)
(* side accepts the action it is shown, the disclosed records open to the  *)
(* witnessed digests, and the replay of both logs finds nothing amiss      *)
(* (`verify_disclosure`, `close_sub_game`).                                *)
THEOREM HonestPlayIsClean == Spec => []HonestPlayAuditsClean
<1>1. Init => AuditInv
  BY AuditInit
<1>2. AuditInv /\ [Next]_vars => AuditInv'
  BY AuditNext
<1>3. AuditInv => HonestPlayAuditsClean
  <2> SUFFICES ASSUME AuditInv, NEW p \in Peer
               PROVE  /\ turn[p].seen # None => turn[p].seen.accepted
                      /\ verdict[p] # "TAMPERED" /\ finding[p] # "VIOLATION"
                      /\ pc[p] = "closed" => verdict[p] = "VERIFIED_OK" /\ finding[p] = "CONSISTENT"
    BY DEF HonestPlayAuditsClean
  <2>1. AuditLink(p) /\ GameLinks(p)
    BY AuditFacts
  <2> QED
    BY <2>1 DEF AuditLink, GameLinks, ShownLink, Shows
<1> QED
  BY <1>1, <1>2, <1>3, PTL DEF Spec

-----------------------------------------------------------------------------
(* The exchange implements the lockstep game. The mapped state is what the *)
(* two logs say of the rounds the leader has adopted.                      *)
Count == step[Leader]
MappedCell == [p \in Peer |-> IF step[p] = Count THEN cell[p]
                              ELSE CellAfter(cell[p], chosen[p].action)]

(* The instance reads the same rules.                                      *)
LEMMA SameRules ==
  /\ Game!Peer = Peer
  /\ \A p : Game!Other(p) = Other(p)
  /\ \A p, b, c : Game!Lawful(p, b, c) = Lawful(p, b, c)
  /\ \A c, a : Game!CellAfter(c, a) = CellAfter(c, a)
  /\ \A a : Game!Placed(a) = Placed(a)
  /\ \A b, a, c : Game!Caught(b, a, c) = Caught(b, a, c)
  /\ \A h, k : Game!Terminal(h, k) = Terminal(h, k)
<1>1. Game!Peer = Peer
  BY DEF Game!Peer, Peer
<1>2. \A p : Game!Other(p) = Other(p)
  BY DEF Game!Other, Other
<1>3. \A c, a : Game!CellAfter(c, a) = CellAfter(c, a)
  BY DEF Game!CellAfter, CellAfter, Game!Destination, Destination
<1>4. \A a : Game!Placed(a) = Placed(a)
  BY DEF Game!Placed, Placed
<1>5. \A h, k : Game!Terminal(h, k) = Terminal(h, k)
  BY DEF Game!Terminal, Terminal
<1>6. Game!Cells = Cells /\ Game!Offsets = Offsets
  BY DEF Game!Cells, Cells, Game!Offsets, Offsets
<1>7. \A c : Game!Neighbours(c) = Neighbours(c)
  BY <1>6 DEF Game!Neighbours, Neighbours, Game!Destination, Destination
<1>8. \A b, c : Game!Traversable(b, c) = Traversable(b, c)
  BY <1>6 DEF Game!Traversable, Traversable
<1>9. \A b, c : Game!Trapped(b, c) = Trapped(b, c)
  BY <1>7, <1>8 DEF Game!Trapped, Trapped
<1>10. \A b, a, c : Game!Caught(b, a, c) = Caught(b, a, c)
  BY <1>8, <1>9 DEF Game!Caught, Caught, Game!Acceptable, Acceptable
<1>11. \A b, c, m : Game!LegalMove(b, c, m) = LegalMove(b, c, m)
  BY <1>8 DEF Game!LegalMove, LegalMove, Game!Destination, Destination
<1>c. \A S : Game!Cardinality(S) = Cardinality(S)
  BY DEF Game!Cardinality, Cardinality
<1>12. \A b, c, x : Game!Placeable(b, c, x) = Placeable(b, c, x)
  <2> SUFFICES ASSUME NEW b, NEW c, NEW x
               PROVE  Game!Placeable(b, c, x) = Placeable(b, c, x)
    OBVIOUS
  <2>1. Game!Neighbours(c) = Neighbours(c) /\ Game!Traversable(b, x) = Traversable(b, x)
    BY <1>7, <1>8
  <2> QED
    BY <1>c, <2>1 DEF Game!Placeable, Placeable
<1>13. Game!Action = Action
  BY <1>6 DEF Game!Action, Action, Game!MoveSet, MoveSet
<1>14. \A p, b, c : Game!Lawful(p, b, c) = Lawful(p, b, c)
  BY <1>11, <1>12, <1>13 DEF Game!Lawful, Lawful
<1> QED
  BY <1>1, <1>2, <1>3, <1>4, <1>5, <1>10, <1>14

(* The mapped state, read off the logs.                                    *)
Mapped ==
  /\ Leader \in Peer /\ Count \in Nat
  /\ \A p \in Peer : step[p] <= Count /\ Count <= Len(sealed[p]) /\ Len(sealed[p]) \in Nat
  /\ MappedCell = [p \in Peer |-> CellBefore(sealed, p, Count + 1)]
  /\ blocked[Leader] = BoardBefore(sealed, Count + 1)
  /\ captured[Leader] = Hit(sealed, Count)

LEMMA MappedFacts == GameInv => Mapped
<1> SUFFICES ASSUME GameInv PROVE Mapped
  OBVIOUS
<1>t. /\ Police \in Peer /\ Thief \in Peer /\ DriverType
      /\ \A p \in Peer : /\ step[p] \in Nat /\ Len(sealed[p]) \in Nat /\ GameLinks(p)
                         /\ Other(p) \in Peer /\ p \in {Police, Thief} /\ captured[p] \in BOOLEAN
  BY GameFacts DEF Peer, DriverType
<1>1. Leader \in Peer /\ \A p \in Peer : step[p] <= Count
  BY <1>t DEF Leader, Count, Peer
<1>2. Count \in Nat
  BY <1>1, <1>t DEF Count
<1>3. \A p \in Peer : Count <= Len(sealed[p])
  <2>1. \A p \in Peer : p = Leader \/ p = Other(Leader)
    BY <1>1, PairFacts
  <2> QED
    BY <1>1, <1>t, <2>1 DEF Count, GameLinks, TruthLink
<1>4. ASSUME NEW p \in Peer PROVE MappedCell[p] = CellBefore(sealed, p, Count + 1)
  <2>1. CASE step[p] = Count
    BY <2>1, <1>t DEF MappedCell, GameLinks, TruthLink
  <2>2. CASE step[p] # Count
    <3>1. step[p] + 1 = Count /\ Len(sealed[p]) = Count /\ Count # 0
      BY <1>1, <1>2, <1>3, <1>t, <2>2 DEF GameLinks, TruthLink
    <3>2. chosen[p].action = sealed[p][Count].action
      BY <3>1, <1>t DEF GameLinks, PreparedLink
    <3>3. cell[p] = sealed[p][Count].cell
      <4>1. Count \in 1 .. Len(sealed[p])
        BY <3>1, <1>2
      <4> QED
        BY <3>1, <4>1, <1>t DEF GameLinks, TruthLink, LogLink
    <3>4. CellBefore(sealed, p, Count + 1) = CellAfter(sealed[p][Count].cell,
                                                      sealed[p][Count].action)
      <4>1. Count + 1 # 1 /\ (Count + 1) - 1 = Count
        BY <1>2, <3>1
      <4> QED
        BY <4>1 DEF CellBefore
    <3>5. MappedCell[p] = CellAfter(cell[p], chosen[p].action)
      BY <2>2 DEF MappedCell
    <3> QED
      BY <3>2, <3>3, <3>4, <3>5
  <2> QED
    BY <2>1, <2>2
<1>5. MappedCell = [p \in Peer |-> CellBefore(sealed, p, Count + 1)]
  BY <1>4 DEF MappedCell
<1>6. /\ blocked[Leader] = BoardBefore(sealed, Count + 1)
      /\ captured[Leader] <=> Hit(sealed, Count)
  BY <1>1, <1>t DEF Count, GameLinks, TruthLink
<1>7. captured[Leader] = Hit(sealed, Count)
  BY <1>1, <1>6, <1>t DEF Hit
<1> QED
  BY <1>1, <1>2, <1>3, <1>5, <1>6, <1>7, <1>t DEF Mapped

(* A step keeps the records of both logs, and only an adoption counts.     *)
LEMMA LogStep ==
  ASSUME GameInv, [Next]_vars
  PROVE  /\ \A r \in Peer : \A j \in 1 .. Len(sealed[r]) : sealed'[r][j] = sealed[r][j]
         /\ \/ step' = step
            \/ sealed' = sealed /\ \E p \in Peer : step' = [step EXCEPT ![p] = step[p] + 1]
<1>t. sealed \in [Peer -> Seq(Sealed)] /\ \A r \in Peer : Len(sealed[r]) \in Nat
  BY GameFacts
<1>1. CASE sealed' = sealed /\ step' = step
  BY <1>1
<1>2. ASSUME NEW p \in Peer, SendCommitment(p)
      PROVE  /\ \A r \in Peer : \A j \in 1 .. Len(sealed[r]) : sealed'[r][j] = sealed[r][j]
             /\ step' = step
  <2>1. PICK record : sealed' = [sealed EXCEPT ![p] = Append(@, record)]
    BY <1>2 DEF SendCommitment
  <2>2. sealed'[p] = Append(sealed[p], record) /\ \A r \in Peer : r # p => sealed'[r] = sealed[r]
    BY <2>1, <1>t
  <2>3. \A j \in 1 .. Len(sealed[p]) : Append(sealed[p], record)[j] = sealed[p][j]
    BY <1>t
  <2> QED
    BY <1>2, <2>2, <2>3 DEF SendCommitment
<1>3. ASSUME NEW p \in Peer, Adopt(p)
      PROVE  sealed' = sealed /\ (step' = step \/ step' = [step EXCEPT ![p] = step[p] + 1])
  BY <1>3 DEF Adopt
<1>4. ASSUME NEW p \in Peer,
             \/ Launch(p) \/ Cornered(p) \/ SendAcknowledgement(p) \/ SendReveal(p)
             \/ Answered(p) \/ Refused(p) \/ SendNonces(p) \/ SendDisclosure(p) \/ Close(p)
             \/ Serve(p) \/ Fault(p)
      PROVE  sealed' = sealed /\ step' = step
  BY <1>4 DEF Launch, Cornered, SendAcknowledgement, SendReveal, Answered, Refused, SendNonces,
     SendDisclosure, Close, Serve, AcceptCommitment, AcceptAcknowledgement, AcceptReveal,
     AcceptNonces, AcceptDisclosure, Refuse, Fault, LoseCall, LoseReply, Timeout, Crash
<1>5. \/ UNCHANGED vars
      \/ \E p \in Peer : \/ SendCommitment(p) \/ Adopt(p)
                         \/ Launch(p) \/ Cornered(p) \/ SendAcknowledgement(p) \/ SendReveal(p)
                         \/ Answered(p) \/ Refused(p) \/ SendNonces(p) \/ SendDisclosure(p)
                         \/ Close(p) \/ Serve(p) \/ Fault(p)
  BY DEF Next, Drive, Finished
<1> QED
  BY <1>1, <1>2, <1>3, <1>4, <1>5

(* The leader's adoption is a round of the game: both actions of that      *)
(* round are lawful where it began, and no end event came before it.       *)
LEMMA RoundHappens ==
  ASSUME GameInv, NEW n \in Nat, \A p \in Peer : n + 1 <= Len(sealed[p])
  PROVE  /\ Terminal(Hit(sealed, n), n) = "NONE"
         /\ \A p \in Peer :
              /\ sealed[p][n + 1].action \in Lawful(p, BoardBefore(sealed, n + 1),
                                                    CellBefore(sealed, p, n + 1))
              /\ CellBefore(sealed, p, n + 2) = CellAfter(CellBefore(sealed, p, n + 1),
                                                          sealed[p][n + 1].action)
         /\ BoardBefore(sealed, n + 2) = BoardBefore(sealed, n + 1)
              \cup Placed(sealed[Police][n + 1].action) \cup Placed(sealed[Thief][n + 1].action)
         /\ Hit(sealed, n + 1) <=>
              \E p \in Peer : Caught(BoardBefore(sealed, n + 1), sealed[Other(p)][n + 1].action,
                                     CellBefore(sealed, p, n + 1))
<1>0. (n + 1) - 1 = n /\ (n + 2) - 1 = n + 1 /\ n + 2 # 1 /\ (n + 1) + 1 = n + 2
      /\ n + 1 \in Nat \ {0}
  OBVIOUS
<1>1. ASSUME NEW p \in Peer
      PROVE  /\ sealed[p][n + 1].cell = CellBefore(sealed, p, n + 1)
             /\ sealed[p][n + 1].action \in Lawful(p, BoardBefore(sealed, n + 1),
                                                   CellBefore(sealed, p, n + 1))
             /\ n + 1 <= SurvivalThreshold /\ ~Hit(sealed, n)
  <2>1. n + 1 \in 1 .. Len(sealed[p])
    BY GameFacts
  <2>2. GameLinks(p)
    BY GameFacts
  <2> QED
    BY <1>0, <2>1, <2>2 DEF GameLinks, LogLink
<1>2. Police \in Peer /\ Thief \in Peer /\ Other(Police) = Thief /\ Other(Thief) = Police
  BY BoardAssumption DEF Peer, Other
<1>3. Terminal(Hit(sealed, n), n) = "NONE"
  BY <1>1, <1>2, BoardAssumption DEF Terminal
<1>4. ASSUME NEW p \in Peer
      PROVE  CellBefore(sealed, p, n + 2) = CellAfter(CellBefore(sealed, p, n + 1),
                                                      sealed[p][n + 1].action)
  <2>1. CellBefore(sealed, p, n + 2) = CellAfter(sealed[p][n + 1].cell, sealed[p][n + 1].action)
    BY <1>0 DEF CellBefore
  <2> QED
    BY <2>1, <1>1
<1>5. BoardBefore(sealed, n + 2) = BoardBefore(sealed, n + 1)
        \cup Placed(sealed[Police][n + 1].action) \cup Placed(sealed[Thief][n + 1].action)
  <2>1. BoardBefore(sealed, (n + 1) + 1) = BoardBefore(sealed, n + 1)
          \cup Placed(sealed[Police][n + 1].action)
          \cup Placed(sealed[Other(Police)][n + 1].action)
    BY <1>0, <1>2, BoardStep
  <2> QED
    BY <2>1, <1>0, <1>2
<1>6. Hit(sealed, n + 1) <=> Asked(sealed, Police, n + 1).caught \/ Asked(sealed, Thief, n + 1).caught
  <2>1. Hit(sealed, n + 1) <=> \/ Hit(sealed, (n + 1) - 1) \/ Asked(sealed, Police, n + 1).caught
                               \/ Asked(sealed, Other(Police), n + 1).caught
    BY <1>0, <1>2, HitStep
  <2> QED
    BY <2>1, <1>0, <1>1, <1>2
<1>7. ASSUME NEW p \in Peer
      PROVE  Asked(sealed, p, n + 1).caught = Caught(BoardBefore(sealed, n + 1),
                                 sealed[p][n + 1].action, CellBefore(sealed, Other(p), n + 1))
  BY DEF Asked
<1>8. Hit(sealed, n + 1) <=>
        \E p \in Peer : Caught(BoardBefore(sealed, n + 1), sealed[Other(p)][n + 1].action,
                               CellBefore(sealed, p, n + 1))
  BY <1>2, <1>6, <1>7 DEF Peer
<1> QED
  BY <1>1, <1>3, <1>4, <1>5, <1>8

(* A step of the exchange is a round of the game or leaves it as it was.   *)
LEMMA GameStep ==
  ASSUME GameInv, GameInv', [Next]_vars
  PROVE  \/ UNCHANGED <<MappedCell, blocked[Leader], Count, captured[Leader]>>
         \/ Game!Next
<1> DEFINE n == Count
<1>t. /\ Leader \in Peer /\ n \in Nat
      /\ \A p \in Peer : step[p] <= n /\ n <= Len(sealed[p]) /\ Len(sealed[p]) \in Nat
      /\ MappedCell = [p \in Peer |-> CellBefore(sealed, p, n + 1)]
      /\ blocked[Leader] = BoardBefore(sealed, n + 1)
      /\ captured[Leader] = Hit(sealed, n)
  BY MappedFacts DEF Mapped
<1>u. /\ Leader' \in Peer /\ Count' \in Nat /\ Count' = step'[Leader']
      /\ \A p \in Peer : step'[p] <= Count' /\ Count' <= Len(sealed'[p])
      /\ MappedCell' = [p \in Peer |-> CellBefore(sealed', p, Count' + 1)]
      /\ (blocked[Leader])' = BoardBefore(sealed', Count' + 1)
      /\ (captured[Leader])' = Hit(sealed', Count')
  <2>1. Mapped'
    BY MappedFacts, PTL
  <2> QED
    BY <2>1 DEF Mapped, Count
<1>s. /\ \A r \in Peer : \A j \in 1 .. Len(sealed[r]) : sealed'[r][j] = sealed[r][j]
      /\ \/ step' = step
         \/ sealed' = sealed /\ \E p \in Peer : step' = [step EXCEPT ![p] = step[p] + 1]
  BY LogStep
<1>y. step \in [Peer -> Nat]
  <2>1. step \in [Peer -> Steps] /\ \A r \in Peer : step[r] \in Nat
    BY GameFacts DEF DriverType
  <2> QED
    BY <2>1
<1>c. n = step[Leader] /\ (Count' = n \/ (Count' = n + 1 /\ sealed' = sealed))
  <2>1. n = step[Leader]
    BY DEF Count
  <2>2. CASE step' = step
    BY <2>1, <2>2, <1>t, <1>u, <1>y
  <2>3. ASSUME NEW p \in Peer, step' = [step EXCEPT ![p] = step[p] + 1], sealed' = sealed
        PROVE  Count' = n \/ Count' = n + 1
    <3>1. \A r \in Peer : step'[r] = step[r] \/ step'[r] = step[r] + 1
      BY <2>3, <1>y
    <3>2. step'[Leader'] <= n + 1 /\ step'[Leader] >= n /\ step'[Leader] <= Count'
      <4>1. step'[Leader'] = step[Leader'] \/ step'[Leader'] = step[Leader'] + 1
        BY <3>1, <1>u
      <4>2. step[Leader'] <= n /\ step[Leader'] \in Nat /\ step[Leader] \in Nat
        BY <1>t, <1>u, <1>y
      <4>3. step'[Leader] = step[Leader] \/ step'[Leader] = step[Leader] + 1
        BY <3>1, <1>t
      <4>4. step'[Leader] <= Count'
        BY <1>t, <1>u
      <4> HIDE DEF n
      <4> QED
        BY <4>1, <4>2, <4>3, <4>4, <2>1, <1>t
    <3>3. Count' = step'[Leader'] /\ Count' \in Nat /\ n \in Nat /\ step'[Leader] >= n
      BY <3>2, <1>t, <1>u
    <3>4. step'[Leader] \in Nat
      BY <3>1, <1>t, <1>y
    <3> HIDE DEF n
    <3> QED
      BY <3>2, <3>3, <3>4
  <2> QED
    BY <2>1, <2>2, <2>3, <1>s
<1> HIDE DEF n
<1>1. CASE Count' = n
  <2>1. \A r \in Peer : \A j \in 1 .. n : sealed'[r][j] = sealed[r][j]
    BY <1>s, <1>t
  <2>2. n + 1 \in Nat \ {0} /\ (n + 1) - 1 = n
    BY <1>t
  <2>3. BoardBefore(sealed', n + 1) = BoardBefore(sealed, n + 1)
    BY <2>1, <2>2, SameBoard
  <2>4. ASSUME NEW p \in Peer PROVE CellBefore(sealed', p, n + 1) = CellBefore(sealed, p, n + 1)
    <3>1. \A j \in 1 .. ((n + 1) - 1) : sealed'[p][j] = sealed[p][j]
      BY <2>1, <2>2
    <3> QED
      BY <2>2, <3>1, SameStart
  <2>5. Hit(sealed', n) = Hit(sealed, n)
    <3>1. Hit(sealed', n) <=> Hit(sealed, n)
      BY <2>1, <1>t, SameHit
    <3> QED
      BY <3>1 DEF Hit
  <2>6. MappedCell' = MappedCell
    BY <1>1, <1>t, <1>u, <2>4
  <2>7. (blocked[Leader])' = blocked[Leader] /\ (captured[Leader])' = captured[Leader]
    BY <1>1, <1>t, <1>u, <2>3, <2>5
  <2>8. Count' = Count
    BY <1>1 DEF n
  <2> QED
    BY <2>6, <2>7, <2>8
<1>2. CASE Count' = n + 1 /\ sealed' = sealed
  <2> DEFINE a == sealed[Police][n + 1].action
             b == sealed[Thief][n + 1].action
             act == [p \in Peer |-> IF p = Police THEN a ELSE b]
  <2>0. Police \in Peer /\ Thief \in Peer /\ Police # Thief
        /\ \A p \in Peer : Other(p) \in Peer /\ p \in {Police, Thief}
    BY BoardAssumption, PairFacts DEF Peer
  <2>1. \A p \in Peer : n + 1 <= Len(sealed[p])
    BY <1>2, <1>u
  <2>2. /\ Terminal(Hit(sealed, n), n) = "NONE"
        /\ \A p \in Peer :
             /\ sealed[p][n + 1].action \in Lawful(p, BoardBefore(sealed, n + 1),
                                                   CellBefore(sealed, p, n + 1))
             /\ CellBefore(sealed, p, n + 2) = CellAfter(CellBefore(sealed, p, n + 1),
                                                         sealed[p][n + 1].action)
        /\ BoardBefore(sealed, n + 2) = BoardBefore(sealed, n + 1) \cup Placed(a) \cup Placed(b)
        /\ Hit(sealed, n + 1) <=>
             \E p \in Peer : Caught(BoardBefore(sealed, n + 1), sealed[Other(p)][n + 1].action,
                                    CellBefore(sealed, p, n + 1))
    BY <2>1, <1>t, RoundHappens
  <2>3. \A p \in Peer : act[p] = sealed[p][n + 1].action
    BY <2>0
  <2>4. (n + 1) + 1 = n + 2
    BY <1>t
  <2>5. MappedCell' = [p \in Peer |-> CellAfter(MappedCell[p], act[p])]
    <3>1. MappedCell' = [p \in Peer |-> CellBefore(sealed, p, n + 2)]
      BY <1>2, <1>u, <2>4
    <3> HIDE DEF act
    <3>2. ASSUME NEW p \in Peer
          PROVE  CellBefore(sealed, p, n + 2) = CellAfter(MappedCell[p], act[p])
      BY <2>2, <2>3, <1>t
    <3> QED
      BY <3>1, <3>2
  <2>6. (blocked[Leader])' = blocked[Leader] \cup Placed(act[Police]) \cup Placed(act[Thief])
    BY <1>2, <1>t, <1>u, <2>2, <2>4, <2>0
  <2>7. (captured[Leader])' = \E p \in Peer : Caught(blocked[Leader], act[Other(p)], MappedCell[p])
    <3> HIDE DEF act
    <3>1. \A p \in Peer : /\ MappedCell[p] = CellBefore(sealed, p, n + 1)
                          /\ act[Other(p)] = sealed[Other(p)][n + 1].action
      BY <1>t, <2>0, <2>3
    <3>2. (captured[Leader])' = Hit(sealed, n + 1) /\ blocked[Leader] = BoardBefore(sealed, n + 1)
      BY <1>2, <1>t, <1>u
    <3>3. Hit(sealed, n + 1) <=>
            \E p \in Peer : Caught(blocked[Leader], act[Other(p)], MappedCell[p])
      BY <3>1, <3>2, <2>2
    <3>4. Hit(sealed, n + 1) \in BOOLEAN
      BY DEF Hit
    <3> QED
      BY <3>2, <3>3, <3>4
  <2>8. Terminal(captured[Leader], Count) = "NONE" /\ Count' = Count + 1
    BY <2>2, <1>2, <1>t DEF n
  <2>9. /\ a \in Lawful(Police, blocked[Leader], MappedCell[Police])
        /\ b \in Lawful(Thief, blocked[Leader], MappedCell[Thief])
    BY <2>0, <2>2, <1>t
  <2>10. [p \in Game!Peer |-> IF p = Police THEN a ELSE b] = act
    BY SameRules
  <2>11. Game!Apply([p \in Game!Peer |-> IF p = Police THEN a ELSE b])
    <3> HIDE DEF act, a, b
    <3> QED
      BY <2>5, <2>6, <2>7, <2>10, SameRules DEF Game!Apply, MappedCell, Count
  <2>12. Game!Round
    <3> HIDE DEF a, b, act
    <3>1. Game!Terminal(captured[Leader], step[Leader]) = "NONE" /\ (step[Leader])' = step[Leader] + 1
      BY <2>8, SameRules DEF Count
    <3>2. /\ a \in Game!Lawful(Police, blocked[Leader], MappedCell[Police])
          /\ b \in Game!Lawful(Thief, blocked[Leader], MappedCell[Thief])
      BY <2>9, SameRules
    <3> QED
      BY <2>11, <3>1, <3>2 DEF Game!Round, MappedCell, Count, Game!Apply
  <2> QED
    BY <2>12 DEF Game!Next
<1> QED
  BY <1>c, <1>1, <1>2

(* Two peers that only exchange commitments, acknowledgements and reveals  *)
(* play the lockstep game, faults or not: on every board both act from the *)
(* state the round began with, and what either adopts is that round        *)
(* (`SubGameDriver.play_round`, `merged_truth`).                           *)
THEOREM PlaysLockstep == Spec => Game!Spec
<1>1. Init => GameInv
  BY GameInit
<1>2. GameInv /\ [Next]_vars => GameInv'
  BY GameNext
<1>3. Init => Game!Init
  <2> SUFFICES ASSUME Init PROVE Game!Init
    OBVIOUS
  <2>1. Leader \in Peer /\ \A p \in Peer : step[p] = 0
    BY DEF Init, Leader, Peer
  <2>2. StartCell \in [Peer -> Cells] /\ cell = StartCell
    BY BoardAssumption DEF Init
  <2>3. [p \in Peer |-> IF step[p] = step[Leader] THEN cell[p]
                        ELSE CellAfter(cell[p], chosen[p].action)] = StartCell
    BY <2>1, <2>2
  <2> QED
    BY <2>1, <2>3 DEF Init, Game!Init
<1>4. GameInv /\ GameInv' /\ [Next]_vars => [Game!Next]_(Game!vars)
  BY GameStep DEF Game!vars, MappedCell, Count
<1> QED
  BY <1>1, <1>2, <1>3, <1>4, PTL DEF Spec, Game!Spec

-----------------------------------------------------------------------------
(* Every failure has a cause. Without one, a request reaches a peer that   *)
(* either owns it or still has a step of its own to take: neither runs a   *)
(* round ahead, and neither closes before the other's last reveal. And a   *)
(* driver waits only while its peer has something left to do: what a peer  *)
(* was served before it began to wait is recorded on the other side.       *)
Acking == {"ackSent", "awaitAck", "revealSent", "awaitReveal"}

(* p's reveal of round k was served.                                       *)
Delivered(p, k) ==
  \/ step[p] >= k
  \/ turn[p].cursor = k /\ \/ pc[p] = "awaitReveal"
                           \/ pc[p] = "revealSent" /\ reply[p].kind = "ok"

RequestLink(p) ==
  /\ Len(witnessed[p]) = step[p]
  /\ pc[p] \in Calling => call[p] # None \/ reply[p] # None
  /\ call[p].kind = "nonces" => pc[p] = "noncesSent" /\ call[p].count = Len(sealed[p])
  /\ call[p].kind = "disclosure" => call[p].rows = told[p]
  /\ pc[p] \in Closing => Over(p)

(* The runtime of the peer q keeps the pace of p's messages: it has not    *)
(* taken a digest still in flight, an acknowledged peer's digest is locked,*)
(* and a reveal that was served was consumed.                              *)
PaceLink(p, q) ==
  /\ turn[p].phase = "UNBOUND" => turn[p].cursor = 0
  /\ pc[p] \in Acking => turn[p].phase \in {"AWAITING_REVEAL", "CONSUMED"}
  /\ call[p].kind = "commitment" /\ turn[q].cursor = turn[p].cursor
       => turn[q].phase = "AWAITING_COMMITMENT"
  /\ turn[q].acked /\ turn[q].cursor = turn[p].cursor
       => turn[p].phase \in {"AWAITING_REVEAL", "CONSUMED"} /\ call[p].kind # "acknowledgement"
  /\ turn[q].cursor # 0 /\ Delivered(p, turn[q].cursor) => turn[q].phase = "CONSUMED"

(* The audit of q keeps the pace of p's closing messages.                  *)
CloseLink(p, q) ==
  /\ pc[p] \in {"idle", "nonces"} \cup Playing \/ call[p].kind = "nonces"
       => auPhase[q] \in {"UNBOUND", "AWAITING_NONCES"}
  /\ auPhase[p] = "UNBOUND" => pc[p] \in {"idle", "failed"}
  /\ (\/ pc[p] = "noncesSent" /\ reply[p].kind = "ok"
      \/ pc[p] = "disclose"
      \/ call[p].kind = "disclosure")
       => auPhase[q] = "AWAITING_DISCLOSURE"
  /\ auPhase[q] = "AWAITING_DISCLOSURE" =>
       Len(witnessed[q]) = Len(sealed[p]) /\ pc[p] \in (Closing \ {"nonces"}) \cup {"failed"}

(* p's commitment, acknowledgement and disclosure were served.             *)
Committed(p) ==
  \/ pc[p] \in {"awaitCommit"} \cup Acking
  \/ pc[p] = "commitSent" /\ reply[p].kind = "ok"
Acknowledged(p) ==
  \/ pc[p] \in {"awaitAck", "revealSent", "awaitReveal"}
  \/ pc[p] = "ackSent" /\ reply[p].kind = "ok"
Disclosed(p) ==
  \/ pc[p] \in {"awaitAudit", "closed"}
  \/ pc[p] = "disclosureSent" /\ reply[p].kind = "ok"

(* What p was served is recorded at q: q is past p's round, or holds in it *)
(* the digest and the acknowledgement, and its audit has the disclosure.   *)
Held == {"AWAITING_OUR_ACKNOWLEDGEMENT", "AWAITING_REVEAL", "CONSUMED"}

ServedLink(p, q) ==
  /\ Committed(p) => \/ turn[q].cursor > turn[p].cursor
                     \/ turn[q].cursor = turn[p].cursor /\ turn[q].phase \in Held
  /\ Acknowledged(p) => \/ turn[q].cursor > turn[p].cursor
                        \/ turn[q].cursor = turn[p].cursor /\ turn[q].acked
  /\ Disclosed(p) => auPhase[q] = "COMPLETE"

CauseLink(p) == causes = {} => pc[p] # "failed" /\ reply[p].kind # "error"

CauseLinks(p, q) == RequestLink(p) /\ PaceLink(p, q) /\ CloseLink(p, q)

CauseInv ==
  /\ AuditInv
  /\ \A p \in Peer : CauseLinks(p, Other(p)) /\ ServedLink(p, Other(p)) /\ CauseLink(p)

(* A step that keeps the pace of r's messages, and one that keeps its      *)
(* closing.                                                                *)
SamePace(r) ==
  /\ turn'[r].cursor = turn[r].cursor /\ turn'[r].phase = turn[r].phase
  /\ turn'[r].acked = turn[r].acked /\ step'[r] = step[r]
  /\ pc'[r] \in Acking => pc[r] \in Acking
  /\ call'[r].kind \in {"commitment", "acknowledgement"} => call'[r] = call[r]
  /\ pc'[r] = "awaitReveal" =>
       pc[r] = "awaitReveal" \/ (pc[r] = "revealSent" /\ reply[r].kind = "ok")
  /\ pc'[r] = "revealSent" /\ reply'[r].kind = "ok" => pc[r] = "revealSent" /\ reply[r].kind = "ok"

SameClose(r) ==
  /\ auPhase'[r] = auPhase[r] /\ witnessed'[r] = witnessed[r]
  /\ auPhase[r] = "UNBOUND" /\ pc[r] \in {"idle", "failed"} => pc'[r] \in {"idle", "failed"}
  /\ pc'[r] \in {"idle", "nonces"} \cup Playing => pc[r] \in {"idle", "nonces"} \cup Playing
  /\ call'[r].kind = "nonces" => call[r].kind = "nonces" \/ pc[r] = "nonces"
  /\ call'[r].kind = "disclosure" => call[r].kind = "disclosure" \/ pc[r] = "disclose"
  /\ (pc'[r] = "noncesSent" /\ reply'[r].kind = "ok") \/ pc'[r] = "disclose"
       => (pc[r] = "noncesSent" /\ reply[r].kind = "ok") \/ pc[r] = "disclose"
  /\ pc[r] \in (Closing \ {"nonces"}) \cup {"failed"} =>
       pc'[r] \in (Closing \ {"nonces"}) \cup {"failed"} /\ sealed'[r] = sealed[r]

LEMMA QuietPace ==
  ASSUME NEW p \in Peer, NEW q \in Peer, PaceLink(p, q), SamePace(p), SamePace(q)
  PROVE  PaceLink(p, q)'
  BY DEF PaceLink, SamePace, Delivered

LEMMA QuietClose ==
  ASSUME NEW p \in Peer, NEW q \in Peer, CloseLink(p, q), SameClose(p), SameClose(q)
  PROVE  CloseLink(p, q)'
<1>1. (pc[p] \in {"idle", "nonces"} \cup Playing \/ call[p].kind = "nonces"
         => auPhase[q] \in {"UNBOUND", "AWAITING_NONCES"})'
  BY DEF CloseLink, SameClose
<1>2. (auPhase[p] = "UNBOUND" => pc[p] \in {"idle", "failed"})'
  BY DEF CloseLink, SameClose
<1>3. ((pc[p] = "noncesSent" /\ reply[p].kind = "ok") \/ pc[p] = "disclose"
         \/ call[p].kind = "disclosure" => auPhase[q] = "AWAITING_DISCLOSURE")'
  BY DEF CloseLink, SameClose
<1>4. (auPhase[q] = "AWAITING_DISCLOSURE" =>
         /\ Len(witnessed[q]) = Len(sealed[p])
         /\ pc[p] \in (Closing \ {"nonces"}) \cup {"failed"})'
  BY DEF CloseLink, SameClose
<1> QED
  BY <1>1, <1>2, <1>3, <1>4 DEF CloseLink

(* The types and links the proofs below need, for a peer and its opposite. *)
LEMMA CauseFacts ==
  ASSUME CauseInv, NEW p \in Peer
  PROVE  /\ GameInv /\ TypeInv /\ FairInv /\ AuditInv
         /\ pc \in [Peer -> Ready \cup Calling \cup Suspended \cup Final]
         /\ turn \in [Peer -> Turns] /\ call \in [Peer -> Messages] /\ reply \in [Peer -> Replies]
         /\ step \in [Peer -> Steps] /\ captured \in [Peer -> BOOLEAN]
         /\ sealed \in [Peer -> Seq(Sealed)] /\ told \in [Peer -> Seq(Row)]
         /\ witnessed \in [Peer -> Seq(Witness)]
         /\ auPhase \in [Peer -> {"UNBOUND", "AWAITING_NONCES", "AWAITING_DISCLOSURE", "COMPLETE"}]
         /\ None.kind = "none" /\ Ok.kind = "ok" /\ Ok # None
         /\ \A r \in Peer :
              /\ Other(r) \in Peer /\ Other(Other(r)) = r /\ Other(r) # r
              /\ r = p \/ r = Other(p)
              /\ CauseLinks(r, Other(r)) /\ CauseLink(r) /\ CallLink(r) /\ PhaseLink(r)
              /\ ServedLink(r, Other(r))
              /\ step[r] \in Nat /\ turn[r].cursor \in Nat /\ Len(sealed[r]) \in Nat
              /\ Len(witnessed[r]) \in Nat /\ Len(told[r]) \in Nat
              /\ GameLinks(r) /\ AuditLink(r)
<1>1. GameInv /\ TypeInv /\ FairInv /\ AuditInv
  BY DEF CauseInv, AuditInv, GameInv, FairInv
<1>2. Other(p) \in Peer /\ \A r \in Peer : r = p \/ r = Other(p)
  BY PairFacts
<1>3. /\ pc \in [Peer -> Ready \cup Calling \cup Suspended \cup Final]
      /\ turn \in [Peer -> Turns] /\ call \in [Peer -> Messages] /\ reply \in [Peer -> Replies]
      /\ step \in [Peer -> Steps] /\ captured \in [Peer -> BOOLEAN]
      /\ sealed \in [Peer -> Seq(Sealed)] /\ told \in [Peer -> Seq(Row)]
      /\ witnessed \in [Peer -> Seq(Witness)]
      /\ auPhase \in [Peer -> {"UNBOUND", "AWAITING_NONCES", "AWAITING_DISCLOSURE", "COMPLETE"}]
  BY <1>1 DEF TypeInv, TypeOK, DriverType, EvidenceType, AuditType, NetworkType
<1>4. None.kind = "none" /\ Ok.kind = "ok" /\ Ok # None
  BY DEF None, Ok
<1>5. ASSUME NEW r \in Peer
      PROVE  /\ Other(r) \in Peer /\ Other(Other(r)) = r /\ Other(r) # r
             /\ CallLink(r) /\ PhaseLink(r) /\ step[r] \in Nat /\ turn[r].cursor \in Nat
             /\ Len(sealed[r]) \in Nat /\ Len(witnessed[r]) \in Nat /\ Len(told[r]) \in Nat
             /\ GameLinks(r) /\ AuditLink(r)
  BY <1>1, GameFacts, AuditFacts, PairFacts DEF TypeInv
<1> QED
  BY <1>1, <1>2, <1>3, <1>4, <1>5 DEF CauseInv

(* Driver and fault steps outside the rounds keep the pace.                *)
Offside(p) ==
  \/ Cornered(p) \/ SendReveal(p) \/ Answered(p) \/ Refused(p) \/ SendNonces(p)
  \/ SendDisclosure(p) \/ Close(p) \/ AcceptNonces(p) \/ AcceptDisclosure(p) \/ Refuse(p)
  \/ Fault(p)

LEMMA OffsidePace ==
  ASSUME CauseInv, NEW p \in Peer, Offside(p), NEW r \in Peer
  PROVE  SamePace(r)
<1>t. /\ pc \in [Peer -> Ready \cup Calling \cup Suspended \cup Final]
      /\ turn \in [Peer -> Turns] /\ call \in [Peer -> Messages] /\ reply \in [Peer -> Replies]
      /\ None.kind = "none" /\ CallLink(p) /\ CallLink(r)
  BY CauseFacts
<1>1. step' = step /\ turn'[r].cursor = turn[r].cursor /\ turn'[r].phase = turn[r].phase
        /\ turn'[r].acked = turn[r].acked
  <2>1. CASE Answered(p)
    BY <2>1, <1>t DEF Answered, Turns
  <2>2. CASE ~Answered(p)
    BY <2>2 DEF Offside, Cornered, SendReveal, Refused, SendNonces, SendDisclosure, Close,
       AcceptNonces, AcceptDisclosure, Refuse, Fault, LoseCall, LoseReply, Timeout, Crash
  <2> QED
    BY <2>1, <2>2
<1>2. CASE Cornered(p) \/ Refused(p) \/ Close(p) \/ Timeout(p) \/ Crash(p)
  BY <1>1, <1>2, <1>t DEF Cornered, Refused, Close, Timeout, Crash, CallLink, Acking, Calling,
     Suspended, SamePace
<1>3. CASE SendReveal(p) \/ SendNonces(p) \/ SendDisclosure(p)
  BY <1>1, <1>3, <1>t DEF SendReveal, SendNonces, SendDisclosure, Send, CallLink, Acking, Calling,
     SamePace
<1>4. CASE Answered(p)
  BY <1>1, <1>4, <1>t DEF Answered, AfterCall, CallLink, Acking, Calling, SamePace
<1>5. CASE LoseCall(p) \/ LoseReply(p) \/ Refuse(p)
  BY <1>1, <1>5, <1>t DEF LoseCall, LoseReply, Refuse, Answer, SamePace
<1>6. CASE AcceptNonces(p) \/ AcceptDisclosure(p)
  <2>1. pc[p] # "revealSent" /\ UNCHANGED pc
    BY <1>6, <1>t DEF AcceptNonces, AcceptDisclosure, Receive, CallLink
  <2> QED
    BY <1>1, <2>1, <1>6, <1>t DEF AcceptNonces, AcceptDisclosure, Answer, SamePace
<1> QED
  BY <1>2, <1>3, <1>4, <1>5, <1>6 DEF Offside, Fault

(* They also keep the closing, but for the closing messages themselves.    *)
LEMMA OffsideClose ==
  ASSUME CauseInv, NEW p \in Peer, Offside(p), ~AcceptNonces(p), ~AcceptDisclosure(p),
         NEW r \in Peer
  PROVE  SameClose(r)
<1>t. /\ pc \in [Peer -> Ready \cup Calling \cup Suspended \cup Final]
      /\ call \in [Peer -> Messages] /\ reply \in [Peer -> Replies]
      /\ None.kind = "none" /\ CallLink(p) /\ CallLink(r)
  BY CauseFacts
<1>1. auPhase' = auPhase /\ witnessed' = witnessed /\ sealed' = sealed
  BY DEF Offside, Cornered, SendReveal, Answered, Refused, SendNonces, SendDisclosure, Close,
     Refuse, Fault, LoseCall, LoseReply, Timeout, Crash
<1>2. CASE Cornered(p) \/ Refused(p) \/ Close(p)
  BY <1>1, <1>2, <1>t DEF Cornered, Refused, Close, CallLink, Closing, Playing, Calling, SameClose
<1>3. CASE Timeout(p) \/ Crash(p)
  BY <1>1, <1>3, <1>t DEF Timeout, Crash, CallLink, Closing, Playing, Suspended, Calling, SameClose
<1>4. CASE SendReveal(p) \/ SendNonces(p) \/ SendDisclosure(p)
  BY <1>1, <1>4, <1>t DEF SendReveal, SendNonces, SendDisclosure, Send, CallLink, Closing, Playing,
     Calling, SameClose
<1>5. CASE Answered(p)
  BY <1>1, <1>5, <1>t DEF Answered, AfterCall, CallLink, Closing, Playing, Calling, SameClose
<1>6. CASE LoseCall(p) \/ LoseReply(p) \/ Refuse(p)
  BY <1>1, <1>6, <1>t DEF LoseCall, LoseReply, Refuse, Answer, SameClose
<1> QED
  BY <1>2, <1>3, <1>4, <1>5, <1>6 DEF Offside, Fault

(* A driver that plays is not past an end event.                           *)
LEMMA PlayingNotOver ==
  ASSUME CauseInv, NEW r \in Peer, pc[r] \in {"idle"} \cup Playing
  PROVE  ~Over(r)
<1>1. GameLinks(r) /\ TypeInv
  BY CauseFacts
<1>2. ~captured[r]
  BY <1>1 DEF GameLinks, TruthLink
<1>3. step[r] < SurvivalThreshold
  BY <1>1, BoardAssumption DEF TypeInv, RoundLink
<1>4. step[r] \in Nat /\ SurvivalThreshold \in Nat
  BY CauseFacts, BoardAssumption
<1> QED
  BY <1>2, <1>3, <1>4 DEF Over, Terminal

(* And they keep what the requests carry.                                  *)
LEMMA OffsideRequest ==
  ASSUME CauseInv, NEW p \in Peer, Offside(p), NEW r \in Peer
  PROVE  RequestLink(r)'
<1>t. /\ pc \in [Peer -> Ready \cup Calling \cup Suspended \cup Final]
      /\ call \in [Peer -> Messages] /\ reply \in [Peer -> Replies] /\ told \in [Peer -> Seq(Row)]
      /\ None.kind = "none" /\ Ok.kind = "ok" /\ Ok # None /\ CallLink(p) /\ CallLink(r)
      /\ RequestLink(p) /\ RequestLink(r) /\ AuditLink(r)
  BY CauseFacts DEF CauseLinks
<1>1. UNCHANGED <<witnessed, sealed, step, captured>>
  BY DEF Offside, Cornered, SendReveal, Answered, Refused, SendNonces, SendDisclosure, Close,
     AcceptNonces, AcceptDisclosure, Refuse, Fault, LoseCall, LoseReply, Timeout, Crash
<1>2. CASE Cornered(p) \/ Refused(p) \/ Close(p) \/ Timeout(p) \/ Crash(p)
  BY <1>1, <1>2, <1>t DEF Cornered, Refused, Close, Timeout, Crash, CallLink, Closing, Calling,
     Suspended, Over, RequestLink
<1>3. CASE SendReveal(p) \/ SendNonces(p) \/ SendDisclosure(p)
  BY <1>1, <1>3, <1>t DEF SendReveal, SendNonces, SendDisclosure, Send, CallLink, Closing, Calling,
     Over, RequestLink
<1>4. CASE Answered(p)
  <2>1. call[p] = None /\ call' = call
    BY <1>4, <1>t DEF Answered, CallLink
  <2>2. told'[r] = told[r] \/ r = p
    BY <1>4, <1>t DEF Answered
  <2>3. pc'[p] \notin Calling /\ (pc'[p] \in Closing => pc[p] \in Closing)
    BY <1>4, <1>t DEF Answered, AfterCall, Calling, Closing
  <2>4. r # p => pc'[r] = pc[r] /\ reply'[r] = reply[r]
    BY <1>4, <1>t DEF Answered
  <2> QED
    BY <1>1, <2>1, <2>2, <2>3, <2>4, <1>t DEF RequestLink, Over
<1>5. CASE LoseCall(p) \/ LoseReply(p) \/ Refuse(p)
  <2>1. [kind |-> "error"] # None
    BY DEF None
  <2> QED
    BY <1>1, <1>5, <2>1, <1>t DEF LoseCall, LoseReply, Refuse, Answer, Over, RequestLink
<1>6. CASE AcceptNonces(p) \/ AcceptDisclosure(p)
  BY <1>1, <1>6, <1>t DEF AcceptNonces, AcceptDisclosure, Answer, Over, RequestLink
<1> QED
  BY <1>2, <1>3, <1>4, <1>5, <1>6 DEF Offside, Fault

(* All of them preserve the links of both peers.                           *)
LEMMA OffsideLinks ==
  ASSUME CauseInv, NEW p \in Peer, Offside(p), NEW r \in Peer
  PROVE  CauseLinks(r, Other(r))'
<1>t. /\ pc \in [Peer -> Ready \cup Calling \cup Suspended \cup Final]
      /\ auPhase \in [Peer -> {"UNBOUND", "AWAITING_NONCES", "AWAITING_DISCLOSURE", "COMPLETE"}]
      /\ call \in [Peer -> Messages] /\ reply \in [Peer -> Replies]
      /\ None.kind = "none" /\ Ok.kind = "ok" /\ CallLink(p) /\ CauseLinks(r, Other(r))
      /\ CauseLinks(p, Other(p)) /\ Other(r) \in Peer /\ Other(p) \in Peer /\ Other(p) # p
      /\ AuditLink(p) /\ Other(Other(p)) = p /\ (r = p \/ r = Other(p))
  BY CauseFacts
<1>1. RequestLink(r)'
  BY OffsideRequest
<1>2. PaceLink(r, Other(r))'
  BY <1>t, OffsidePace, QuietPace DEF CauseLinks
<1>3. CloseLink(r, Other(r))'
  <2>1. CASE ~AcceptNonces(p) /\ ~AcceptDisclosure(p)
    BY <2>1, <1>t, OffsideClose, QuietClose DEF CauseLinks
  <2>2. CASE AcceptNonces(p)
    <3>1. /\ call[p].kind = "nonces" /\ call[p].count = Len(witnessed[Other(p)])
          /\ auPhase[Other(p)] = "AWAITING_NONCES"
          /\ auPhase' = [auPhase EXCEPT ![Other(p)] = "AWAITING_DISCLOSURE"]
          /\ call' = [call EXCEPT ![p] = None] /\ reply' = [reply EXCEPT ![p] = Ok]
          /\ UNCHANGED <<pc, sealed, witnessed>>
      BY <2>2 DEF AcceptNonces, Receive, Admits, Answer
    <3>2. pc[p] = "noncesSent" /\ Len(sealed[p]) = Len(witnessed[Other(p)])
      BY <3>1, <1>t DEF CauseLinks, RequestLink
    <3>3. CASE r = p
      BY <3>1, <3>2, <3>3, <1>t DEF CauseLinks, CloseLink, Closing, Playing
    <3>4. CASE r = Other(p)
      BY <3>1, <3>2, <3>4, <1>t DEF CauseLinks, CloseLink
    <3> QED
      BY <3>3, <3>4, <1>t
  <2>3. CASE AcceptDisclosure(p)
    <3>1. /\ call[p].kind = "disclosure" /\ pc[p] = "disclosureSent"
          /\ auPhase' = [auPhase EXCEPT ![Other(p)] = "COMPLETE"]
          /\ call' = [call EXCEPT ![p] = None] /\ reply' = [reply EXCEPT ![p] = Ok]
          /\ auPhase[Other(p)] = "AWAITING_DISCLOSURE"
          /\ UNCHANGED <<pc, sealed, witnessed>>
      BY <2>3, <1>t DEF AcceptDisclosure, Receive, Admits, Answer, AuditLink
    <3>3. CASE r = p
      BY <3>1, <3>3, <1>t DEF CauseLinks, CloseLink, Closing, Playing
    <3>4. CASE r = Other(p)
      BY <3>1, <3>4, <1>t DEF CauseLinks, CloseLink
    <3> QED
      BY <3>3, <3>4, <1>t
  <2> QED
    BY <2>1, <2>2, <2>3
<1> QED
  BY <1>1, <1>2, <1>3 DEF CauseLinks

(* A peer that acknowledged round k is bound for it or has adopted it.     *)
LEMMA AckedFacts ==
  ASSUME CauseInv, NEW p \in Peer, NEW q \in Peer, q = Other(p), turn[q].acked
  PROVE  turn[p].cursor = turn[q].cursor \/ turn[q].cursor <= step[p]
<1>1. AckLink(q) /\ Other(q) = p /\ Len(witnessed[p]) = step[p]
  BY CauseFacts DEF FairInv, CauseLinks, RequestLink
<1> QED
  BY <1>1 DEF AckLink, HoldsDigest

(* A runtime bound for the round after p's k records: no acknowledgement   *)
(* of that round was recorded, and no reveal of it was served.             *)
LEMMA FreshPace ==
  ASSUME CauseInv, NEW p \in Peer, NEW q \in Peer, q = Other(p), NEW k \in Nat,
         turn[p].cursor = k, step[p] <= k, Len(sealed[p]) = k
  PROVE  /\ turn[q].cursor = k + 1 => ~turn[q].acked
         /\ ~Delivered(q, k + 1)
<1>t. /\ step[p] \in Nat /\ step[q] \in Nat /\ turn[q].cursor \in Nat /\ TypeInv /\ FairInv
      /\ GameLinks(q) /\ Other(q) = p
  BY CauseFacts
<1>1. turn[q].cursor = k + 1 => ~turn[q].acked
  BY <1>t, AckedFacts
<1>2. ~(step[q] >= k + 1)
  BY <1>t DEF GameLinks, TruthLink
<1>3. pc[q] \in {"awaitReveal", "revealSent"} => turn[q].acked
  BY <1>t DEF FairInv, MilestoneLink
<1> QED
  BY <1>1, <1>2, <1>3 DEF Delivered

(* Opening the sub-game preserves the links of both peers.                 *)
LEMMA LaunchLinks ==
  ASSUME CauseInv, NEW p \in Peer, Launch(p), NEW q \in Peer, q = Other(p)
  PROVE  CauseLinks(p, q)' /\ CauseLinks(q, p)'
<1>t. /\ pc \in [Peer -> Ready \cup Calling \cup Suspended \cup Final]
      /\ turn \in [Peer -> Turns] /\ call \in [Peer -> Messages] /\ reply \in [Peer -> Replies]
      /\ auPhase \in [Peer -> {"UNBOUND", "AWAITING_NONCES", "AWAITING_DISCLOSURE", "COMPLETE"}]
      /\ None.kind = "none" /\ CallLink(p) /\ CauseLinks(p, q) /\ CauseLinks(q, p)
      /\ Other(q) = p /\ p # q /\ AuditLink(p) /\ TypeInv /\ FairInv /\ GameLinks(p)
      /\ turn[q].cursor \in Nat /\ step[p] \in Nat
  BY CauseFacts
<1>a. /\ pc[p] = "idle" /\ step[p] = 0 /\ turn[p].cursor = 0 /\ Len(sealed[p]) = step[p]
      /\ pc' = [pc EXCEPT ![p] = "commit"]
      /\ turn' = [turn EXCEPT ![p] = FreshTurn(0, blocked[p], cell[p])]
      /\ auPhase' = [auPhase EXCEPT ![p] = "AWAITING_NONCES"] /\ auPhase[p] = "UNBOUND"
      /\ UNCHANGED <<sealed, told, witnessed, step, captured, call, reply>>
      /\ call[p] = None /\ reply[p] = None
  BY <1>t DEF Launch, FairInv, WitnessLink, RoundLink, RecordLink, TypeInv, AuditLink, CallLink,
     Calling
<1>b. /\ pc'[p] = "commit" /\ pc'[q] = pc[q] /\ turn'[p].cursor = 1 /\ turn'[p].acked = FALSE
      /\ turn'[p].phase = "AWAITING_COMMITMENT" /\ turn'[q] = turn[q]
      /\ auPhase'[p] = "AWAITING_NONCES" /\ auPhase'[q] = auPhase[q]
  BY <1>a, <1>t DEF FreshTurn, NewTurn
<1>c. (turn[q].cursor = 1 => ~turn[q].acked) /\ ~Delivered(q, 1)
  <2>1. 0 \in Nat /\ 0 + 1 = 1 /\ step[p] <= 0 /\ turn[p].cursor = 0 /\ Len(sealed[p]) = 0
    BY <1>a
  <2> QED
    BY <2>1, FreshPace
<1>1. RequestLink(p)'
  BY <1>a, <1>b, <1>t DEF CauseLinks, RequestLink, Closing, Calling
<1>2. RequestLink(q)'
  BY <1>a, <1>b, <1>t DEF CauseLinks, RequestLink, Over
<1>3. PaceLink(p, q)'
  BY <1>a, <1>b, <1>c, <1>t DEF CauseLinks, PaceLink, Delivered, Acking
<1>4. PaceLink(q, p)'
  BY <1>a, <1>b, <1>c, <1>t DEF CauseLinks, PaceLink, Delivered
<1>5. CloseLink(p, q)'
  BY <1>a, <1>b, <1>t DEF CauseLinks, CloseLink
<1>6. CloseLink(q, p)'
  BY <1>a, <1>b, <1>t DEF CauseLinks, CloseLink
<1> QED
  BY <1>1, <1>2, <1>3, <1>4, <1>5, <1>6 DEF CauseLinks

(* Committing preserves them: the peer has not taken a digest of the round.*)
LEMMA SendCommitmentLinks ==
  ASSUME CauseInv, NEW p \in Peer, SendCommitment(p), NEW q \in Peer, q = Other(p)
  PROVE  CauseLinks(p, q)' /\ CauseLinks(q, p)'
<1>t. /\ pc \in [Peer -> Ready \cup Calling \cup Suspended \cup Final]
      /\ turn \in [Peer -> Turns] /\ call \in [Peer -> Messages] /\ reply \in [Peer -> Replies]
      /\ sealed \in [Peer -> Seq(Sealed)]
      /\ None.kind = "none" /\ CallLink(p) /\ CauseLinks(p, q) /\ CauseLinks(q, p)
      /\ Other(q) = p /\ p # q /\ TypeInv /\ FairInv
      /\ turn[q].cursor \in Nat /\ step[p] \in Nat
  BY CauseFacts
<1>a. PICK record :
        /\ sealed' = [sealed EXCEPT ![p] = Append(@, record)]
        /\ turn' = [turn EXCEPT ![p].ours = record]
        /\ call' = [call EXCEPT ![p] = [kind |-> "commitment", cursor |-> record.step,
                                        digest |-> record]]
        /\ record.step = turn[p].cursor
        /\ pc' = [pc EXCEPT ![p] = "commitSent"]
  BY DEF SendCommitment, Send
<1>b. /\ pc[p] = "commit" /\ Len(sealed[p]) = step[p] /\ turn[p].cursor = step[p] + 1
      /\ UNCHANGED <<told, witnessed, step, captured, reply, auPhase>>
      /\ pc'[p] = "commitSent" /\ pc'[q] = pc[q] /\ sealed'[q] = sealed[q]
      /\ call'[p].kind = "commitment" /\ call'[p] # None /\ call'[q] = call[q]
      /\ \A r \in Peer : /\ turn'[r].cursor = turn[r].cursor /\ turn'[r].phase = turn[r].phase
                         /\ turn'[r].acked = turn[r].acked
      /\ reply[p] = None
  BY <1>a, <1>t DEF SendCommitment, Turns, TypeInv, RecordLink, RoundLink, Playing, CallLink,
     Calling
<1>c. turn[q].cursor = turn[p].cursor => turn[q].phase = "AWAITING_COMMITMENT"
  <2>1. turn[q].phase # "UNBOUND" \/ turn[q].cursor = 0
    BY <1>t DEF CauseLinks, PaceLink
  <2>2. turn[q].phase \in {"AWAITING_OUR_ACKNOWLEDGEMENT", "AWAITING_REVEAL", "CONSUMED"} =>
          turn[q].cursor \in 1 .. Len(sealed[p])
    <3>1. PhaseLink(q) /\ TheirsLink(q)
      BY <1>t DEF TypeInv, FairInv
    <3> QED
      BY <3>1, <1>t, NoneFacts DEF PhaseLink, TheirsLink
  <2>3. turn[q].phase \in TurnPhases
    BY <1>t DEF Turns
  <2> QED
    BY <2>1, <2>2, <2>3, <1>b, <1>t DEF TurnPhases
<1>1. RequestLink(p)'
  BY <1>b, <1>t DEF CauseLinks, RequestLink, Closing, Calling
<1>2. RequestLink(q)'
  BY <1>b, <1>t DEF CauseLinks, RequestLink, Over
<1>3. PaceLink(p, q)'
  BY <1>b, <1>c, <1>t DEF CauseLinks, PaceLink, Delivered, Acking
<1>4. PaceLink(q, p)'
  BY <1>b, <1>t DEF CauseLinks, PaceLink, Delivered
<1>5. CloseLink(p, q)'
  BY <1>b, <1>t DEF CauseLinks, CloseLink, Playing
<1>6. CloseLink(q, p)'
  BY <1>b, <1>t DEF CauseLinks, CloseLink
<1> QED
  BY <1>1, <1>2, <1>3, <1>4, <1>5, <1>6 DEF CauseLinks

(* Locking the peer's digest preserves them.                               *)
LEMMA SendAcknowledgementLinks ==
  ASSUME CauseInv, NEW p \in Peer, SendAcknowledgement(p), NEW q \in Peer, q = Other(p)
  PROVE  CauseLinks(p, q)' /\ CauseLinks(q, p)'
<1>t. /\ pc \in [Peer -> Ready \cup Calling \cup Suspended \cup Final]
      /\ turn \in [Peer -> Turns] /\ call \in [Peer -> Messages] /\ reply \in [Peer -> Replies]
      /\ None.kind = "none" /\ CallLink(p) /\ CauseLinks(p, q) /\ CauseLinks(q, p)
      /\ Other(q) = p /\ p # q
  BY CauseFacts
<1>b. /\ pc[p] = "awaitCommit" /\ turn[p].phase = "AWAITING_OUR_ACKNOWLEDGEMENT"
      /\ UNCHANGED <<told, witnessed, step, captured, reply, auPhase, sealed>>
      /\ pc'[p] = "ackSent" /\ pc'[q] = pc[q] /\ turn'[q] = turn[q]
      /\ call'[p].kind = "acknowledgement" /\ call'[p] # None /\ call'[q] = call[q]
      /\ turn'[p].cursor = turn[p].cursor /\ turn'[p].phase = "AWAITING_REVEAL"
      /\ turn'[p].acked = turn[p].acked /\ reply[p] = None
  BY <1>t DEF SendAcknowledgement, Send, Turns, CallLink, Calling
<1>1. RequestLink(p)'
  BY <1>b, <1>t DEF CauseLinks, RequestLink, Closing, Calling
<1>2. RequestLink(q)'
  BY <1>b, <1>t DEF CauseLinks, RequestLink, Over
<1>3. PaceLink(p, q)'
  BY <1>b, <1>t DEF CauseLinks, PaceLink, Delivered, Acking
<1>4. PaceLink(q, p)'
  BY <1>b, <1>t DEF CauseLinks, PaceLink, Delivered
<1>5. CloseLink(p, q)'
  BY <1>b, <1>t DEF CauseLinks, CloseLink, Playing
<1>6. CloseLink(q, p)'
  BY <1>b, <1>t DEF CauseLinks, CloseLink
<1> QED
  BY <1>1, <1>2, <1>3, <1>4, <1>5, <1>6 DEF CauseLinks

(* Taking a digest preserves them.                                         *)
LEMMA AcceptCommitmentLinks ==
  ASSUME CauseInv, NEW p \in Peer, AcceptCommitment(p), NEW q \in Peer, q = Other(p)
  PROVE  CauseLinks(p, q)' /\ CauseLinks(q, p)'
<1>t. /\ turn \in [Peer -> Turns] /\ call \in [Peer -> Messages] /\ reply \in [Peer -> Replies]
      /\ None.kind = "none" /\ CauseLinks(p, q) /\ CauseLinks(q, p) /\ FairInv /\ TypeInv
      /\ Other(q) = p /\ p # q /\ Ok # None /\ step[p] \in Nat
  BY CauseFacts
<1>a. /\ call[p].kind = "commitment" /\ turn[q].phase = "AWAITING_COMMITMENT"
      /\ pc[p] = "commitSent" /\ turn[p].cursor = step[p] + 1 /\ turn[q].cursor = turn[p].cursor
  BY <1>t DEF AcceptCommitment, Receive, Admits, FairInv, FlightLink, TypeInv, RoundLink, Playing
<1>b. /\ UNCHANGED <<told, witnessed, step, captured, auPhase, sealed, pc>>
      /\ turn'[p] = turn[p] /\ call'[p] = None /\ call'[q] = call[q] /\ reply'[p] = Ok
      /\ reply'[q] = reply[q]
      /\ turn'[q].cursor = turn[q].cursor /\ turn'[q].phase = "AWAITING_OUR_ACKNOWLEDGEMENT"
      /\ turn'[q].acked = turn[q].acked
  BY <1>t DEF AcceptCommitment, Answer, Turns
<1>1. RequestLink(p)'
  BY <1>b, <1>t DEF CauseLinks, RequestLink, Over
<1>2. RequestLink(q)'
  BY <1>b, <1>t DEF CauseLinks, RequestLink, Over
<1>3. PaceLink(p, q)'
  BY <1>a, <1>b, <1>t DEF CauseLinks, PaceLink, Delivered
<1>4. PaceLink(q, p)'
  BY <1>a, <1>b, <1>t DEF CauseLinks, PaceLink, Delivered
<1>5. CloseLink(p, q)'
  BY <1>a, <1>b, <1>t DEF CauseLinks, CloseLink
<1>6. CloseLink(q, p)'
  BY <1>b, <1>t DEF CauseLinks, CloseLink
<1> QED
  BY <1>1, <1>2, <1>3, <1>4, <1>5, <1>6 DEF CauseLinks

(* Recording an acknowledgement preserves them.                            *)
LEMMA AcceptAcknowledgementLinks ==
  ASSUME CauseInv, NEW p \in Peer, AcceptAcknowledgement(p), NEW q \in Peer, q = Other(p)
  PROVE  CauseLinks(p, q)' /\ CauseLinks(q, p)'
<1>t. /\ turn \in [Peer -> Turns] /\ call \in [Peer -> Messages] /\ reply \in [Peer -> Replies]
      /\ None.kind = "none" /\ CauseLinks(p, q) /\ CauseLinks(q, p) /\ FairInv
      /\ Other(q) = p /\ p # q /\ Ok # None
  BY CauseFacts
<1>a. call[p].kind = "acknowledgement" /\ pc[p] = "ackSent"
  BY <1>t DEF AcceptAcknowledgement, Receive, FairInv, FlightLink
<1>b. /\ UNCHANGED <<told, witnessed, step, captured, auPhase, sealed, pc>>
      /\ turn'[p] = turn[p] /\ call'[p] = None /\ call'[q] = call[q] /\ reply'[p] = Ok
      /\ reply'[q] = reply[q]
      /\ turn'[q].cursor = turn[q].cursor /\ turn'[q].phase = turn[q].phase
  BY <1>t DEF AcceptAcknowledgement, Answer, Turns
<1>1. RequestLink(p)'
  BY <1>b, <1>t DEF CauseLinks, RequestLink, Over
<1>2. RequestLink(q)'
  BY <1>b, <1>t DEF CauseLinks, RequestLink, Over
<1>3. PaceLink(p, q)'
  BY <1>a, <1>b, <1>t DEF CauseLinks, PaceLink, Delivered, Acking
<1>4. PaceLink(q, p)'
  BY <1>a, <1>b, <1>t DEF CauseLinks, PaceLink, Delivered
<1>5. CloseLink(p, q)'
  BY <1>a, <1>b, <1>t DEF CauseLinks, CloseLink
<1>6. CloseLink(q, p)'
  BY <1>b, <1>t DEF CauseLinks, CloseLink
<1> QED
  BY <1>1, <1>2, <1>3, <1>4, <1>5, <1>6 DEF CauseLinks

(* Consuming a reveal preserves them.                                      *)
LEMMA AcceptRevealLinks ==
  ASSUME CauseInv, NEW p \in Peer, AcceptReveal(p), NEW q \in Peer, q = Other(p)
  PROVE  CauseLinks(p, q)' /\ CauseLinks(q, p)'
<1>t. /\ turn \in [Peer -> Turns] /\ call \in [Peer -> Messages] /\ reply \in [Peer -> Replies]
      /\ None.kind = "none" /\ CauseLinks(p, q) /\ CauseLinks(q, p) /\ FairInv /\ TypeInv
      /\ Other(q) = p /\ p # q /\ NetworkType' /\ turn[q].cursor \in Nat
  BY CauseFacts, TypeNext DEF TypeInv, TypeOK, Next, Serve
<1>a. /\ call[p].kind = "reveal" /\ turn[q].phase = "AWAITING_REVEAL" /\ pc[p] = "revealSent"
  BY <1>t DEF AcceptReveal, Receive, Admits, FairInv, FlightLink
<1>b. /\ UNCHANGED <<told, witnessed, step, captured, auPhase, sealed, pc>>
      /\ turn'[p] = turn[p] /\ call'[p] = None /\ call'[q] = call[q]
      /\ reply'[p].kind = "ok" /\ reply'[q] = reply[q]
      /\ turn'[q].cursor = turn[q].cursor /\ turn'[q].phase = "CONSUMED"
      /\ turn'[q].acked = turn[q].acked
  BY <1>t DEF AcceptReveal, Answer, Turns
<1>c. reply'[p] # None
  BY <1>b, <1>t
<1>1. RequestLink(p)'
  BY <1>b, <1>c, <1>t DEF CauseLinks, RequestLink, Over
<1>2. RequestLink(q)'
  BY <1>b, <1>t DEF CauseLinks, RequestLink, Over
<1>3. PaceLink(p, q)'
  BY <1>a, <1>b, <1>t DEF CauseLinks, PaceLink, Delivered
<1>4. PaceLink(q, p)'
  BY <1>a, <1>b, <1>t DEF CauseLinks, PaceLink, Delivered
<1>5. CloseLink(p, q)'
  BY <1>a, <1>b, <1>t DEF CauseLinks, CloseLink
<1>6. CloseLink(q, p)'
  BY <1>b, <1>t DEF CauseLinks, CloseLink
<1> QED
  BY <1>1, <1>2, <1>3, <1>4, <1>5, <1>6 DEF CauseLinks

(* What an adoption finds and does: the reveal of the round was consumed   *)
(* and our own was accepted, so the driver goes on or closes.              *)
LEMMA AdoptFacts ==
  ASSUME CauseInv, NEW p \in Peer, Adopt(p), NEW q \in Peer, q = Other(p), NEW k,
         k = step[p] + 1
  PROVE  /\ pc[p] = "awaitReveal" /\ turn[p].cursor = k /\ Len(sealed[p]) = k
         /\ k <= Len(sealed[q]) /\ k \in Nat /\ call[p] = None
         /\ step' = [step EXCEPT ![p] = k]
         /\ witnessed' = [witnessed EXCEPT ![p] = Append(@, turn[p].seen)]
         /\ UNCHANGED <<sealed, told, auPhase, call, reply>>
         /\ captured' = [captured EXCEPT ![p] = captured[p] \/ CaughtIn(turn[p])]
         /\ \/ /\ Terminal(captured[p] \/ CaughtIn(turn[p]), k) # "NONE"
               /\ turn' = turn /\ pc' = [pc EXCEPT ![p] = "nonces"]
            \/ /\ \E b, c : turn' = [turn EXCEPT ![p] = FreshTurn(k, b, c)]
               /\ pc' = [pc EXCEPT ![p] = "commit"]
<1>t. /\ TypeInv /\ FairInv /\ GameLinks(p) /\ GameLinks(q) /\ Other(q) = p
      /\ step[p] \in Nat /\ turn[p].cursor \in Nat /\ Len(sealed[p]) \in Nat /\ CallLink(p)
  BY CauseFacts
<1>1. /\ pc[p] = "awaitReveal" /\ turn[p].phase = "CONSUMED" /\ turn[p].cursor = k
      /\ Len(sealed[p]) = k /\ call[p] = None /\ turn[p].seen \in Witness
      /\ turn[p].answered.accepted = TRUE
  BY <1>t DEF Adopt, TypeInv, RoundLink, RecordLink, PhaseLink, Playing, Sealing, CallLink,
     Calling, GameLinks, AnswerLink
<1>2. k <= Len(sealed[q])
  BY <1>1, <1>t, NoneFacts DEF GameLinks, ShownLink, Shows
<1>3. /\ step' = [step EXCEPT ![p] = k]
      /\ witnessed' = [witnessed EXCEPT ![p] = Append(@, turn[p].seen)]
      /\ UNCHANGED <<sealed, told, auPhase, call, reply>>
      /\ captured' = [captured EXCEPT ![p] = captured[p] \/ CaughtIn(turn[p])]
  BY <1>1 DEF Adopt
<1>4. \/ /\ Terminal(captured[p] \/ CaughtIn(turn[p]), k) # "NONE"
         /\ turn' = turn /\ pc' = [pc EXCEPT ![p] = "nonces"]
      \/ /\ turn' = [turn EXCEPT ![p] = FreshTurn(k, Merged(p, chosen[p].action),
                                                  Landing(p, chosen[p].action))]
         /\ pc' = [pc EXCEPT ![p] = "commit"]
  BY <1>1 DEF Adopt
<1> QED
  BY <1>1, <1>2, <1>3, <1>4, <1>t

(* Adopting a round preserves them.                                        *)
LEMMA AdoptLinks ==
  ASSUME CauseInv, NEW p \in Peer, Adopt(p), NEW q \in Peer, q = Other(p)
  PROVE  CauseLinks(p, q)' /\ CauseLinks(q, p)'
<1> DEFINE k == step[p] + 1
<1>t. /\ pc \in [Peer -> Ready \cup Calling \cup Suspended \cup Final]
      /\ turn \in [Peer -> Turns] /\ witnessed \in [Peer -> Seq(Witness)]
      /\ step \in [Peer -> Steps] /\ captured \in [Peer -> BOOLEAN]
      /\ None.kind = "none" /\ CallLink(p) /\ CauseLinks(p, q) /\ CauseLinks(q, p)
      /\ Other(q) = p /\ p # q /\ turn[q].cursor \in Nat /\ step[p] \in Nat
      /\ Len(witnessed[p]) \in Nat
  BY CauseFacts
<1>a. /\ pc[p] = "awaitReveal" /\ turn[p].cursor = k /\ Len(sealed[p]) = k
      /\ k <= Len(sealed[q]) /\ k \in Nat /\ call[p] = None
      /\ step' = [step EXCEPT ![p] = k]
      /\ witnessed' = [witnessed EXCEPT ![p] = Append(@, turn[p].seen)]
      /\ UNCHANGED <<sealed, told, auPhase, call, reply>>
      /\ captured' = [captured EXCEPT ![p] = captured[p] \/ CaughtIn(turn[p])]
      /\ \/ /\ Terminal(captured[p] \/ CaughtIn(turn[p]), k) # "NONE"
            /\ turn' = turn /\ pc' = [pc EXCEPT ![p] = "nonces"]
         \/ /\ \E b, c : turn' = [turn EXCEPT ![p] = FreshTurn(k, b, c)]
            /\ pc' = [pc EXCEPT ![p] = "commit"]
  BY AdoptFacts
<1>b. /\ step'[p] = k /\ step'[q] = step[q] /\ captured'[q] = captured[q] /\ pc'[q] = pc[q]
      /\ captured'[p] = (captured[p] \/ CaughtIn(turn[p]))
      /\ Len(witnessed[p]) = step[p] /\ Len(witnessed'[p]) = k /\ witnessed'[q] = witnessed[q]
      /\ turn'[q] = turn[q] /\ pc'[p] \in {"nonces", "commit"} /\ k - 1 = step[p]
  <2>1. Len(witnessed[p]) = step[p]
    BY <1>t DEF CauseLinks, RequestLink
  <2>2. Len(Append(witnessed[p], turn[p].seen)) = Len(witnessed[p]) + 1
    BY <1>t
  <2>3. /\ step'[p] = k /\ step'[q] = step[q] /\ captured'[q] = captured[q] /\ pc'[q] = pc[q]
        /\ captured'[p] = (captured[p] \/ CaughtIn(turn[p])) /\ witnessed'[q] = witnessed[q]
        /\ witnessed'[p] = Append(witnessed[p], turn[p].seen)
    BY <1>a, <1>t
  <2>4. turn'[q] = turn[q] /\ pc'[p] \in {"nonces", "commit"}
    BY <1>a, <1>t
  <2> QED
    BY <2>1, <2>2, <2>3, <2>4, <1>t
<1>c. \/ /\ Terminal(captured'[p], k) # "NONE" /\ turn'[p] = turn[p] /\ pc'[p] = "nonces"
      \/ /\ turn'[p].cursor = k + 1 /\ turn'[p].phase = "AWAITING_COMMITMENT"
         /\ turn'[p].acked = FALSE /\ pc'[p] = "commit"
  <2>1. CASE /\ Terminal(captured[p] \/ CaughtIn(turn[p]), k) # "NONE"
             /\ turn' = turn /\ pc' = [pc EXCEPT ![p] = "nonces"]
    BY <2>1, <1>b, <1>t
  <2>2. ASSUME NEW b, NEW c, turn' = [turn EXCEPT ![p] = FreshTurn(k, b, c)],
               pc' = [pc EXCEPT ![p] = "commit"]
        PROVE  /\ turn'[p].cursor = k + 1 /\ turn'[p].phase = "AWAITING_COMMITMENT"
               /\ turn'[p].acked = FALSE /\ pc'[p] = "commit"
    BY <2>2, <1>t DEF FreshTurn, NewTurn
  <2> QED
    BY <1>a, <2>1, <2>2
<1>f. (turn[q].cursor = k + 1 => ~turn[q].acked) /\ ~Delivered(q, k + 1)
  <2>1. step[p] <= k /\ k \in Nat
    BY <1>t
  <2> HIDE DEF k
  <2> QED
    BY <2>1, <1>a, FreshPace
<1> HIDE DEF k
<1>1. RequestLink(p)'
  BY <1>a, <1>b, <1>c, <1>t DEF CauseLinks, RequestLink, Closing, Calling, Over
<1>2. RequestLink(q)'
  BY <1>a, <1>b, <1>t DEF CauseLinks, RequestLink, Over
<1>3. PaceLink(p, q)'
  <2>1. turn[q].cursor # 0 /\ k >= turn[q].cursor => Delivered(p, turn[q].cursor)
    BY <1>a, <1>b, <1>t DEF Delivered
  <2> QED
    BY <2>1, <1>a, <1>b, <1>c, <1>f, <1>t DEF CauseLinks, PaceLink, Delivered, Acking
<1>4. PaceLink(q, p)'
  BY <1>a, <1>b, <1>c, <1>f, <1>t DEF CauseLinks, PaceLink, Delivered
<1>5. CloseLink(p, q)'
  BY <1>a, <1>b, <1>t DEF CauseLinks, CloseLink, Playing
<1>6. CloseLink(q, p)'
  BY <1>a, <1>b, <1>t DEF CauseLinks, CloseLink
<1> QED
  BY <1>1, <1>2, <1>3, <1>4, <1>5, <1>6 DEF CauseLinks

(* A peer still in a round the other has adopted has a step of its own.    *)
LEMMA BehindRuns ==
  ASSUME CauseInv, NEW p \in Peer, NEW q \in Peer, q = Other(p), causes = {},
         pc[q] \in Playing, step[p] >= turn[q].cursor
  PROVE  Runnable(q)
<1>t. /\ pc \in [Peer -> Ready \cup Calling \cup Suspended \cup Final]
      /\ None.kind = "none" /\ CallLink(q) /\ CauseLinks(p, q) /\ CauseLinks(q, p) /\ FairInv
      /\ TypeInv /\ Other(q) = p /\ turn[q].cursor \in Nat /\ step[q] \in Nat /\ step[p] \in Nat
  BY CauseFacts
<1>1. turn[q].cursor = step[q] + 1 /\ turn[q].cursor # 0
  BY <1>t DEF TypeInv, RoundLink
<1>2. turn[q].phase = "CONSUMED"
  BY <1>1, <1>t DEF CauseLinks, PaceLink, Delivered
<1>3. Revealed(q, turn[q].cursor)
  <2>1. Len(witnessed[p]) = step[p]
    BY <1>t DEF CauseLinks, RequestLink
  <2>2. turn[q].cursor \in 1 .. Len(witnessed[p])
    BY <1>1, <1>t, <2>1
  <2> QED
    BY <2>2, <1>t DEF FairInv, RevealLink
<1>4. pc[q] \in {"revealSent", "awaitReveal"} /\ call[q].kind # "reveal"
  BY <1>3, <1>t DEF Revealed, Playing
<1>5. CASE pc[q] = "awaitReveal"
  BY <1>2, <1>5 DEF Runnable, Arrived
<1>6. CASE pc[q] = "revealSent"
  <2>1. call[q] = None
    BY <1>4, <1>6, <1>t DEF CallLink
  <2> QED
    BY <2>1, <1>6, <1>t DEF CauseLinks, RequestLink, Calling, Runnable
<1> QED
  BY <1>4, <1>5, <1>6

(* Until p's reveal of a round is served, q has not adopted that round.    *)
LEMMA NotAdopted ==
  ASSUME CauseInv, NEW p \in Peer, NEW q \in Peer, q = Other(p),
         turn[p].cursor # 0, ~Revealed(p, turn[p].cursor)
  PROVE  step[q] < turn[p].cursor
<1>t. /\ CauseLinks(q, p) /\ FairInv /\ turn[p].cursor \in Nat /\ step[q] \in Nat
  BY CauseFacts
<1>1. SUFFICES ASSUME step[q] >= turn[p].cursor PROVE FALSE
  BY <1>t
<1>2. turn[p].cursor \in 1 .. Len(witnessed[q])
  BY <1>1, <1>t DEF CauseLinks, RequestLink
<1> QED
  BY <1>2, <1>t DEF FairInv, RevealLink

(* So a commitment finds its receiver awaiting it, or with a step to take. *)
LEMMA CommitmentOwned ==
  ASSUME CauseInv, NEW p \in Peer, NEW q \in Peer, q = Other(p), causes = {},
         ~Runnable(q), call[p].kind = "commitment"
  PROVE  Admits(q, call[p])
<1>t. /\ pc \in [Peer -> Ready \cup Calling \cup Suspended \cup Final]
      /\ CauseLinks(p, q) /\ CauseLinks(q, p) /\ FairInv /\ TypeInv /\ GameLinks(p) /\ GameLinks(q)
      /\ Other(q) = p /\ Other(p) = q /\ turn[q].cursor \in Nat /\ turn[p].cursor \in Nat /\ CauseLink(q)
      /\ Len(sealed[p]) \in Nat /\ Len(sealed[q]) \in Nat /\ step[p] \in Nat /\ step[q] \in Nat
      /\ CopiesAgree
  BY CauseFacts, GameImplies
<1>1. pc[p] = "commitSent" /\ call[p].cursor = turn[p].cursor
  BY <1>t DEF FairInv, FlightLink
<1>2. turn[p].cursor = step[p] + 1 /\ Len(sealed[p]) = step[p] + 1
  BY <1>1, <1>t DEF TypeInv, RoundLink, RecordLink, Playing, Sealing
<1>3. step[q] < turn[p].cursor
  BY <1>1, <1>2, <1>t, NotAdopted DEF Revealed
<1>4. pc[q] \in Playing
  <2>1. pc[q] \notin Closing
    <3>1. SUFFICES ASSUME Over(q) PROVE FALSE
      BY <1>t DEF CauseLinks, RequestLink
    <3>2. Len(sealed[p]) <= step[q]
      BY <3>1, <1>t DEF CopiesAgree, OutcomeAgreement
    <3> QED
      BY <3>2, <1>2, <1>3, <1>t
  <2>2. pc[q] # "failed" /\ pc[q] \notin Ready
    BY <1>t DEF CauseLink, Runnable
  <2> QED
    BY <2>1, <2>2, <1>t DEF Ready, Calling, Suspended, Final, Closing, Playing
<1>5. turn[q].cursor = step[q] + 1 /\ Len(sealed[q]) <= step[q] + 1
  BY <1>4, <1>t DEF TypeInv, RoundLink, GameLinks, TruthLink
<1>6. ~(step[p] >= turn[q].cursor)
  BY <1>4, <1>t, BehindRuns
<1>7. turn[q].cursor = turn[p].cursor
  BY <1>2, <1>3, <1>5, <1>6, <1>t
<1> QED
  BY <1>1, <1>7, <1>t DEF CauseLinks, PaceLink, Admits

(* An acknowledgement finds the digest it names sealed and unacknowledged. *)
LEMMA AcknowledgementOwned ==
  ASSUME CauseInv, NEW p \in Peer, NEW q \in Peer, q = Other(p),
         call[p].kind = "acknowledgement"
  PROVE  Admits(q, call[p])
<1>t. /\ CauseLinks(p, q) /\ FairInv /\ TypeInv /\ GameLinks(q) /\ Other(p) = q
      /\ turn[q].cursor \in Nat /\ turn[p].cursor \in Nat
      /\ Len(sealed[q]) \in Nat /\ step[p] \in Nat /\ step[q] \in Nat
  BY CauseFacts
<1>1. pc[p] = "ackSent" /\ call[p].cursor = turn[p].cursor /\ call[p].digest = turn[p].theirs
  BY <1>t DEF FairInv, FlightLink
<1>2. /\ turn[p].cursor \in 1 .. Len(sealed[q])
      /\ sealed[q][turn[p].cursor] = turn[p].theirs
  BY <1>1, <1>t DEF FairInv, MilestoneLink, TheirsLink
<1>3. step[q] < turn[p].cursor
  BY <1>1, <1>2, <1>t, NotAdopted DEF Revealed
<1>4. step[q] = turn[p].cursor - 1 /\ Len(sealed[q]) = turn[p].cursor
  BY <1>2, <1>3, <1>t DEF GameLinks, TruthLink
<1>5. turn[q].ours # None /\ turn[q].cursor = turn[p].cursor
  <2>1. turn[q].cursor # 0 => step[q] = turn[q].cursor - 1 \/ step[q] = turn[q].cursor
    BY <1>t DEF GameLinks, BoundLink
  <2>2. SealLink(q)
    BY <1>t DEF FairInv
  <2>3. turn[q].ours # None
    BY <2>1, <2>2, <1>2, <1>4, <1>t DEF SealLink
  <2> QED
    BY <2>2, <2>3, <1>4 DEF SealLink
<1>6. turn[q].ours = turn[p].theirs
  BY <1>2, <1>5, <1>t DEF FairInv, SealLink
<1>7. turn[q].acked # TRUE
  BY <1>5, <1>t DEF CauseLinks, PaceLink
<1> QED
  BY <1>1, <1>5, <1>6, <1>7 DEF Admits

(* A reveal finds the digest it opens locked and not yet opened.           *)
LEMMA RevealOwned ==
  ASSUME CauseInv, NEW p \in Peer, NEW q \in Peer, q = Other(p), call[p].kind = "reveal"
  PROVE  Admits(q, call[p])
<1>t. /\ CauseLinks(q, p) /\ FairInv /\ TypeInv /\ Other(p) = q /\ turn \in [Peer -> Turns]
      /\ turn[p].cursor \in Nat /\ PhaseLink(q)
  BY CauseFacts
<1>1. pc[p] = "revealSent" /\ call[p].cursor = turn[p].cursor /\ turn[p].acked
  BY <1>t DEF FairInv, FlightLink, MilestoneLink
<1>2. ~Revealed(p, turn[p].cursor)
  BY <1>1, <1>t DEF Revealed
<1>3. turn[q].cursor = turn[p].cursor /\ turn[q].theirs # None
  <2>1. turn[p].ours # None /\ HoldsDigest(q, turn[p].cursor, turn[p].ours)
    BY <1>1, <1>t DEF FairInv, AckLink
  <2>2. turn[p].cursor # 0
    BY <2>1, <1>t, BoardAssumption DEF FairInv, SealLink, Rounds
  <2>3. ~(turn[p].cursor <= Len(witnessed[q]))
    BY <1>2, <2>2, <1>t, CauseFacts DEF FairInv, RevealLink
  <2> QED
    BY <2>1, <2>3 DEF HoldsDigest
<1>4. turn[q].phase \notin {"UNBOUND", "AWAITING_COMMITMENT"}
  BY <1>3, <1>t DEF FairInv, WitnessLink
<1>5. turn[q].phase # "CONSUMED"
  BY <1>2, <1>3, <1>t, NoneFacts DEF PhaseLink, FairInv, RevealLink
<1>6. turn[q].phase \in {"AWAITING_REVEAL", "CONSUMED"}
  BY <1>1, <1>3, <1>t DEF CauseLinks, PaceLink
<1> QED
  BY <1>1, <1>3, <1>5, <1>6 DEF Admits

(* The final nonces find their receiver closing, or with a step to take.   *)
LEMMA NoncesOwned ==
  ASSUME CauseInv, NEW p \in Peer, NEW q \in Peer, q = Other(p), causes = {},
         ~Runnable(q), call[p].kind = "nonces"
  PROVE  Admits(q, call[p])
<1>t. /\ pc \in [Peer -> Ready \cup Calling \cup Suspended \cup Final]
      /\ CauseLinks(p, q) /\ CauseLinks(q, p) /\ TypeInv /\ GameLinks(p) /\ GameLinks(q)
      /\ Other(q) = p /\ Other(p) = q /\ CauseLink(q)
      /\ Len(sealed[p]) \in Nat /\ Len(sealed[q]) \in Nat /\ step[p] \in Nat /\ step[q] \in Nat
      /\ CopiesAgree
  BY CauseFacts, GameImplies
<1>1. pc[p] = "noncesSent" /\ call[p].count = Len(sealed[p]) /\ Over(p)
  BY <1>t DEF CauseLinks, RequestLink, Closing
<1>2. Len(sealed[p]) = step[p]
  BY <1>1, <1>t DEF TypeInv, RecordLink
<1>3. step[q] <= step[p] /\ Len(sealed[q]) <= step[p] /\ step[p] <= Len(sealed[q])
        /\ Len(sealed[q]) <= step[q] + 1
  BY <1>1, <1>t DEF CopiesAgree, OutcomeAgreement, GameLinks, TruthLink
<1>4. pc[q] # "failed" /\ pc[q] \notin Ready
  BY <1>t DEF CauseLink, Runnable
<1>5. pc[q] \notin Playing
  <2>1. SUFFICES ASSUME pc[q] \in Playing PROVE FALSE
    OBVIOUS
  <2>2. turn[q].cursor = step[q] + 1
    BY <2>1, <1>t DEF TypeInv, RoundLink
  <2>3. ~(step[p] >= turn[q].cursor)
    BY <2>1, <1>t, BehindRuns
  <2>4. step[q] = step[p]
    BY <2>2, <2>3, <1>3, <1>t
  <2>5. captured[q] = captured[p]
    BY <2>4, <1>t, PairFacts DEF CopiesAgree, OutcomeAgreement, Peer
  <2>6. Over(q)
    BY <2>4, <2>5, <1>1 DEF Over
  <2> QED
    BY <2>1, <2>6, PlayingNotOver
<1>6. pc[q] \in Closing
  BY <1>4, <1>5, <1>t DEF Ready, Calling, Suspended, Final, Closing, Playing
<1>7. Len(sealed[q]) = step[q]
  BY <1>6, <1>t DEF TypeInv, RecordLink, Closing
<1>8. Len(witnessed[q]) = Len(sealed[p])
  BY <1>2, <1>3, <1>7, <1>t DEF CauseLinks, RequestLink
<1>9. auPhase[q] = "AWAITING_NONCES"
  BY <1>6, <1>t DEF CauseLinks, CloseLink, Closing
<1> QED
  BY <1>1, <1>8, <1>9 DEF Admits

(* The disclosure finds its receiver awaiting it, with the rows it kept.   *)
LEMMA DisclosureOwned ==
  ASSUME CauseInv, NEW p \in Peer, NEW q \in Peer, q = Other(p), call[p].kind = "disclosure"
  PROVE  Admits(q, call[p])
<1>t. /\ CauseLinks(p, q) /\ TypeInv /\ GameLinks(p) /\ GameLinks(q) /\ AuditLink(p)
      /\ Other(q) = p /\ Len(sealed[p]) \in Nat /\ Len(witnessed[q]) \in Nat
      /\ told \in [Peer -> Seq(Row)] /\ step[p] \in Nat
  BY CauseFacts
<1>1. /\ pc[p] = "disclosureSent" /\ call[p].log = sealed[p] /\ call[p].rows = told[p]
      /\ auPhase[q] = "AWAITING_DISCLOSURE"
  BY <1>t DEF AuditLink, CauseLinks, RequestLink, CloseLink
<1>2. Len(witnessed[q]) = Len(sealed[p])
  BY <1>1, <1>t DEF CauseLinks, CloseLink
<1>3. Len(told[p]) = step[p] /\ Len(sealed[p]) = step[p]
  BY <1>1, <1>t DEF GameLinks, ToldLink, Closing, TypeInv, RecordLink
<1>4. ASSUME NEW k \in 1 .. Len(told[p]) PROVE told[p][k] = witnessed[q][k].row
  <2>1. told[p][k] = Asked(sealed, p, k)
    BY <1>t DEF GameLinks, ToldLink
  <2>2. Shows(sealed, witnessed[q][k], p, k)
    BY <1>2, <1>3, <1>t DEF GameLinks, ShownLink
  <2> QED
    BY <2>1, <2>2 DEF Shows
<1>5. told[p] = [k \in 1 .. Len(told[p]) |-> told[p][k]]
  <2>1. told[p] \in Seq(Row)
    BY <1>t
  <2> QED
    BY <2>1
<1>6. told[p] = RowsOf(witnessed[q])
  BY <1>2, <1>3, <1>4, <1>5 DEF RowsOf
<1> QED
  BY <1>1, <1>2, <1>6 DEF Admits

(* No request overtakes a peer that has nothing left to do before it.      *)
LEMMA PromptAdmits ==
  ASSUME CauseInv, NEW p \in Peer, call[p] # None, ~Runnable(Other(p)), causes = {}
  PROVE  Admits(Other(p), call[p])
<1>1. call[p] \in Messages /\ Other(p) \in Peer
  BY CauseFacts
<1>2. call[p].kind \in {"commitment", "acknowledgement", "reveal", "nonces", "disclosure"}
  BY <1>1 DEF Messages
<1> QED
  BY <1>1, <1>2, CommitmentOwned, AcknowledgementOwned, RevealOwned, NoncesOwned, DisclosureOwned

(* A step of p leaves what r was served as it was, and takes nothing back  *)
(* of what r recorded.                                                     *)
SameServed(r) ==
  /\ Committed(r)' => Committed(r) /\ turn'[r].cursor = turn[r].cursor
  /\ Acknowledged(r)' => Acknowledged(r) /\ turn'[r].cursor = turn[r].cursor
  /\ Disclosed(r)' => Disclosed(r)

SameRecord(r) ==
  /\ \/ turn'[r].cursor > turn[r].cursor
     \/ /\ turn'[r].cursor = turn[r].cursor
        /\ turn[r].phase \in Held => turn'[r].phase \in Held
        /\ turn[r].acked => turn'[r].acked
  /\ auPhase[r] = "COMPLETE" => auPhase'[r] = "COMPLETE"

LEMMA QuietServed ==
  ASSUME NEW p \in Peer, NEW q \in Peer, ServedLink(p, q), SameServed(p), SameRecord(q),
         turn[p].cursor \in Nat, turn[q].cursor \in Nat, turn'[q].cursor \in Nat
  PROVE  ServedLink(p, q)'
<1>1. (Committed(p) => \/ turn[q].cursor > turn[p].cursor
                       \/ turn[q].cursor = turn[p].cursor /\ turn[q].phase \in Held)'
  BY DEF ServedLink, SameServed, SameRecord
<1>2. (Acknowledged(p) => \/ turn[q].cursor > turn[p].cursor
                          \/ turn[q].cursor = turn[p].cursor /\ turn[q].acked)'
  BY DEF ServedLink, SameServed, SameRecord
<1>3. (Disclosed(p) => auPhase[q] = "COMPLETE")'
  BY DEF ServedLink, SameServed, SameRecord
<1> QED
  BY <1>1, <1>2, <1>3 DEF ServedLink

(* No step takes back what a peer recorded.                                *)
LEMMA RecordKept ==
  ASSUME CauseInv, NEW p \in Peer, Drive(p) \/ Serve(p) \/ Fault(p), NEW r \in Peer
  PROVE  SameRecord(r) /\ turn'[r].cursor \in Nat
<1>t. /\ turn \in [Peer -> Turns] /\ Other(p) \in Peer /\ AuditLink(p) /\ FairInv /\ TypeInv
      /\ auPhase \in [Peer -> {"UNBOUND", "AWAITING_NONCES", "AWAITING_DISCLOSURE", "COMPLETE"}]
      /\ \A s \in Peer : turn[s].cursor \in Nat
      /\ step[p] \in Nat
  BY CauseFacts
<1>1. CASE Launch(p)
  <2>1. turn[p].cursor = 0 /\ auPhase[p] = "UNBOUND"
    BY <1>1, <1>t DEF Launch, AuditLink, FairInv, WitnessLink
  <2>2. /\ turn' = [turn EXCEPT ![p] = FreshTurn(0, blocked[p], cell[p])]
        /\ auPhase' = [auPhase EXCEPT ![p] = "AWAITING_NONCES"]
    BY <1>1 DEF Launch
  <2>3. CASE r = p
    BY <2>1, <2>2, <2>3, <1>t DEF FreshTurn, NewTurn, SameRecord
  <2>4. CASE r # p
    BY <2>2, <2>4, <1>t DEF SameRecord
  <2> QED
    BY <2>3, <2>4
<1>2. CASE Adopt(p)
  <2>1. turn[p].cursor = step[p] + 1
    BY <1>2, <1>t DEF Adopt, TypeInv, RoundLink, Playing
  <2>2. auPhase' = auPhase
    BY <1>2 DEF Adopt
  <2>3. turn' = turn \/ \E b, c : turn' = [turn EXCEPT ![p] = FreshTurn(step[p] + 1, b, c)]
    BY <1>2 DEF Adopt
  <2>4. CASE turn' = turn
    BY <2>2, <2>4, <1>t DEF SameRecord
  <2>5. ASSUME NEW b, NEW c, turn' = [turn EXCEPT ![p] = FreshTurn(step[p] + 1, b, c)]
        PROVE  SameRecord(r) /\ turn'[r].cursor \in Nat
    <3>1. CASE r = p
      BY <2>1, <2>2, <2>5, <3>1, <1>t DEF FreshTurn, NewTurn, SameRecord
    <3>2. CASE r # p
      BY <2>2, <2>5, <3>2, <1>t DEF SameRecord
    <3> QED
      BY <3>1, <3>2
  <2> QED
    BY <2>3, <2>4, <2>5
<1>3. CASE SendCommitment(p) \/ SendAcknowledgement(p) \/ Answered(p)
  <2>1. /\ turn'[r].cursor = turn[r].cursor /\ turn'[r].acked = turn[r].acked
        /\ turn'[r].phase = turn[r].phase \/ turn'[r].phase = "AWAITING_REVEAL"
        /\ auPhase' = auPhase
    <3>1. CASE SendCommitment(p)
      BY <3>1, <1>t DEF SendCommitment, Turns
    <3>2. CASE SendAcknowledgement(p)
      BY <3>2, <1>t DEF SendAcknowledgement, Turns
    <3>3. CASE Answered(p)
      BY <3>3, <1>t DEF Answered, Turns
    <3> QED
      BY <1>3, <3>1, <3>2, <3>3
  <2> QED
    BY <2>1, <1>t DEF Held, SameRecord
<1>4. CASE Cornered(p) \/ SendReveal(p) \/ Refused(p) \/ SendNonces(p) \/ SendDisclosure(p)
             \/ Close(p) \/ Refuse(p) \/ Fault(p)
  BY <1>4, <1>t DEF Cornered, SendReveal, Refused, SendNonces, SendDisclosure, Close, Refuse,
     Fault, LoseCall, LoseReply, Timeout, Crash, SameRecord
<1>5. CASE AcceptCommitment(p) \/ AcceptAcknowledgement(p) \/ AcceptReveal(p)
  BY <1>5, <1>t DEF AcceptCommitment, AcceptAcknowledgement, AcceptReveal, Turns, Held, SameRecord
<1>6. CASE AcceptNonces(p) \/ AcceptDisclosure(p)
  BY <1>6, <1>t DEF AcceptNonces, AcceptDisclosure, Receive, Admits, SameRecord
<1> QED
  BY <1>1, <1>2, <1>3, <1>4, <1>5, <1>6 DEF Drive, Serve

(* A driver is served only by its peer's server.                           *)
LEMMA ServedKept ==
  ASSUME CauseInv, NEW p \in Peer, Drive(p) \/ Serve(p) \/ Fault(p), NEW r \in Peer,
         r = p => ~AcceptCommitment(p) /\ ~AcceptAcknowledgement(p) /\ ~AcceptDisclosure(p)
  PROVE  SameServed(r)
<1>t. /\ pc \in [Peer -> Ready \cup Calling \cup Suspended \cup Final]
      /\ turn \in [Peer -> Turns] /\ call \in [Peer -> Messages] /\ reply \in [Peer -> Replies]
      /\ None.kind = "none" /\ CallLink(p) /\ Other(p) \in Peer /\ Other(p) # p
      /\ FairInv /\ AuditLink(p) /\ RequestLink(p)
  BY CauseFacts DEF CauseLinks
<1> USE DEF SameServed, Committed, Acknowledged, Disclosed, Acking
<1>1. CASE Launch(p) \/ Cornered(p) \/ Refused(p) \/ Timeout(p) \/ Crash(p)
  BY <1>1, <1>t DEF Launch, Cornered, Refused, Timeout, Crash
<1>2. CASE SendCommitment(p)
  <2>1. reply[p] = None /\ reply' = reply /\ pc' = [pc EXCEPT ![p] = "commitSent"]
    BY <1>2, <1>t DEF SendCommitment, Send, CallLink, Calling
  <2>2. r # p => turn'[r] = turn[r]
    BY <1>2, <1>t DEF SendCommitment
  <2> QED
    BY <2>1, <2>2, <1>t
<1>3. CASE SendAcknowledgement(p)
  <2>1. /\ reply[p] = None /\ reply' = reply /\ pc' = [pc EXCEPT ![p] = "ackSent"]
        /\ pc[p] = "awaitCommit" /\ turn'[r].cursor = turn[r].cursor
    BY <1>3, <1>t DEF SendAcknowledgement, Send, CallLink, Calling, Turns
  <2> QED
    BY <2>1, <1>t
<1>4. CASE SendReveal(p) \/ SendNonces(p) \/ SendDisclosure(p) \/ Close(p)
  BY <1>4, <1>t DEF SendReveal, SendNonces, SendDisclosure, Send, Close, CallLink, Calling
<1>5. CASE Answered(p)
  <2>1. turn'[r].cursor = turn[r].cursor
    BY <1>5, <1>t DEF Answered, Turns
  <2>2. /\ pc[p] \in Calling /\ reply[p].kind = "ok" /\ pc' = [pc EXCEPT ![p] = AfterCall[pc[p]]]
        /\ reply' = [reply EXCEPT ![p] = None]
    BY <1>5 DEF Answered
  <2> QED
    BY <2>1, <2>2, <1>t DEF AfterCall, Calling
<1>6. CASE Adopt(p)
  <2>1. pc'[p] \in {"nonces", "commit", "failed"} /\ reply' = reply
    BY <1>6, <1>t DEF Adopt
  <2>2. r # p => pc'[r] = pc[r] /\ turn'[r] = turn[r]
    BY <1>6, <1>t DEF Adopt
  <2> QED
    BY <2>1, <2>2, <1>t
<1>7. CASE LoseCall(p) \/ LoseReply(p) \/ Refuse(p)
  BY <1>7, <1>t DEF LoseCall, LoseReply, Refuse, Answer
<1>8. CASE AcceptCommitment(p) \/ AcceptAcknowledgement(p) \/ AcceptDisclosure(p)
  <2>1. r # p
    BY <1>8
  <2>2. pc'[r] = pc[r] /\ reply'[r] = reply[r] /\ turn'[r].cursor = turn[r].cursor
    BY <2>1, <1>8, <1>t DEF AcceptCommitment, AcceptAcknowledgement, AcceptDisclosure, Answer,
       Turns
  <2> QED
    BY <2>2
<1>9. CASE AcceptReveal(p) \/ AcceptNonces(p)
  <2>1. pc[p] \notin {"commitSent", "ackSent", "disclosureSent"}
    BY <1>9, <1>t DEF AcceptReveal, AcceptNonces, Receive, FairInv, FlightLink, RequestLink
  <2>2. pc'[r] = pc[r] /\ turn'[r].cursor = turn[r].cursor /\ (r # p => reply'[r] = reply[r])
    BY <1>9, <1>t DEF AcceptReveal, AcceptNonces, Answer, Turns
  <2> QED
    BY <2>1, <2>2
<1> QED
  BY <1>1, <1>2, <1>3, <1>4, <1>5, <1>6, <1>7, <1>8, <1>9 DEF Drive, Serve, Fault

(* So what was served stays recorded, whoever steps.                       *)
LEMMA ServedNext ==
  ASSUME CauseInv, NEW p \in Peer, Drive(p) \/ Serve(p) \/ Fault(p), NEW r \in Peer
  PROVE  ServedLink(r, Other(r))'
<1> DEFINE q == Other(r)
<1>t. /\ Other(r) \in Peer /\ Other(r) # r /\ ServedLink(r, Other(r)) /\ FairInv
      /\ turn[r].cursor \in Nat /\ turn[Other(r)].cursor \in Nat /\ CauseLinks(r, Other(r))
      /\ turn \in [Peer -> Turns] /\ call \in [Peer -> Messages] /\ AuditLink(r) /\ CallLink(r)
      /\ auPhase \in [Peer -> {"UNBOUND", "AWAITING_NONCES", "AWAITING_DISCLOSURE", "COMPLETE"}]
      /\ turn'[Other(r)].cursor \in Nat
  BY CauseFacts, RecordKept
<1>1. CASE r = p /\ AcceptCommitment(p)
  <2>1. /\ pc[r] = "commitSent" /\ turn[q].cursor = turn[r].cursor /\ pc' = pc
        /\ turn'[q].cursor = turn[q].cursor /\ turn'[r].cursor = turn[r].cursor
        /\ turn'[q].phase = "AWAITING_OUR_ACKNOWLEDGEMENT"
    BY <1>1, <1>t DEF AcceptCommitment, Receive, Admits, FairInv, FlightLink, Turns
  <2> QED
    BY <2>1, <1>t DEF ServedLink, Committed, Acknowledged, Disclosed, Acking, Held
<1>2. CASE r = p /\ AcceptAcknowledgement(p)
  <2>1. /\ pc[r] = "ackSent" /\ turn[q].cursor = turn[r].cursor /\ pc' = pc
        /\ turn'[q].cursor = turn[q].cursor /\ turn'[r].cursor = turn[r].cursor
        /\ turn'[q].acked = TRUE /\ turn'[q].phase = turn[q].phase
    BY <1>2, <1>t DEF AcceptAcknowledgement, Receive, Admits, FairInv, FlightLink, Turns
  <2> QED
    BY <2>1, <1>t DEF ServedLink, Committed, Acknowledged, Disclosed, Acking, Held
<1>3. CASE r = p /\ AcceptDisclosure(p)
  <2>1. pc[r] = "disclosureSent" /\ pc' = pc /\ auPhase'[q] = "COMPLETE"
    BY <1>3, <1>t DEF AcceptDisclosure, Receive, AuditLink
  <2> QED
    BY <2>1, <1>t DEF ServedLink, Committed, Acknowledged, Disclosed, Acking
<1>4. CASE ~(r = p /\ (AcceptCommitment(p) \/ AcceptAcknowledgement(p) \/ AcceptDisclosure(p)))
  <2>1. SameServed(r)
    BY <1>4, ServedKept
  <2>2. SameRecord(Other(r))
    BY <1>t, RecordKept
  <2> QED
    BY <2>1, <2>2, <1>t, QuietServed
<1> QED
  BY <1>1, <1>2, <1>3, <1>4

(* A driver still in a round does not wait while its peer closes.          *)
LEMMA ClosingRuns ==
  ASSUME CauseInv, NEW p \in Peer, NEW q \in Peer, q = Other(p), causes = {},
         pc[p] \in Closing, pc[q] \in Sealing
  PROVE  Runnable(q)
<1>t. /\ CauseLinks(p, q) /\ TypeInv /\ Other(q) = p
      /\ Len(sealed[q]) \in Nat /\ step[p] \in Nat /\ step[q] \in Nat /\ CopiesAgree
  BY CauseFacts, GameImplies
<1>1. Len(sealed[q]) <= step[p]
  BY <1>t DEF CauseLinks, RequestLink, CopiesAgree, OutcomeAgreement
<1>2. turn[q].cursor = step[q] + 1 /\ Len(sealed[q]) = step[q] + 1 /\ pc[q] \in Playing
  BY <1>t DEF TypeInv, RoundLink, RecordLink, Sealing
<1> QED
  BY <1>1, <1>2, <1>t, BehindRuns

(* Two drivers never wait on each other: while nothing went wrong, a peer  *)
(* whose milestone is missing faces one that can act, or whose request is  *)
(* on its way.                                                             *)
LEMMA PeerStirs ==
  ASSUME CauseInv, NEW p \in Peer, NEW q \in Peer, q = Other(p), causes = {},
         pc[p] \in Suspended, ~Arrived(p)
  PROVE  Stirs(q)
<1>t. /\ pc \in [Peer -> Ready \cup Calling \cup Suspended \cup Final]
      /\ turn \in [Peer -> Turns] /\ Other(q) = p /\ Other(p) = q
      /\ CallLink(p) /\ CauseLink(q) /\ CauseLinks(p, q) /\ CauseLinks(q, p) /\ TypeInv
      /\ ServedLink(p, q) /\ ServedLink(q, p)
      /\ turn[p].cursor \in Nat /\ turn[q].cursor \in Nat /\ step[p] \in Nat /\ step[q] \in Nat
  BY CauseFacts
<1> SUFFICES ASSUME ~Runnable(q), call[q] = None PROVE FALSE
  BY DEF Stirs
<1>1. ~Runnable(p)
  BY <1>t DEF Runnable, CallLink, Ready, Suspended, Calling
<1>2. pc[q] \in Suspended \cup {"closed"}
  BY <1>t DEF Runnable, CauseLink, CauseLinks, RequestLink, Final
<1>3. CASE pc[p] = "awaitAudit"
  <2>1. ~Disclosed(q)
    BY <1>3, <1>t DEF ServedLink, Arrived
  <2>2. pc[q] \in Sealing /\ pc[p] \in Closing
    BY <1>2, <1>3, <2>1 DEF Disclosed, Suspended, Sealing, Playing, Closing
  <2> QED
    BY <2>2, ClosingRuns
<1>4. CASE pc[p] # "awaitAudit"
  <2>1. pc[p] \in Sealing
    BY <1>4 DEF Suspended, Sealing, Playing
  <2>2. pc[q] \notin Closing
    BY <2>1, <1>1, <1>t, ClosingRuns
  <2>3. pc[q] \in {"awaitCommit", "awaitAck", "awaitReveal"} /\ pc[q] \in Playing
    BY <2>2, <1>2 DEF Suspended, Closing, Playing
  <2>4. turn[p].cursor = step[p] + 1 /\ turn[q].cursor = step[q] + 1 /\ pc[p] \in Playing
    BY <2>1, <2>3, <1>t DEF TypeInv, RoundLink, Sealing
  <2>5. ~(step[p] >= turn[q].cursor) /\ ~(step[q] >= turn[p].cursor)
    BY <2>3, <2>4, <1>1, <1>t, BehindRuns
  <2>6. turn[q].cursor = turn[p].cursor /\ turn[p].cursor # 0
    BY <2>4, <2>5, <1>t
  <2>7. Committed(p) /\ Committed(q)
    BY <2>3, <1>4 DEF Committed, Acking, Suspended
  <2>8. turn[p].phase \in Held /\ turn[q].phase \in Held
    BY <2>6, <2>7, <1>t DEF ServedLink
  <2>9. pc[p] # "awaitCommit" /\ pc[q] # "awaitCommit"
    BY <2>8 DEF Arrived, Runnable, Held
  <2>10. Acknowledged(q) /\ Acknowledged(p)
    BY <2>3, <2>9, <1>4 DEF Acknowledged, Suspended
  <2>11. turn[p].acked /\ turn[q].acked
    BY <2>6, <2>10, <1>t DEF ServedLink
  <2>12. pc[p] = "awaitReveal" /\ pc[q] = "awaitReveal"
    BY <2>3, <2>9, <2>11, <1>4 DEF Arrived, Runnable, Suspended
  <2>13. turn[p].phase = "CONSUMED"
    BY <2>6, <2>12, <1>t DEF CauseLinks, PaceLink, Delivered
  <2> QED
    BY <2>12, <2>13 DEF Arrived
<1> QED
  BY <1>3, <1>4

(* A driver fails, and a request is refused, only with a cause.            *)
LEMMA CauseKept ==
  ASSUME CauseInv, NEW p \in Peer, Drive(p) \/ Serve(p) \/ Fault(p), NEW r \in Peer
  PROVE  CauseLink(r)'
<1>t. /\ pc \in [Peer -> Ready \cup Calling \cup Suspended \cup Final]
      /\ reply \in [Peer -> Replies]
      /\ None.kind = "none" /\ Ok.kind = "ok" /\ Other(p) \in Peer
      /\ CauseLink(p) /\ CauseLink(r) /\ CauseLink(Other(p)) /\ GameLinks(p)
  BY CauseFacts
<1>1. CASE Launch(p) \/ SendCommitment(p) \/ SendAcknowledgement(p) \/ SendReveal(p)
             \/ SendNonces(p) \/ SendDisclosure(p) \/ Close(p)
  BY <1>1, <1>t DEF Launch, SendCommitment, SendAcknowledgement, SendReveal, SendNonces,
     SendDisclosure, Close, Send, CauseLink
<1>2. CASE Cornered(p)
  BY <1>2 DEF Cornered, CauseLink
<1>3. CASE Answered(p)
  BY <1>3, <1>t DEF Answered, AfterCall, Calling, CauseLink
<1>4. CASE Refused(p)
  BY <1>4, <1>t DEF Refused, CauseLink
<1>5. CASE Adopt(p)
  <2>1. turn[p].answered.accepted = TRUE
    BY <1>5, <1>t DEF Adopt, GameLinks, AnswerLink
  <2>2. pc'[p] \in {"nonces", "commit"} /\ UNCHANGED <<reply, causes>>
    BY <1>5, <1>t, <2>1 DEF Adopt
  <2>3. r # p => pc'[r] = pc[r]
    BY <1>5, <1>t, <2>1 DEF Adopt
  <2> QED
    BY <2>2, <2>3, <1>t DEF CauseLink
<1>6. CASE AcceptCommitment(p) \/ AcceptAcknowledgement(p) \/ AcceptReveal(p)
             \/ AcceptNonces(p) \/ AcceptDisclosure(p)
  <2>1. UNCHANGED <<pc, causes>>
    BY <1>6 DEF AcceptCommitment, AcceptAcknowledgement, AcceptReveal, AcceptNonces,
       AcceptDisclosure
  <2>2. reply'[r].kind = "ok" \/ reply'[r] = reply[r]
    BY <1>6, <1>t DEF AcceptCommitment, AcceptAcknowledgement, AcceptReveal, AcceptNonces,
       AcceptDisclosure, Answer
  <2> QED
    BY <2>1, <2>2, <1>t DEF CauseLink
<1>7. CASE Refuse(p)
  <2>1. causes = {} => Runnable(Other(p))
    BY <1>7, PromptAdmits DEF Refuse
  <2>2. causes' # {}
    BY <2>1, <1>7 DEF Refuse
  <2> QED
    BY <2>2 DEF CauseLink
<1>8. CASE Fault(p)
  <2>1. pc[Other(p)] = "failed" => causes # {}
    BY <1>t DEF CauseLink
  <2>2. CASE LoseCall(p) \/ LoseReply(p) \/ Crash(p)
    BY <2>1, <2>2 DEF LoseCall, LoseReply, Crash, Blame, CauseLink
  <2>3. CASE Timeout(p)
    <3>1. causes = {} => Stirs(Other(p))
      BY <2>3, <1>t, PeerStirs DEF Timeout
    <3> QED
      BY <2>1, <2>3, <3>1 DEF Timeout, CauseLink
  <2> QED
    BY <1>8, <2>2, <2>3 DEF Fault
<1> QED
  BY <1>1, <1>2, <1>3, <1>4, <1>5, <1>6, <1>7, <1>8 DEF Drive, Serve

(* The invariant holds in the initial state and is preserved by every step.*)
LEMMA CauseInit == Init => CauseInv
<1> SUFFICES ASSUME Init PROVE CauseInv
  OBVIOUS
<1>1. ASSUME NEW p \in Peer
      PROVE  CauseLinks(p, Other(p)) /\ ServedLink(p, Other(p)) /\ CauseLink(p)
  <2>1. Other(p) \in Peer /\ None.kind = "none"
    BY PairFacts, NoneFacts
  <2>2. /\ pc[p] = "idle" /\ step[p] = 0 /\ witnessed[p] = <<>> /\ call[p] = None
        /\ reply[p] = None /\ turn[p] = Unbound /\ turn[Other(p)] = Unbound
        /\ auPhase[p] = "UNBOUND" /\ auPhase[Other(p)] = "UNBOUND"
    BY <2>1 DEF Init
  <2>3. RequestLink(p)
    BY <2>1, <2>2 DEF RequestLink, Calling, Closing
  <2>4. PaceLink(p, Other(p))
    BY <2>1, <2>2 DEF PaceLink, Unbound, NewTurn, Acking
  <2>5. CloseLink(p, Other(p))
    BY <2>1, <2>2 DEF CloseLink
  <2>6. CauseLink(p)
    BY <2>1, <2>2 DEF CauseLink
  <2>7. ServedLink(p, Other(p))
    BY <2>1, <2>2 DEF ServedLink, Committed, Acknowledged, Disclosed, Acking
  <2> QED
    BY <2>3, <2>4, <2>5, <2>6, <2>7 DEF CauseLinks
<1> QED
  BY <1>1, AuditInit DEF CauseInv

LEMMA CauseNext == CauseInv /\ [Next]_vars => CauseInv'
<1> SUFFICES ASSUME CauseInv, [Next]_vars PROVE CauseInv'
  OBVIOUS
<1>1. AuditInv'
  BY AuditNext DEF CauseInv
<1>2. CASE UNCHANGED vars
  <2>1. ASSUME NEW r \in Peer PROVE (CauseLinks(r, Other(r)) /\ CauseLink(r))'
    BY <1>2, CauseFacts
       DEF CauseLinks, RequestLink, Over, PaceLink, Delivered, CloseLink, CauseLink
  <2>2. ASSUME NEW r \in Peer PROVE ServedLink(r, Other(r))'
    BY <1>2, CauseFacts DEF ServedLink, Committed, Acknowledged, Disclosed
  <2> QED
    BY <1>1, <2>1, <2>2 DEF CauseInv
<1>3. ASSUME NEW p \in Peer, Drive(p) \/ Serve(p) \/ Fault(p) PROVE CauseInv'
  <2>1. ASSUME NEW r \in Peer PROVE CauseLinks(r, Other(r))'
    <3>0. Other(p) \in Peer /\ Other(Other(p)) = p /\ (r = p \/ r = Other(p))
      BY PairFacts
    <3>1. CASE Launch(p)
      BY <3>0, <3>1, LaunchLinks
    <3>2. CASE SendCommitment(p)
      BY <3>0, <3>2, SendCommitmentLinks
    <3>3. CASE SendAcknowledgement(p)
      BY <3>0, <3>3, SendAcknowledgementLinks
    <3>4. CASE AcceptCommitment(p)
      BY <3>0, <3>4, AcceptCommitmentLinks
    <3>5. CASE AcceptAcknowledgement(p)
      BY <3>0, <3>5, AcceptAcknowledgementLinks
    <3>6. CASE AcceptReveal(p)
      BY <3>0, <3>6, AcceptRevealLinks
    <3>7. CASE Adopt(p)
      BY <3>0, <3>7, AdoptLinks
    <3>8. CASE Offside(p)
      BY <3>8, OffsideLinks
    <3> QED
      BY <1>3, <3>1, <3>2, <3>3, <3>4, <3>5, <3>6, <3>7, <3>8 DEF Drive, Serve, Offside
  <2>2. ASSUME NEW r \in Peer PROVE CauseLink(r)'
    BY <1>3, CauseKept
  <2>3. ASSUME NEW r \in Peer PROVE ServedLink(r, Other(r))'
    BY <1>3, ServedNext
  <2> QED
    BY <1>1, <2>1, <2>2, <2>3 DEF CauseInv
<1> QED
  BY <1>2, <1>3 DEF Next, Finished

(* If a driver failed, then a message or a process was lost, a deadline    *)
(* ran out on a peer that could still act, a strategy had no lawful        *)
(* action, or a request reached a peer whose own driver still had a step   *)
(* to take: the protocol of `peer_operations` and its owners never refuses *)
(* a request that comes in its turn, and two drivers never wait on each    *)
(* other for good.                                                         *)
THEOREM FailuresHaveCauses == Spec => []FailureHasCause
<1>1. CauseInv => FailureHasCause
  BY DEF CauseInv, CauseLink, FailureHasCause
<1> QED
  BY <1>1, CauseInit, CauseNext, PTL DEF Spec
=============================================================================
