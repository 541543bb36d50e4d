------------------------------ MODULE SubGameLog ------------------------------
(***************************************************************************)
(* The record one finished sub-game leaves: the turns the two players      *)
(* sealed and disclosed, the receiver's audit of the disclosure            *)
(* (`verdict_for`), the replay of both sides against the locked rules      *)
(* (`review_sub_game`), and the official log document built from all three *)
(* (`finalized_log`). We are `own` and play by the rules; the peer may     *)
(* deviate once, in what it seals, in what it discloses, or in what it     *)
(* answers.                                                                *)
(*                                                                         *)
(* The rounds themselves are `TurnExchange`'s; here a round is one step    *)
(* and only the evidence it leaves matters. A digest is the tuple of what  *)
(* it seals. The hint and the intent travel together as `words`.           *)
(***************************************************************************)
EXTENDS BoardRules, Sequences, TLC

VARIABLES
  own,      \* our role, by `series_roles`
  board,    \* the blocked cells both sides adopted live
  at,       \* where each player really stands
  played,   \* the evidence both sides retained, one record per step
  strayed,  \* history: how the peer deviated, "none" while it has not
  ended,    \* the end event `closed_sub_game` returned, "NONE" before
  doc       \* the finalized log, None until the sub-game is closed

play == <<own, board, at, played, strayed>>

None == [phase |-> "none"]
Rounds == 1 .. SurvivalThreshold
Other2(w) == IF w = "said" THEN "reworded" ELSE "said"

(* `DisclosedTurn` / `SealedTurnRecord`: a turn as its player seals it.    *)
Turn(k, p, b, c, a) ==
  [step |-> k, role |-> p, cell |-> c, walls |-> b, action |-> a, words |-> "said"]

(* A turn with one sealed member changed.                                  *)
Near(t) ==
  {[t EXCEPT !.cell = c] : c \in Cells \ {t.cell}}
  \cup {[t EXCEPT !.walls = (@ \cup {c}) \ (@ \cap {c})] : c \in Cells}
  \cup {[t EXCEPT !.action = a] : a \in Action \ {t.action}}
  \cup {[t EXCEPT !.words = Other2(@)]}

Nonce(k, p) == <<"nonce", k, p>>
Digest(k, t, nonce) == [step |-> k, turn |-> t, nonce |-> nonce]

(* `CommitmentRecomputer`: the one way a digest is ever checked again.     *)
Reproduces(commit, k, t, nonce) == commit = Digest(k, t, nonce)

-----------------------------------------------------------------------------
(* `Replay`: the rules applied to disclosed turns.                         *)

Opening == [blocked |-> {}, cells |-> StartCell, begun |-> {}]

(* `Replay._check`, in its order: position, barrier set, legality.         *)
Judge(r, t) ==
  CASE t.cell # r.cells[t.role] ->
         IF t.role \in r.begun THEN "BROKEN_TRAJECTORY" ELSE "WRONG_START"
    [] t.cell = r.cells[t.role] /\ t.walls # r.blocked -> "WRONG_BARRIER_SET"
    [] t.cell = r.cells[t.role] /\ t.walls = r.blocked ->
         IF t.action \in Lawful(t.role, r.blocked, t.cell) THEN "CONSISTENT" ELSE "ILLEGAL_ACTION"

First(verdicts) ==
  IF \A i \in DOMAIN verdicts : verdicts[i] = "CONSISTENT" THEN 0
  ELSE CHOOSE i \in DOMAIN verdicts :
         verdicts[i] # "CONSISTENT" /\ \A j \in 1 .. i - 1 : verdicts[j] = "CONSISTENT"

(* `Replay.check`: the first turn of the step that is not consistent.      *)
Check(r, turns) ==
  LET verdicts == [i \in DOMAIN turns |-> Judge(r, turns[i])]
  IN IF First(verdicts) = 0 THEN "CONSISTENT" ELSE verdicts[First(verdicts)]

(* `place_barrier` raises for a placement the rules refuse; a move is      *)
(* applied from the cell the turn claims, lawful or not.                   *)
Raises(r, t) == t.action.kind = "barrier" /\ ~Placeable(r.blocked, t.cell, t.action.arg)

Apply(r, t) ==
  [blocked |-> r.blocked \cup Placed(t.action),
   cells |-> IF t.action.kind = "move"
             THEN [r.cells EXCEPT ![t.role] = Destination(t.cell, t.action.arg)] ELSE r.cells,
   begun |-> r.begun \cup {t.role}]

-----------------------------------------------------------------------------
(* The live round, and the evidence it leaves.                             *)

(* What a reveal asked and what came back (`CaptureRecord`). Our driver    *)
(* never declares a claim; a peer may, and `answer_for_claim` answers it.  *)
Answered(b, t, claim, here) ==
  IF claim # None THEN (IF claim = here THEN "CAUGHT" ELSE "NOT_CAUGHT")
  ELSE IF Caught(b, t.action, here) THEN "CAUGHT" ELSE "NO_QUESTION"
Lie(answer) == IF answer = "CAUGHT" THEN "NO_QUESTION" ELSE "CAUGHT"

(* One side's evidence for one step: what it sealed and revealed live,     *)
(* what it later disclosed and under which digest, the question and answer *)
(* of its reveal, and whether its emission is what its action produces.    *)
Evidence(live, turn, claim, smell) ==
  [live |-> live, turn |-> turn, claim |-> claim, answer |-> "", smell |-> smell,
   commit |-> Digest(live.step, live, Nonce(live.step, live.role))]
Truthful(t) == Evidence(t, t, None, TRUE)
Answering(e, answer) == [e EXCEPT !.answer = answer]

(* One deviation from the turn t the peer should have played: it seals     *)
(* something else, discloses something else under the digest it locked or  *)
(* under a fresh one, emits a false scent, or (the police) claims a cell.  *)
Strays(t) ==
  [seals |-> {Evidence(n, n, None, TRUE) : n \in {n \in Near(t) : Acceptable(board, n.action)}},
   discloses |-> {Evidence(t, n, None, TRUE) : n \in Near(t)},
   rehashes |-> {[Evidence(t, n, None, TRUE) EXCEPT !.commit = Digest(n.step, n, Nonce(n.step, n.role))]
                   : n \in Near(t)},
   emits |-> {Evidence(t, t, None, FALSE)},
   claims |-> {Evidence(t, t, c, TRUE) : c \in {c \in Cells : t.role = Police /\ t.action.kind = "move"}}]

Captured == \E k \in DOMAIN played : \E p \in Peer : played[k][p].answer = "CAUGHT"
Outcome == Terminal(Captured, Len(played))

InitPlay ==
  /\ own \in Peer
  /\ board = {} /\ at = StartCell /\ played = <<>> /\ strayed = "none"
  /\ ended = "NONE" /\ doc = None

(* One round: both seal, both reveal, and each answers the other's reveal  *)
(* on the board and from the cell it held before the round.                *)
Round(mine, theirs, told) ==
  LET p == Other(own)
      answer == Answered(board, theirs.live, theirs.claim, at[own])
  IN /\ played' = Append(played, (own :> Answering(Truthful(mine), told))
                                 @@ (p :> Answering(theirs, answer)))
     /\ board' = board \cup Placed(mine.action) \cup Placed(theirs.live.action)
     /\ at' = (own :> CellAfter(at[own], mine.action))
              @@ (p :> CellAfter(at[p], theirs.live.action))

PlayRound ==
  /\ doc = None /\ Outcome = "NONE"
  /\ LET k == Len(played) + 1
         p == Other(own)
     IN \E a \in Lawful(own, board, at[own]), b \in Lawful(p, board, at[p]) :
          LET mine == Turn(k, own, board, at[own], a)
              theirs == Turn(k, p, board, at[p], b)
              truth == Answered(board, mine, None, at[p])
          IN \/ Round(mine, Truthful(theirs), truth) /\ UNCHANGED strayed
             \/ /\ strayed = "none"
                /\ \/ Round(mine, Truthful(theirs), Lie(truth)) /\ strayed' = "answers"
                   \/ \E how \in DOMAIN Strays(theirs) : \E e \in Strays(theirs)[how] :
                        Round(mine, e, truth) /\ strayed' = how
  /\ UNCHANGED <<own, ended, doc>>

-----------------------------------------------------------------------------
(* The audit of the disclosure, and the review of the whole sub-game.      *)

(* Mutant: the disclosed digest is checked against the disclosed turn      *)
(* alone, and never against the one that was locked.                       *)
VerifiesItself(e) == Reproduces(e.commit, e.turn.step, e.turn, Nonce(e.turn.step, e.turn.role))

(* `turn_verifies`: the disclosed entry restates the locked digest and the *)
(* live action and words, and hashes to that digest again.                 *)
Verifies(e) ==
  LET nonce == Nonce(e.live.step, e.live.role)
      locked == Digest(e.live.step, e.live, nonce)
  IN /\ e.commit = locked
     /\ e.turn.action = e.live.action /\ e.turn.words = e.live.words
     /\ Reproduces(locked, e.live.step, e.turn, nonce)

(* The first step the audit finds tampered with, 0 when there is none.     *)
TamperedStep ==
  First([k \in DOMAIN played |-> IF Verifies(played[k][Other(own)]) THEN "CONSISTENT" ELSE "TAMPERED"])

Finding(verdict, k, fault) == [verdict |-> verdict, step |-> k, fault |-> fault]
Consistent == Finding("CONSISTENT", 0, None)

(* `review_answer`: the answer the question deserved on this board.        *)
ReviewAnswer(r, e) ==
  LET p == e.turn.role
      expected == Answered(r.blocked, e.turn, e.claim, r.cells[Thief])
  IN CASE e.answer = expected ->
            IF e.claim # None /\ expected = "NOT_CAUGHT" THEN <<"FALSE_CAPTURE_CLAIM", p>>
            ELSE <<"CONSISTENT", None>>
       [] e.answer # expected ->
            IF expected = "NOT_CAUGHT" /\ e.answer = "CAUGHT"
            THEN <<"FALSE_CLAIM_AFFIRMED", Other(p)>> ELSE <<"DISHONEST_CAPTURE_ANSWER", Other(p)>>

(* `require_truthful_scent`, as the review asks it of one side's reveal.   *)
ReviewScent(e) == IF e.smell THEN "CONSISTENT" ELSE "DISHONEST_SCENT_EMISSION"

(* One step of `_walk`: trajectory and legality, then the answers, then    *)
(* the scent; the police is looked at first each time.                     *)
ReviewStep(r, k) ==
  LET order == <<played[k][Police], played[k][Thief]>>
      judged == [i \in 1 .. 2 |-> Judge(r, order[i].turn)]
      answers == [i \in 1 .. 2 |-> ReviewAnswer(r, order[i])[1]]
      smells == [i \in 1 .. 2 |-> ReviewScent(order[i])]
  IN IF First(judged) # 0 THEN Finding(judged[First(judged)], k, order[First(judged)].turn.role)
     ELSE IF First(answers) # 0
     THEN Finding(answers[First(answers)], k, ReviewAnswer(r, order[First(answers)])[2])
     ELSE IF First(smells) # 0 THEN Finding(smells[First(smells)], k, order[First(smells)].turn.role)
     ELSE Consistent

(* `review_sub_game` stops at the first step it does not find consistent.  *)
Review ==
  LET walk[k \in 0 .. Len(played)] ==
        IF k = 0 THEN [replay |-> Opening, finding |-> Consistent]
        ELSE LET r == walk[k - 1].replay
                 found == ReviewStep(r, k)
             IN IF walk[k - 1].finding # Consistent THEN walk[k - 1]
                ELSE IF found # Consistent THEN [replay |-> r, finding |-> found]
                ELSE [replay |-> Apply(Apply(r, played[k][Police].turn), played[k][Thief].turn),
                      finding |-> Consistent]
  IN walk[Len(played)].finding

Tampering == {"WRONG_START", "BROKEN_TRAJECTORY", "WRONG_BARRIER_SET",
              "DISHONEST_CAPTURE_ANSWER", "FALSE_CLAIM_AFFIRMED"}
TechnicalLosses == {"ILLEGAL_ACTION", "FALSE_CAPTURE_CLAIM", "FALSE_CLAIM_AFFIRMED",
                    "DISHONEST_SCENT_EMISSION"}

(* `sanctioned`: some findings replace the end event the play reached.     *)
Sanctioned(finding) == IF finding.verdict \in TechnicalLosses THEN "TECHNICAL_LOSS" ELSE Outcome

-----------------------------------------------------------------------------
(* The log document.                                                       *)

CommitEntry(e) == [phase |-> "commit", step |-> e.turn.step, turn |-> e.turn, commit |-> e.commit]
AckEntry(e, by) == [phase |-> "ack", step |-> e.live.step, by |-> by,
                    commit |-> Digest(e.live.step, e.live, Nonce(e.live.step, e.live.role))]
RevealEntry(e) == [phase |-> "reveal", step |-> e.turn.step, role |-> e.turn.role,
                   words |-> e.turn.words, claim |-> e.claim, answer |-> e.answer]

(* The three entries of one side's turn. Both commits are kept as they     *)
(* were disclosed; only the acknowledgement restates the locked digest.    *)
EntriesOf(e) == <<CommitEntry(e), AckEntry(e, Other(e.turn.role)), RevealEntry(e)>>

(* Mutant: the peer's entries are kept and our own are not.                *)
EntriesAtPeerOnly(k) == EntriesOf(played[k][Other(own)])

(* Our own entries come before the peer's, whichever role we hold.         *)
EntriesAt(k) == EntriesOf(played[k][own]) \o EntriesOf(played[k][Other(own)])

Entries ==
  LET upTo[k \in 0 .. Len(played)] == IF k = 0 THEN <<>> ELSE upTo[k - 1] \o EntriesAt(k)
  IN upTo[Len(played)]

(* `recorded_outcome`: the digests and, where it is tampering, the replay. *)
RecordedStep(finding) == IF finding.verdict \in Tampering THEN finding.step ELSE TamperedStep

FinalizedLog ==
  [phase |-> "log", config |-> "locked", entries |-> Entries,
   nonces |-> [kp \in (1 .. Len(played)) \X Peer |-> Nonce(kp[1], kp[2])],
   tampered |-> RecordedStep(Review), semantic |-> Review]

(* `closed_sub_game`: review, sanction, log - in one synchronous step.     *)
Close ==
  /\ doc = None /\ Outcome # "NONE"
  /\ doc' = FinalizedLog
  /\ ended' = Sanctioned(Review)
  /\ UNCHANGED play
=============================================================================
