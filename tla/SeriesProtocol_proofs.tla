------------------------ MODULE SeriesProtocol_proofs ------------------------
(***************************************************************************)
(* For any number of sub-games, any configs and any models: what two sides *)
(* agree before play, play under and report is the same, the protocol      *)
(* implements the contract of a series, and no driver fails without cause. *)
(***************************************************************************)
EXTENDS SeriesProtocol, TLAPS

LEMMA Others ==
  \A p \in Group : /\ Other(p) \in Group /\ Other(p) # p /\ Other(Other(p)) = p
                   /\ \A q \in Group : q = p \/ q = Other(p)
  BY DEF Group, Other, Lower, Higher

LEMMA Kinds ==
  /\ None.kind = "none" /\ Ok.kind = "ok" /\ Error.kind = "error"
  /\ \A facts : Digest(facts).kind = "digest" /\ Digest(facts) # None
  /\ \A p : Candidate(p) # None
  BY DEF None, Ok, Error, Digest, Candidate

-----------------------------------------------------------------------------
(* Functions of the groups.                                                *)

Fields == {"game", "opening", "seen", "adopted", "locked"}

Shape ==
  /\ pc = [p \in Group |-> pc[p]] /\ game = [p \in Group |-> game[p]]
  /\ round = [p \in Group |-> round[p]] /\ owner = [p \in Group |-> owner[p]]
  /\ lines = [p \in Group |-> lines[p]] /\ result = [p \in Group |-> result[p]]
  /\ files = [p \in Group |-> files[p]] /\ call = [p \in Group |-> call[p]]
  /\ reply = [p \in Group |-> reply[p]] /\ deadline = [p \in Group |-> deadline[p]]

SameTerms == config[Lower] = config[Higher] /\ model[Lower] = model[Higher]

LEMMA InputsStay ==
  [Next]_vars => config' = config /\ model' = model /\ SameTerms' = SameTerms
<1>1. ASSUME NEW p \in Group, Drive(p)  PROVE UNCHANGED inputs
  BY <1>1 DEF Drive, SendStep0, Begin, SendProposal, SendLock, LockConfig,
     SendDisclosure, Close, BuildResult, RefuseResult, SendResponse, Answered,
     DigestReturned, Refused, Persist, CloseWith
<1>2. ASSUME NEW p \in Group, Serve(p)  PROVE UNCHANGED inputs
  BY <1>2 DEF Serve, AcceptStep0, AcceptProposal, AcceptLock, AcceptDisclosure,
     AcceptResult, Refuse
<1>3. ASSUME NEW p \in Group, Fault(p)  PROVE UNCHANGED inputs
  BY <1>3 DEF Fault, LoseCall, LoseReply, Timeout, Crash, PersistFails
<1> QED  BY <1>1, <1>2, <1>3 DEF Next, Finished, vars, inputs, SameTerms

LEMMA KeepsShape ==
  Shape /\ [Next]_vars => Shape'
<1> SUFFICES ASSUME Shape, [Next]_vars
             PROVE  Shape'
  OBVIOUS
<1> USE Others DEF Shape, inputs, cursor, pregame, network, Goto
<1>1. ASSUME NEW p \in Group, SendStep0(p)  PROVE Shape'
  BY <1>1 DEF SendStep0, Send
<1>2. ASSUME NEW p \in Group, Begin(p)  PROVE Shape'
  BY <1>2 DEF Begin, Goto, OpenRound, Store
<1>3. ASSUME NEW p \in Group, SendProposal(p)  PROVE Shape'
  BY <1>3 DEF SendProposal, Send, Proposal
<1>4. ASSUME NEW p \in Group, SendLock(p)  PROVE Shape'
  BY <1>4 DEF SendLock, Send, Evidence
<1>5. ASSUME NEW p \in Group, LockConfig(p)  PROVE Shape'
  BY <1>5 DEF LockConfig, MayLock, Store
<1>6. ASSUME NEW p \in Group, SendDisclosure(p)  PROVE Shape'
  BY <1>6 DEF SendDisclosure, Send
<1>7. ASSUME NEW p \in Group, Close(p)  PROVE Shape'
  <2>1. PICK outcome \in Outcomes : CloseWith(p, outcome)
    BY <1>7 DEF Close
  <2>2. CASE LastGame(game[p])
    BY <1>7, <2>1, <2>2 DEF Close, CloseWith, Store
  <2>3. CASE ~LastGame(game[p])
    BY <1>7, <2>1, <2>3 DEF Close, CloseWith, Store, OpenRound
  <2> QED  BY <2>2, <2>3
<1>8. ASSUME NEW p \in Group, BuildResult(p)  PROVE Shape'
  BY <1>8 DEF BuildResult, Send, NewResult, ResultRequest
<1>9. ASSUME NEW p \in Group, RefuseResult(p)  PROVE Shape'
  BY <1>9 DEF RefuseResult, NewResult
<1>10. ASSUME NEW p \in Group, SendResponse(p)  PROVE Shape'
  BY <1>10 DEF SendResponse, Send, ResultRequest
<1>11. ASSUME NEW p \in Group, Answered(p)  PROVE Shape'
  BY <1>11 DEF Answered
<1>12. ASSUME NEW p \in Group, DigestReturned(p)  PROVE Shape'
  BY <1>12 DEF DigestReturned
<1>13. ASSUME NEW p \in Group, Refused(p)  PROVE Shape'
  BY <1>13 DEF Refused
<1>14. ASSUME NEW p \in Group, Persist(p)  PROVE Shape'
  BY <1>14 DEF Persist, Agreed, Store
<1>15. ASSUME NEW p \in Group, AcceptStep0(p)  PROVE Shape'
  BY <1>15 DEF AcceptStep0, Answer, Receive
<1>16. ASSUME NEW p \in Group, AcceptProposal(p)  PROVE Shape'
  BY <1>16 DEF AcceptProposal, Answer, Receive
<1>17. ASSUME NEW p \in Group, AcceptLock(p)  PROVE Shape'
  BY <1>17 DEF AcceptLock, Answer, Receive
<1>18. ASSUME NEW p \in Group, AcceptDisclosure(p)  PROVE Shape'
  BY <1>18 DEF AcceptDisclosure, Answer, Receive
<1>19. ASSUME NEW p \in Group, AcceptResult(p)  PROVE Shape'
  BY <1>19 DEF AcceptResult, Answer, Receive, Digest
<1>20. ASSUME NEW p \in Group, Refuse(p)  PROVE Shape'
  BY <1>20 DEF Refuse, Answer
<1>21. ASSUME NEW p \in Group, LoseCall(p)  PROVE Shape'
  BY <1>21 DEF LoseCall, Answer
<1>22. ASSUME NEW p \in Group, LoseReply(p)  PROVE Shape'
  BY <1>22 DEF LoseReply
<1>23. ASSUME NEW p \in Group, Timeout(p)  PROVE Shape'
  BY <1>23 DEF Timeout, Suspended, Waiting
<1>24. ASSUME NEW p \in Group, Crash(p)  PROVE Shape'
  BY <1>24 DEF Crash, Answer, Final
<1>25. ASSUME NEW p \in Group, PersistFails(p)  PROVE Shape'
  BY <1>25 DEF PersistFails, Agreed
<1>26. CASE UNCHANGED vars
  BY <1>26 DEF vars
<1> QED
  BY <1>1, <1>2, <1>3, <1>4, <1>5, <1>6, <1>7, <1>8, <1>9, <1>10, <1>11, <1>12,
     <1>13, <1>14, <1>15, <1>16, <1>17, <1>18, <1>19, <1>20, <1>21, <1>22, <1>23,
     <1>24, <1>25, <1>26
  DEF Next, Drive, Serve, Fault, Finished

-----------------------------------------------------------------------------
(* A request is in flight only while its sender is suspended on it.        *)
CallLink ==
  \A p \in Group :
    /\ call[p] # None => reply[p] = None
    /\ call[p] # None \/ reply[p] # None => pc[p] \in Calling
    /\ call[p].kind = "lock" => pc[p] = "lockSent"
    /\ call[p].kind = "result" => pc[p] \in {"requestSent", "responseSent"}
    /\ reply[p].kind = "digest" => pc[p] \in {"requestSent", "responseSent"}

LEMMA KeepsCallLink ==
  Shape /\ CallLink /\ [Next]_vars => CallLink'
<1> SUFFICES ASSUME Shape, CallLink, [Next]_vars
             PROVE  CallLink'
  OBVIOUS
<1> USE Others, Kinds DEF Shape, CallLink, Calling, inputs, cursor, pregame, network, Goto
<1>1. ASSUME NEW p \in Group, SendStep0(p)  PROVE CallLink'
  BY <1>1 DEF SendStep0, Send
<1>2. ASSUME NEW p \in Group, Begin(p)  PROVE CallLink'
  BY <1>2 DEF Begin, Goto, OpenRound, Store
<1>3. ASSUME NEW p \in Group, SendProposal(p)  PROVE CallLink'
  BY <1>3 DEF SendProposal, Send, Proposal
<1>4. ASSUME NEW p \in Group, SendLock(p)  PROVE CallLink'
  BY <1>4 DEF SendLock, Send, Evidence
<1>5. ASSUME NEW p \in Group, LockConfig(p)  PROVE CallLink'
  BY <1>5 DEF LockConfig, MayLock, Store
<1>6. ASSUME NEW p \in Group, SendDisclosure(p)  PROVE CallLink'
  BY <1>6 DEF SendDisclosure, Send
<1>7. ASSUME NEW p \in Group, Close(p)  PROVE CallLink'
  <2>1. PICK outcome \in Outcomes : CloseWith(p, outcome)
    BY <1>7 DEF Close
  <2>2. CASE LastGame(game[p])
    BY <1>7, <2>1, <2>2 DEF Close, CloseWith, Store
  <2>3. CASE ~LastGame(game[p])
    BY <1>7, <2>1, <2>3 DEF Close, CloseWith, Store, OpenRound, Negotiating
  <2> QED  BY <2>2, <2>3
<1>8. ASSUME NEW p \in Group, BuildResult(p)  PROVE CallLink'
  BY <1>8 DEF BuildResult, Send, NewResult, ResultRequest
<1>9. ASSUME NEW p \in Group, RefuseResult(p)  PROVE CallLink'
  BY <1>9 DEF RefuseResult, NewResult
<1>10. ASSUME NEW p \in Group, SendResponse(p)  PROVE CallLink'
  BY <1>10 DEF SendResponse, Send, ResultRequest
<1>11. ASSUME NEW p \in Group, Answered(p)  PROVE CallLink'
  BY <1>11 DEF Answered, AfterCall, Calling
<1>12. ASSUME NEW p \in Group, DigestReturned(p)  PROVE CallLink'
  BY <1>12 DEF DigestReturned, AfterCall, Calling, Disagrees, Verified
<1>13. ASSUME NEW p \in Group, Refused(p)  PROVE CallLink'
  BY <1>13 DEF Refused, Calling
<1>14. ASSUME NEW p \in Group, Persist(p)  PROVE CallLink'
  BY <1>14 DEF Persist, Agreed, Store
<1>15. ASSUME NEW p \in Group, AcceptStep0(p)  PROVE CallLink'
  BY <1>15 DEF AcceptStep0, Answer, Receive
<1>16. ASSUME NEW p \in Group, AcceptProposal(p)  PROVE CallLink'
  BY <1>16 DEF AcceptProposal, Answer, Receive
<1>17. ASSUME NEW p \in Group, AcceptLock(p)  PROVE CallLink'
  BY <1>17 DEF AcceptLock, Answer, Receive, Admits, LockMatches, SameModel
<1>18. ASSUME NEW p \in Group, AcceptDisclosure(p)  PROVE CallLink'
  BY <1>18 DEF AcceptDisclosure, Answer, Receive
<1>19. ASSUME NEW p \in Group, AcceptResult(p)  PROVE CallLink'
  BY <1>19 DEF AcceptResult, Answer, Receive, Admits, Disagrees, Verified, Digest
<1>20. ASSUME NEW p \in Group, Refuse(p)  PROVE CallLink'
  BY <1>20 DEF Refuse, Answer
<1>21. ASSUME NEW p \in Group, LoseCall(p)  PROVE CallLink'
  BY <1>21 DEF LoseCall, Answer
<1>22. ASSUME NEW p \in Group, LoseReply(p)  PROVE CallLink'
  BY <1>22 DEF LoseReply
<1>23. ASSUME NEW p \in Group, Timeout(p)  PROVE CallLink'
  BY <1>23 DEF Timeout, Suspended, Waiting
<1>24. ASSUME NEW p \in Group, Crash(p)  PROVE CallLink'
  BY <1>24 DEF Crash, Answer, Final
<1>25. ASSUME NEW p \in Group, PersistFails(p)  PROVE CallLink'
  BY <1>25 DEF PersistFails, Agreed
<1>26. CASE UNCHANGED vars
  BY <1>26 DEF vars
<1> QED
  BY <1>1, <1>2, <1>3, <1>4, <1>5, <1>6, <1>7, <1>8, <1>9, <1>10, <1>11, <1>12,
     <1>13, <1>14, <1>15, <1>16, <1>17, <1>18, <1>19, <1>20, <1>21, <1>22, <1>23,
     <1>24, <1>25, <1>26
  DEF Next, Drive, Serve, Fault, Finished

-----------------------------------------------------------------------------
(* What a step does to the open round of q and to its cursor.              *)

(* The open round is the one of the cursor, and the config adopted in it   *)
(* the one this side was started with.                                     *)
RoundLink ==
  \A q \in Group :
    /\ DOMAIN round[q] = Fields
    /\ round[q].game = game[q] /\ game[q] \in Games
    /\ round[q].adopted = None \/ round[q].adopted = Candidate(q)
    /\ round[q].locked \in {TRUE, FALSE}

Kept(q) ==
  /\ DOMAIN round'[q] = Fields
  /\ round'[q].game = round[q].game /\ round'[q].adopted = round[q].adopted
  /\ round'[q].locked = round[q].locked
  /\ game'[q] = game[q]

(* A round is opened for the cursor, or for the next sub-game.             *)
OpenedFor(q) ==
  /\ DOMAIN round'[q] = Fields
  /\ round'[q].game = game'[q] /\ round'[q].adopted = Candidate(q)
  /\ round'[q].locked \in {TRUE, FALSE}
  /\ \/ /\ pc[q] = "awaitStep0" /\ game'[q] = game[q]
        /\ round'[q].locked = TRUE => round[q].locked = TRUE
     \/ /\ pc[q] = "awaitAudit" /\ pc'[q] = Negotiating(q) /\ game[q] # NumGames
        /\ game'[q] = game[q] + 1 /\ round'[q].locked = FALSE

(* Evidence of the other for this round and of this side's own config.     *)
LockedBy(q, p) ==
  /\ DOMAIN round'[q] = Fields
  /\ round'[q].game = round[q].game /\ round'[q].adopted = round[q].adopted
  /\ round'[q].locked = TRUE
  /\ game'[q] = game[q]
  /\ call[p].kind = "lock" /\ call[p].game = round[q].game /\ call[p].model = model[q]
  /\ call[p].digest = round[q].adopted /\ round[q].adopted # None

LEMMA Opened ==
  ASSUME NEW p \in Group, NEW g, DOMAIN round[p] = Fields, round[p].locked \in {TRUE, FALSE}
  PROVE  /\ DOMAIN OpenedRound(p, g) = Fields
         /\ OpenedRound(p, g).game = g /\ OpenedRound(p, g).adopted = Candidate(p)
         /\ OpenedRound(p, g).locked \in {TRUE, FALSE}
         /\ OpenedRound(p, g).locked = TRUE => round[p].game = g /\ round[p].locked = TRUE
<1>1. CASE round[p].game = g
  BY <1>1 DEF OpenedRound, Fields
<1>2. CASE round[p].game # g
  BY <1>2 DEF OpenedRound, NewRound, Fields
<1> QED  BY <1>1, <1>2

LEMMA RoundStep ==
  ASSUME Shape, RoundLink, [Next]_vars, NEW q \in Group
  PROVE  Kept(q) \/ OpenedFor(q) \/ LockedBy(q, Other(q))
<1>1. DOMAIN round[q] = Fields /\ round[q].locked \in {TRUE, FALSE} /\ round[q].game = game[q]
      /\ game[q] \in Nat
  <2>1. DOMAIN round[q] = Fields /\ round[q].locked \in {TRUE, FALSE}
        /\ round[q].game = game[q] /\ game[q] \in Games
    BY DEF RoundLink
  <2>2. game[q] \in Nat
    BY <2>1, SeriesAssumption DEF Games
  <2> QED  BY <2>1, <2>2
<1>2. ASSUME round'[q] = round[q], game'[q] = game[q]  PROVE Kept(q)
  BY <1>1, <1>2 DEF Kept
<1>3. ASSUME NEW p \in Group, Begin(p)  PROVE Kept(q) \/ OpenedFor(q)
  <2>1. round' = [round EXCEPT ![p] = OpenedRound(p, game[p])] /\ game' = game
    BY <1>3 DEF Begin, OpenRound, cursor
  <2>2. CASE q # p
    BY <2>1, <2>2, <1>2 DEF Shape
  <2>3. CASE q = p
    <3> DEFINE r == OpenedRound(q, game[q])
    <3>1. round'[q] = r
      BY <2>1, <2>3 DEF Shape
    <3> HIDE DEF r
    <3>2. DOMAIN r = Fields /\ r.game = game[q] /\ r.adopted = Candidate(q)
          /\ r.locked \in {TRUE, FALSE} /\ (r.locked = TRUE => round[q].locked = TRUE)
      BY <1>1, Opened DEF r
    <3> QED  BY <3>1, <3>2, <2>1, <2>3, <1>3 DEF OpenedFor, Begin
  <2> QED  BY <2>2, <2>3
<1>4. ASSUME NEW p \in Group, NEW outcome, CloseWith(p, outcome), pc[p] = "awaitAudit"
      PROVE Kept(q) \/ OpenedFor(q)
  <2>1. CASE LastGame(game[p])
    BY <1>2, <1>4, <2>1 DEF CloseWith
  <2>2. CASE ~LastGame(game[p])
    <3>1. /\ round' = [round EXCEPT ![p] = OpenedRound(p, game[p] + 1)]
          /\ game' = [game EXCEPT ![p] = @ + 1]
          /\ pc' = [pc EXCEPT ![p] = Negotiating(p)]
      BY <1>4, <2>2 DEF CloseWith, OpenRound, Goto
    <3>2. CASE q # p
      BY <3>1, <3>2, <1>2 DEF Shape
    <3>3. CASE q = p
      <4> DEFINE r == OpenedRound(q, game[q] + 1)
      <4>1. round'[q] = r /\ game'[q] = game[q] + 1 /\ pc'[q] = Negotiating(q)
        BY <3>1, <3>3 DEF Shape
      <4> HIDE DEF r
      <4>2. DOMAIN r = Fields /\ r.game = game[q] + 1 /\ r.adopted = Candidate(q)
            /\ r.locked \in {TRUE, FALSE} /\ (r.locked = TRUE => round[q].game = game[q] + 1)
        BY <1>1, Opened DEF r
      <4>3. r.locked = FALSE
        BY <4>2, <1>1
      <4> QED  BY <4>1, <4>2, <4>3, <1>4, <2>2, <3>3 DEF OpenedFor, LastGame
    <3> QED  BY <3>2, <3>3
  <2> QED  BY <2>1, <2>2
<1>5. ASSUME NEW p \in Group, SendProposal(p)  PROVE Kept(q)
  <2>1. round' = [round EXCEPT ![p].seen = @ \cup {p}, ![p].opening = FALSE] /\ game' = game
    BY <1>5 DEF SendProposal, cursor
  <2> QED  BY <2>1, <1>1 DEF Shape, Kept, Fields
<1>6. ASSUME NEW p \in Group, AcceptProposal(p)  PROVE Kept(q)
  <2>1. PICK o \in Group : o = Other(p)
    BY Others
  <2>2. round' = [round EXCEPT ![o].seen = @ \cup {p}, ![o].opening = FALSE] /\ game' = game
    BY <1>6, <2>1 DEF AcceptProposal, cursor
  <2> QED  BY <2>2, <1>1 DEF Shape, Kept, Fields
<1>7. ASSUME NEW p \in Group, AcceptLock(p)  PROVE Kept(q) \/ LockedBy(q, Other(q))
  <2>1. round' = [round EXCEPT ![Other(p)].locked = TRUE] /\ game' = game
    BY <1>7 DEF AcceptLock, cursor
  <2>2. CASE q # Other(p)
    BY <2>1, <2>2, <1>2 DEF Shape
  <2>3. CASE q = Other(p)
    <3>1. round'[q] = [round[q] EXCEPT !.locked = TRUE] /\ game'[q] = game[q]
      BY <2>1, <2>3 DEF Shape
    <3>2. DOMAIN round'[q] = Fields /\ round'[q].game = round[q].game
          /\ round'[q].adopted = round[q].adopted /\ round'[q].locked = TRUE
      BY <3>1, <1>1 DEF Fields
    <3>3. p = Other(q)
      BY <2>3, Others
    <3>4. Admits(q, call[p]) /\ call[p].kind = "lock"
      BY <1>7, <2>3 DEF AcceptLock, Receive
    <3> QED  BY <3>1, <3>2, <3>3, <3>4 DEF LockedBy, Admits, LockMatches, SameModel
  <2> QED  BY <2>2, <2>3
<1>8. CASE round' = round /\ game' = game
  BY <1>2, <1>8
<1>9. ASSUME NEW p \in Group, Drive(p)
      PROVE \/ Begin(p) \/ SendProposal(p)
            \/ pc[p] = "awaitAudit" /\ \E outcome : CloseWith(p, outcome)
            \/ round' = round /\ game' = game
  BY <1>9 DEF Drive, SendStep0, SendLock, LockConfig, SendDisclosure, Close, BuildResult,
     RefuseResult, SendResponse, Answered, DigestReturned, Refused, Persist, pregame, cursor
<1>10. ASSUME NEW p \in Group, Serve(p) \/ Fault(p)
       PROVE  AcceptProposal(p) \/ AcceptLock(p) \/ (round' = round /\ game' = game)
  BY <1>10 DEF Serve, AcceptStep0, AcceptDisclosure, AcceptResult, Refuse, Fault, LoseCall,
     LoseReply, Timeout, Crash, PersistFails, pregame, cursor
<1>11. Finished \/ UNCHANGED vars => round' = round /\ game' = game
  BY DEF Finished, vars, pregame, cursor
<1> QED
  BY <1>3, <1>4, <1>5, <1>6, <1>7, <1>8, <1>9, <1>10, <1>11 DEF Next

LEMMA Advances ==
  ASSUME Shape, RoundLink, [Next]_vars, NEW q \in Group
  PROVE  game[q] \in Games /\ game'[q] \in Games /\ game[q] <= game'[q]
<1>1. game[q] \in Games
  BY DEF RoundLink
<1>2. game'[q] = game[q] \/ (game[q] # NumGames /\ game'[q] = game[q] + 1)
  BY RoundStep DEF Kept, OpenedFor, LockedBy
<1> QED  BY <1>1, <1>2, SeriesAssumption DEF Games

LEMMA KeepsRoundLink == Shape /\ RoundLink /\ [Next]_vars => RoundLink'
<1> SUFFICES ASSUME Shape, RoundLink, [Next]_vars, NEW q \in Group
             PROVE  /\ DOMAIN round'[q] = Fields
                    /\ round'[q].game = game'[q] /\ game'[q] \in Games
                    /\ round'[q].adopted = None \/ round'[q].adopted = Candidate(q)'
                    /\ round'[q].locked \in {TRUE, FALSE}
  BY DEF RoundLink
<1>1. Candidate(q)' = Candidate(q)
  BY InputsStay DEF Candidate
<1>2. game'[q] \in Games
  BY Advances
<1>3. /\ round[q].game = game[q]
      /\ round[q].adopted = None \/ round[q].adopted = Candidate(q)
      /\ round[q].locked \in {TRUE, FALSE}
  BY DEF RoundLink
<1>4. CASE Kept(q)
  BY <1>1, <1>2, <1>3, <1>4 DEF Kept
<1>5. CASE OpenedFor(q)
  BY <1>1, <1>2, <1>5 DEF OpenedFor
<1>6. CASE LockedBy(q, Other(q))
  BY <1>1, <1>2, <1>3, <1>6 DEF LockedBy
<1> QED  BY <1>4, <1>5, <1>6, RoundStep

-----------------------------------------------------------------------------
(* The terms of play.                                                      *)

(* Evidence in flight is of what its sender was started with.              *)
EvidenceLink ==
  \A q \in Group : call[q].kind = "lock" =>
    call[q].game = game[q] /\ call[q].model = model[q] /\ call[q].digest = Candidate(q)

(* Whoever is locked shares the other's terms, and the other is in that    *)
(* round or later.                                                         *)
LockLink ==
  \A q \in Group : round[q].locked = TRUE => SameTerms /\ game[q] <= game[Other(q)]

(* What a step does to the request of q.                                   *)
LEMMA CallStep ==
  ASSUME Shape, [Next]_vars, NEW q \in Group
  PROVE  \/ call'[q] = call[q] \/ call'[q] = None \/ SendLock(q)
         \/ call'[q].kind \in {"step0", "proposal", "disclosure", "result"}
<1>1. ASSUME NEW p \in Group, NEW m, NEW w, Send(p, m, w)
      PROVE  call'[q] = call[q] \/ (q = p /\ call'[q] = m)
  BY <1>1 DEF Send, Shape
<1>2. ASSUME NEW p \in Group, NEW m, Answer(p, m)
      PROVE  call'[q] = call[q] \/ call'[q] = None
  BY <1>2 DEF Answer, Shape
<1>3. ASSUME NEW p \in Group, SendStep0(p)
      PROVE  call'[q] = call[q] \/ call'[q].kind = "step0"
  BY <1>1, <1>3 DEF SendStep0
<1>4. ASSUME NEW p \in Group, SendProposal(p)
      PROVE  call'[q] = call[q] \/ call'[q].kind = "proposal"
  BY <1>1, <1>4 DEF SendProposal, Proposal
<1>5. ASSUME NEW p \in Group, SendLock(p)  PROVE call'[q] = call[q] \/ SendLock(q)
  BY <1>1, <1>5 DEF SendLock
<1>6. ASSUME NEW p \in Group, SendDisclosure(p)
      PROVE  call'[q] = call[q] \/ call'[q].kind = "disclosure"
  BY <1>1, <1>6 DEF SendDisclosure
<1>7. ASSUME NEW p \in Group, BuildResult(p) \/ SendResponse(p)
      PROVE  call'[q] = call[q] \/ call'[q].kind = "result"
  BY <1>1, <1>7 DEF BuildResult, SendResponse, ResultRequest, network
<1>8. ASSUME NEW p \in Group, Begin(p) \/ LockConfig(p) \/ Close(p) \/ RefuseResult(p)
                              \/ Answered(p) \/ DigestReturned(p) \/ Refused(p) \/ Persist(p)
      PROVE  call'[q] = call[q]
  BY <1>8 DEF Begin, LockConfig, Close, CloseWith, RefuseResult, Answered, DigestReturned,
     Refused, Persist, network
<1>9. ASSUME NEW p \in Group, Serve(p)  PROVE call'[q] = call[q] \/ call'[q] = None
  BY <1>2, <1>9 DEF Serve, AcceptStep0, AcceptProposal, AcceptLock, AcceptDisclosure,
     AcceptResult, Refuse
<1>10. ASSUME NEW p \in Group, Fault(p)  PROVE call'[q] = call[q] \/ call'[q] = None
  BY <1>2, <1>10 DEF Fault, LoseCall, LoseReply, Timeout, Crash, PersistFails, network
<1>11. Finished \/ UNCHANGED vars => call'[q] = call[q]
  BY DEF Finished, vars, network
<1> QED
  BY <1>3, <1>4, <1>5, <1>6, <1>7, <1>8, <1>9, <1>10, <1>11 DEF Next, Drive

LEMMA KeepsEvidenceLink ==
  Shape /\ CallLink /\ RoundLink /\ EvidenceLink /\ [Next]_vars => EvidenceLink'
<1> SUFFICES ASSUME Shape, CallLink, RoundLink, EvidenceLink, [Next]_vars,
                    NEW q \in Group, call'[q].kind = "lock"
             PROVE  call'[q].game = game'[q] /\ call'[q].model = model'[q]
                    /\ call'[q].digest = Candidate(q)'
  BY DEF EvidenceLink
<1>1. Candidate(q)' = Candidate(q) /\ model' = model
  BY InputsStay DEF Candidate
<1>2. CASE call'[q] = call[q]
  <2>1. pc[q] = "lockSent"
    BY <1>2 DEF CallLink
  <2>2. game'[q] = game[q]
    BY <2>1, RoundStep DEF Kept, OpenedFor, LockedBy
  <2> QED  BY <1>1, <1>2, <2>2 DEF EvidenceLink
<1>3. CASE SendLock(q)
  <2>1. call'[q] = Evidence(q) /\ game' = game /\ round[q].adopted # None
    BY <1>3 DEF SendLock, Send, cursor, Shape
  <2>2. round[q].game = game[q] /\ round[q].adopted = Candidate(q)
    BY <2>1 DEF RoundLink
  <2> QED  BY <1>1, <2>1, <2>2 DEF Evidence
<1> QED  BY <1>2, <1>3, CallStep, Kinds

LEMMA SharedTerms ==
  ASSUME NEW q \in Group, config[Other(q)] = config[q], model[Other(q)] = model[q]
  PROVE  SameTerms
  BY DEF SameTerms, Group, Other

LEMMA KeepsLockLink ==
  Shape /\ RoundLink /\ EvidenceLink /\ LockLink /\ [Next]_vars => LockLink'
<1> SUFFICES ASSUME Shape, RoundLink, EvidenceLink, LockLink, [Next]_vars,
                    NEW q \in Group, round'[q].locked = TRUE
             PROVE  SameTerms' /\ game'[q] <= game'[Other(q)]
  BY DEF LockLink
<1>1. SameTerms' = SameTerms
  BY InputsStay
<1>2. Other(q) \in Group
  BY Others
<1>3. /\ game[q] \in Nat /\ game[Other(q)] \in Nat /\ game'[Other(q)] \in Nat
      /\ game[Other(q)] <= game'[Other(q)]
  BY <1>2, Advances, SeriesAssumption DEF Games
<1>4. CASE round[q].locked = TRUE /\ game'[q] = game[q]
  BY <1>1, <1>3, <1>4 DEF LockLink
<1>5. CASE LockedBy(q, Other(q))
  <2>1. /\ call[Other(q)].game = game[Other(q)] /\ call[Other(q)].model = model[Other(q)]
        /\ call[Other(q)].digest = Candidate(Other(q))
    BY <1>2, <1>5 DEF LockedBy, EvidenceLink
  <2>2. round[q].game = game[q] /\ Candidate(Other(q)) = Candidate(q)
    BY <1>5, <2>1 DEF LockedBy, RoundLink
  <2>3. config[Other(q)] = config[q]
    BY <2>2 DEF Candidate
  <2>4. model[Other(q)] = model[q] /\ game[Other(q)] = game[q] /\ game'[q] = game[q]
    BY <1>5, <2>1, <2>2 DEF LockedBy
  <2> QED  BY <1>1, <1>3, <2>3, <2>4, SharedTerms
<1>6. Kept(q) => round[q].locked = TRUE /\ game'[q] = game[q]
  BY DEF Kept
<1>7. OpenedFor(q) => round[q].locked = TRUE /\ game'[q] = game[q]
  BY DEF OpenedFor
<1> QED  BY <1>4, <1>5, <1>6, <1>7, RoundStep

-----------------------------------------------------------------------------
(* The driver of q in a sub-game.                                          *)

Playing == {"play", "disclosureSent", "awaitAudit"}

(* A sub-game is entered by its lock; from "play" the one way on is the    *)
(* disclosure; nothing leaves a failure.                                   *)
LEMMA PlayStep ==
  ASSUME Shape, CallLink, [Next]_vars, NEW q \in Group
  PROVE  \/ pc'[q] = pc[q]
         \/ LockConfig(q)
         \/ pc[q] = "play" /\ pc'[q] = "disclosureSent" /\ deadline'[q] = Seconds(q)
         \/ pc[q] = "disclosureSent" /\ pc'[q] = "awaitAudit"
         \/ pc'[q] = "failed"
         \/ pc[q] \notin {"play", "failed"} /\ pc'[q] \notin Playing
<1>1. ASSUME NEW p \in Group, NEW label, Goto(p, label)
      PROVE  pc'[q] = pc[q] \/ (q = p /\ pc'[q] = label)
  BY <1>1 DEF Goto, Shape
<1>2. ASSUME NEW p \in Group, SendDisclosure(p)
      PROVE  pc'[q] = pc[q] \/ (pc[q] = "play" /\ pc'[q] = "disclosureSent"
                                 /\ deadline'[q] = Seconds(q))
  BY <1>2 DEF SendDisclosure, Send, Goto, Shape
<1>3. ASSUME NEW p \in Group, LockConfig(p)  PROVE pc'[q] = pc[q] \/ LockConfig(q)
  BY <1>1, <1>3 DEF LockConfig
<1>4. ASSUME NEW p \in Group, SendStep0(p) \/ Begin(p) \/ SendProposal(p) \/ SendLock(p)
                              \/ SendResponse(p) \/ BuildResult(p)
      PROVE  pc'[q] = pc[q] \/ (pc[q] \notin {"play", "failed"} /\ pc'[q] \notin Playing)
  <2>1. CASE Begin(p)
    BY <1>1, <2>1 DEF Begin, Negotiating, Playing
  <2>2. CASE BuildResult(p)
    <3>1. Goto(p, "requestSent") \/ Goto(p, "awaitRequest")
      <4>1. CASE p = Lower
        BY <2>2, <4>1 DEF BuildResult, Send
      <4>2. CASE p # Lower
        BY <2>2, <4>2 DEF BuildResult
      <4> QED  BY <4>1, <4>2
    <3>2. pc'[q] = pc[q] \/ (q = p /\ pc'[q] \in {"requestSent", "awaitRequest"})
      BY <1>1, <3>1
    <3>3. pc[p] = "result"
      BY <2>2 DEF BuildResult
    <3> QED  BY <3>2, <3>3 DEF Playing
  <2>3. CASE SendStep0(p) \/ SendLock(p) \/ SendResponse(p)
    BY <1>1, <2>3 DEF SendStep0, SendLock, SendResponse, Send, Playing
  <2>4. CASE SendProposal(p)
    BY <1>1, <2>4 DEF SendProposal, Send, Playing
  <2> QED  BY <1>4, <2>1, <2>2, <2>3, <2>4
<1>5. ASSUME NEW p \in Group, Close(p) \/ Persist(p) \/ RefuseResult(p)
      PROVE  pc'[q] = pc[q] \/ (pc[q] \notin {"play", "failed"} /\ pc'[q] \notin Playing)
  BY <1>1, <1>5 DEF Close, CloseWith, Persist, RefuseResult, Negotiating, Playing
<1>6. ASSUME NEW p \in Group, Answered(p)
      PROVE  \/ pc'[q] = pc[q] \/ (pc[q] = "disclosureSent" /\ pc'[q] = "awaitAudit")
             \/ pc[q] \notin {"play", "failed"} /\ pc'[q] \notin Playing
  <2>1. pc[p] \in Calling /\ (pc'[q] = pc[q] \/ (q = p /\ pc'[q] = AfterCall[pc[p]]))
    BY <1>1, <1>6 DEF Answered
  <2> QED  BY <2>1 DEF Calling, AfterCall, Playing
<1>7. ASSUME NEW p \in Group, DigestReturned(p)
      PROVE  \/ pc'[q] = pc[q] \/ pc'[q] = "failed"
             \/ pc[q] \notin {"play", "failed"} /\ pc'[q] \notin Playing
  <2>1. pc[p] \in {"requestSent", "responseSent"}
    BY <1>7 DEF DigestReturned, CallLink
  <2>2. pc'[q] = pc[q] \/ (q = p /\ pc'[q] \in {"failed", AfterCall[pc[p]]})
    BY <1>1, <1>7 DEF DigestReturned
  <2> QED  BY <2>1, <2>2 DEF AfterCall, Playing
<1>8. ASSUME NEW p \in Group, Refused(p) \/ Timeout(p) \/ Crash(p) \/ PersistFails(p)
      PROVE  pc'[q] = pc[q] \/ pc'[q] = "failed"
  BY <1>1, <1>8 DEF Refused, Timeout, Crash, PersistFails
<1>9. ASSUME NEW p \in Group, Serve(p) \/ LoseCall(p) \/ LoseReply(p)  PROVE pc'[q] = pc[q]
  BY <1>9 DEF Serve, AcceptStep0, AcceptProposal, AcceptLock, AcceptDisclosure, AcceptResult,
     Refuse, LoseCall, LoseReply
<1>10. Finished \/ UNCHANGED vars => pc'[q] = pc[q]
  BY DEF Finished, vars
<1> QED
  BY <1>2, <1>3, <1>4, <1>5, <1>6, <1>7, <1>8, <1>9, <1>10 DEF Next, Drive, Fault

(* A bound sub-game is of shared terms and not ahead of the other; it is   *)
(* the one of the cursor while it is played.                               *)
OwnerLink ==
  \A q \in Group :
    /\ DOMAIN owner[q] = {"game", "audit"}
    /\ owner[q].game \in Nat /\ owner[q].game <= game[Other(q)]
    /\ owner[q].game # 0 => SameTerms
    /\ pc[q] \in Playing => owner[q].game = game[q]

LEMMA OwnerStep ==
  ASSUME Shape, [Next]_vars, NEW q \in Group, DOMAIN owner[q] = {"game", "audit"}
  PROVE  /\ DOMAIN owner'[q] = {"game", "audit"}
         /\ owner'[q].game = owner[q].game \/ (LockConfig(q) /\ owner'[q].game = game[q])
<1>1. ASSUME NEW p \in Group, LockConfig(p)
      PROVE  \/ owner'[q] = owner[q]
             \/ LockConfig(q) /\ owner'[q] = [game |-> game[q], audit |-> "PLAYING"]
  BY <1>1 DEF LockConfig, Shape
<1>2. ASSUME NEW p \in Group, AcceptDisclosure(p)
      PROVE  DOMAIN owner'[q] = {"game", "audit"} /\ owner'[q].game = owner[q].game
  <2>1. PICK o \in Group : o = Other(p)
    BY Others
  <2>2. owner' = [owner EXCEPT ![o].audit = "COMPLETE"]
    BY <1>2, <2>1 DEF AcceptDisclosure
  <2> QED  BY <2>2 DEF Shape
<1>3. ASSUME NEW p \in Group, Drive(p)  PROVE owner' = owner \/ LockConfig(p)
  BY <1>3 DEF Drive, SendStep0, Begin, SendProposal, SendLock, SendDisclosure, Close, CloseWith,
     BuildResult, RefuseResult, SendResponse, Answered, DigestReturned, Refused, Persist
<1>4. ASSUME NEW p \in Group, Serve(p) \/ Fault(p)
      PROVE  owner' = owner \/ AcceptDisclosure(p)
  BY <1>4 DEF Serve, AcceptStep0, AcceptProposal, AcceptLock, AcceptResult, Refuse, Fault,
     LoseCall, LoseReply, Timeout, Crash, PersistFails
<1>5. Finished \/ UNCHANGED vars => owner' = owner
  BY DEF Finished, vars
<1> QED  BY <1>1, <1>2, <1>3, <1>4, <1>5 DEF Next

LEMMA KeepsOwnerLink ==
  Shape /\ CallLink /\ RoundLink /\ LockLink /\ OwnerLink /\ [Next]_vars => OwnerLink'
<1> SUFFICES ASSUME Shape, CallLink, RoundLink, LockLink, OwnerLink, [Next]_vars,
                    NEW q \in Group
             PROVE  /\ DOMAIN owner'[q] = {"game", "audit"}
                    /\ owner'[q].game \in Nat /\ owner'[q].game <= game'[Other(q)]
                    /\ owner'[q].game # 0 => SameTerms'
                    /\ pc'[q] \in Playing => owner'[q].game = game'[q]
  BY DEF OwnerLink
<1>1. SameTerms' = SameTerms
  BY InputsStay
<1>2. /\ game[q] \in Nat /\ game[Other(q)] \in Nat /\ game'[Other(q)] \in Nat
      /\ game[Other(q)] <= game'[Other(q)]
  BY Others, Advances, SeriesAssumption DEF Games
<1>3. /\ DOMAIN owner[q] = {"game", "audit"}
      /\ owner[q].game \in Nat /\ owner[q].game <= game[Other(q)]
      /\ owner[q].game # 0 => SameTerms
      /\ pc[q] \in Playing => owner[q].game = game[q]
  BY DEF OwnerLink
<1>4. CASE LockConfig(q)
  <2>1. round[q].locked = TRUE /\ game' = game
    <3>1. round[q].locked /\ game' = game
      BY <1>4 DEF LockConfig, MayLock
    <3> QED  BY <3>1 DEF RoundLink
  <2>2. owner'[q] = [game |-> game[q], audit |-> "PLAYING"]
    BY <1>4 DEF LockConfig, Shape
  <2>3. SameTerms /\ game[q] <= game[Other(q)]
    BY <2>1 DEF LockLink
  <2> QED  BY <1>1, <1>2, <2>1, <2>2, <2>3
<1>5. CASE ~LockConfig(q)
  <2>1. DOMAIN owner'[q] = {"game", "audit"} /\ owner'[q].game = owner[q].game
    BY <1>3, <1>5, OwnerStep
  <2>2. ASSUME pc'[q] \in Playing  PROVE pc[q] \in Playing /\ game'[q] = game[q]
    <3>1. pc[q] \in Playing /\ (pc'[q] = pc[q] \/ pc[q] # "awaitAudit")
      BY <1>5, <2>2, PlayStep DEF Playing
    <3> QED  BY <3>1, <2>2, RoundStep DEF Kept, OpenedFor, LockedBy, Playing, Negotiating
  <2> QED  BY <1>1, <1>2, <1>3, <2>1, <2>2
<1> QED  BY <1>4, <1>5

-----------------------------------------------------------------------------
(* The bound of the requests.                                              *)

(* It is the agreed one from the first request of the first sub-game on,   *)
(* and then the terms are shared.                                          *)
DeadlineLink ==
  \A q \in Group :
    /\ deadline[q] = "agreed" => SameTerms
    /\ pc[q] = "play" => round[q].locked = TRUE
    /\ owner[q].game # 0 => deadline[q] = "agreed" \/ pc[q] \in {"failed", "play"}

LEMMA DeadlineStep ==
  ASSUME Shape, [Next]_vars, NEW q \in Group
  PROVE  deadline'[q] = deadline[q] \/ deadline'[q] = Seconds(q)
<1>1. ASSUME NEW p \in Group, NEW m, NEW w, Send(p, m, w)
      PROVE  deadline'[q] = deadline[q] \/ deadline'[q] = Seconds(q)
  BY <1>1 DEF Send, Shape
<1>2. ASSUME NEW p \in Group, NEW m, Answer(p, m)  PROVE deadline' = deadline
  BY <1>2 DEF Answer
<1>3. ASSUME NEW p \in Group, Drive(p)
      PROVE  deadline'[q] = deadline[q] \/ deadline'[q] = Seconds(q)
  BY <1>1, <1>3 DEF Drive, SendStep0, Begin, SendProposal, SendLock, LockConfig, SendDisclosure,
     Close, CloseWith, BuildResult, RefuseResult, SendResponse, Answered, DigestReturned,
     Refused, Persist, network
<1>4. ASSUME NEW p \in Group, Serve(p) \/ Fault(p)  PROVE deadline' = deadline
  BY <1>2, <1>4 DEF Serve, AcceptStep0, AcceptProposal, AcceptLock, AcceptDisclosure,
     AcceptResult, Refuse, Fault, LoseCall, LoseReply, Timeout, Crash, PersistFails, network
<1>5. Finished \/ UNCHANGED vars => deadline' = deadline
  BY DEF Finished, vars, network
<1> QED  BY <1>3, <1>4, <1>5 DEF Next

LEMMA KeepsDeadlineLink ==
  Shape /\ CallLink /\ RoundLink /\ LockLink /\ OwnerLink /\ DeadlineLink /\ [Next]_vars
    => DeadlineLink'
<1> SUFFICES ASSUME Shape, CallLink, RoundLink, LockLink, OwnerLink, DeadlineLink,
                    [Next]_vars, NEW q \in Group
             PROVE  /\ deadline'[q] = "agreed" => SameTerms'
                    /\ pc'[q] = "play" => round'[q].locked = TRUE
                    /\ owner'[q].game # 0 =>
                         deadline'[q] = "agreed" \/ pc'[q] \in {"failed", "play"}
  BY DEF DeadlineLink
<1>1. SameTerms' = SameTerms
  BY InputsStay
<1>2. /\ deadline[q] = "agreed" => SameTerms
      /\ pc[q] = "play" => round[q].locked = TRUE
      /\ owner[q].game # 0 => deadline[q] = "agreed" \/ pc[q] \in {"failed", "play"}
      /\ round[q].locked = TRUE => SameTerms
      /\ DOMAIN owner[q] = {"game", "audit"} /\ round[q].locked \in {TRUE, FALSE}
  BY DEF DeadlineLink, LockLink, OwnerLink, RoundLink
<1>3. /\ round[q].locked = TRUE => Seconds(q) = "agreed"
      /\ round[q].locked # TRUE => Seconds(q) = deadline[q]
  BY <1>2 DEF Seconds
<1>4. deadline'[q] = "agreed" => SameTerms'
  BY <1>1, <1>2, <1>3, DeadlineStep
<1>5. deadline[q] = "agreed" => deadline'[q] = "agreed"
  BY <1>3, DeadlineStep
<1>6. CASE LockConfig(q)
  <2>1. round[q].locked /\ round' = round /\ pc'[q] = "play"
    BY <1>6 DEF LockConfig, MayLock, Goto, Shape, pregame
  <2> QED  BY <1>2, <1>4, <2>1
<1>7. CASE ~LockConfig(q)
  <2>1. owner'[q].game = owner[q].game
    BY <1>2, <1>7, OwnerStep
  <2>2. pc'[q] = "play" => round'[q].locked = TRUE
    <3>1. pc'[q] = "play" => pc[q] = "play"
      BY <1>7, PlayStep DEF Playing
    <3> QED  BY <1>2, <3>1, RoundStep DEF Kept, OpenedFor, LockedBy
  <2>3. owner[q].game # 0 => deadline'[q] = "agreed" \/ pc'[q] \in {"failed", "play"}
    <3>1. CASE deadline[q] = "agreed"
      BY <3>1, <1>5
    <3>2. CASE pc[q] \in {"failed", "play"}
      <4>1. pc'[q] = pc[q] \/ pc'[q] = "failed" \/ (pc[q] = "play" /\ deadline'[q] = Seconds(q))
        BY <1>7, <3>2, PlayStep
      <4> QED  BY <3>2, <4>1, <1>2, <1>3
    <3> QED  BY <1>2, <3>1, <3>2
  <2> QED  BY <1>4, <2>1, <2>2, <2>3
<1> QED  BY <1>6, <1>7


-----------------------------------------------------------------------------
(* The terms of a series.                                                  *)

TermsInv ==
  Shape /\ CallLink /\ RoundLink /\ EvidenceLink /\ LockLink /\ OwnerLink /\ DeadlineLink

LEMMA InitTerms == Init => TermsInv
<1> SUFFICES ASSUME Init  PROVE TermsInv
  OBVIOUS
<1> USE DEF Init
<1>1. Shape
  BY DEF Shape
<1>2. CallLink
  BY Kinds DEF CallLink
<1>3. RoundLink
  <2>1. 1 \in Games
    BY SeriesAssumption DEF Games
  <2> QED  BY <2>1 DEF RoundLink, NewRound, Fields
<1>4. EvidenceLink
  BY Kinds DEF EvidenceLink
<1>5. LockLink
  BY DEF LockLink, NewRound
<1>6. OwnerLink
  <2> SUFFICES ASSUME NEW q \in Group
               PROVE  /\ DOMAIN owner[q] = {"game", "audit"} /\ owner[q].game = 0
                      /\ game[Other(q)] = 1 /\ pc[q] = "boot"
    BY DEF OwnerLink, Playing
  <2> QED  BY Others
<1>7. DeadlineLink
  BY DEF DeadlineLink
<1> QED  BY <1>1, <1>2, <1>3, <1>4, <1>5, <1>6, <1>7 DEF TermsInv

LEMMA KeepsTerms == TermsInv /\ [Next]_vars => TermsInv'
  BY KeepsShape, KeepsCallLink, KeepsRoundLink, KeepsEvidenceLink, KeepsLockLink,
     KeepsOwnerLink, KeepsDeadlineLink DEF TermsInv

LEMMA TermsHold == TermsInv => AgreedBeforePlay /\ DeadlineIsAgreed
<1> SUFFICES ASSUME TermsInv, NEW q \in Group
             PROVE  /\ owner[q].game # 0 => SameTerms
                    /\ round[q].locked => round[Other(q)].game >= round[q].game
                    /\ owner[q].game <= round[Other(q)].game
                    /\ owner[q].game # 0 /\ pc[q] \in Calling => deadline[q] = "agreed"
                    /\ deadline[q] = "agreed" => SameTerms
  BY DEF AgreedBeforePlay, DeadlineIsAgreed, SameTerms
<1>1. /\ round[q].game = game[q] /\ round[Other(q)].game = game[Other(q)]
      /\ game[q] \in Nat /\ game[Other(q)] \in Nat
      /\ round[q].locked \in {TRUE, FALSE}
  <2>1. \A p \in Group : /\ round[p].game = game[p] /\ game[p] \in Games
                        /\ round[p].locked \in {TRUE, FALSE}
    BY DEF TermsInv, RoundLink
  <2>2. Other(q) \in Group
    BY Others
  <2>3. game[q] \in Games /\ game[Other(q)] \in Games
    BY <2>1, <2>2
  <2>4. game[q] \in Nat /\ game[Other(q)] \in Nat
    BY <2>3, SeriesAssumption DEF Games
  <2> QED  BY <2>1, <2>2, <2>4
<1>2. /\ round[q].locked = TRUE => game[q] <= game[Other(q)]
      /\ owner[q].game # 0 => SameTerms
      /\ owner[q].game <= game[Other(q)]
      /\ deadline[q] = "agreed" => SameTerms
  BY DEF TermsInv, LockLink, OwnerLink, DeadlineLink
<1>3. owner[q].game # 0 /\ pc[q] \in Calling => deadline[q] = "agreed"
  BY DEF TermsInv, DeadlineLink, Calling
<1> QED  BY <1>1, <1>2, <1>3

-----------------------------------------------------------------------------
(* The end of a series.                                                    *)

Late == {"requestSent", "responseSent", "awaitRequest", "awaitResponse", "persist", "done"}

(* The driver of q comes to the result with its last sub-game, agrees on   *)
(* it once it built it, and is done once it stored it.                     *)
LEMMA EndStep ==
  ASSUME Shape, CallLink, [Next]_vars, NEW q \in Group
  PROVE  \/ pc'[q] = pc[q]
         \/ BuildResult(q) /\ pc'[q] \in Late
         \/ pc'[q] = "failed" /\ pc[q] # "done"
         \/ pc[q] \notin Late \cup {"result", "failed"} /\ pc'[q] \notin Late \cup {"result"}
         \/ pc[q] = "awaitAudit" /\ pc'[q] = "result" /\ LastGame(game[q]) /\ Close(q)
         \/ pc[q] \in Late /\ pc'[q] \in Late /\ pc[q] # "done" /\ pc'[q] # "done"
         \/ Persist(q) /\ pc'[q] = "done" /\ pc[q] \in Late /\ pc[q] # "done"
<1> DEFINE Early == pc[q] \notin Late \cup {"result", "failed"}
                    /\ pc'[q] \notin Late \cup {"result"}
           Within == pc[q] \in Late /\ pc'[q] \in Late /\ pc[q] # "done" /\ pc'[q] # "done"
<1>1. ASSUME NEW p \in Group, NEW label, Goto(p, label)
      PROVE  pc'[q] = pc[q] \/ (q = p /\ pc'[q] = label)
  BY <1>1 DEF Goto, Shape
<1>2. ASSUME NEW p \in Group, SendStep0(p)  PROVE pc'[q] = pc[q] \/ Early
  BY <1>1, <1>2 DEF SendStep0, Send, Late
<1>3. ASSUME NEW p \in Group, SendProposal(p)  PROVE pc'[q] = pc[q] \/ Early
  BY <1>1, <1>3 DEF SendProposal, Send, Late
<1>4. ASSUME NEW p \in Group, SendLock(p)  PROVE pc'[q] = pc[q] \/ Early
  BY <1>1, <1>4 DEF SendLock, Send, Late
<1>5. ASSUME NEW p \in Group, SendDisclosure(p)  PROVE pc'[q] = pc[q] \/ Early
  BY <1>1, <1>5 DEF SendDisclosure, Send, Late
<1>6. ASSUME NEW p \in Group, SendResponse(p)  PROVE pc'[q] = pc[q] \/ Within
  BY <1>1, <1>6 DEF SendResponse, Send, Late
<1>7. ASSUME NEW p \in Group, Begin(p)  PROVE pc'[q] = pc[q] \/ Early
  BY <1>1, <1>7 DEF Begin, Negotiating, Late
<1>8. ASSUME NEW p \in Group, LockConfig(p)  PROVE pc'[q] = pc[q] \/ Early
  BY <1>1, <1>8 DEF LockConfig, Late
<1>9. ASSUME NEW p \in Group, Close(p)
      PROVE  \/ pc'[q] = pc[q] \/ Early
             \/ pc[q] = "awaitAudit" /\ pc'[q] = "result" /\ LastGame(game[q]) /\ Close(q)
  <2>1. pc[p] = "awaitAudit" /\ \E outcome \in Outcomes : CloseWith(p, outcome)
    BY <1>9 DEF Close
  <2>2. CASE LastGame(game[p])
    <3>1. Goto(p, "result")
      BY <2>1, <2>2 DEF CloseWith
    <3> QED  BY <1>1, <1>9, <2>1, <2>2, <3>1
  <2>3. CASE ~LastGame(game[p])
    <3>1. Goto(p, Negotiating(p))
      BY <2>1, <2>3 DEF CloseWith
    <3> QED  BY <1>1, <2>1, <3>1 DEF Negotiating, Late
  <2> QED  BY <2>2, <2>3
<1>10. ASSUME NEW p \in Group, BuildResult(p)
       PROVE  pc'[q] = pc[q] \/ (BuildResult(q) /\ pc'[q] \in Late)
  <2>1. Goto(p, "requestSent") \/ Goto(p, "awaitRequest")
    <3>1. CASE p = Lower
      BY <1>10, <3>1 DEF BuildResult, Send
    <3>2. CASE p # Lower
      BY <1>10, <3>2 DEF BuildResult
    <3> QED  BY <3>1, <3>2
  <2> QED  BY <1>1, <1>10, <2>1 DEF Late
<1>11. ASSUME NEW p \in Group, Answered(p)  PROVE pc'[q] = pc[q] \/ Early \/ Within
  <2>1. pc[p] \in Calling /\ (pc'[q] = pc[q] \/ (q = p /\ pc'[q] = AfterCall[pc[p]]))
    BY <1>1, <1>11 DEF Answered
  <2> QED  BY <2>1 DEF Calling, AfterCall, Late
<1>12. ASSUME NEW p \in Group, DigestReturned(p)
       PROVE  pc'[q] = pc[q] \/ (pc'[q] = "failed" /\ pc[q] # "done") \/ Within
  <2>1. pc[p] \in {"requestSent", "responseSent"}
    BY <1>12 DEF DigestReturned, CallLink
  <2>2. pc'[q] = pc[q] \/ (q = p /\ pc'[q] \in {"failed", AfterCall[pc[p]]})
    BY <1>1, <1>12 DEF DigestReturned
  <2> QED  BY <2>1, <2>2 DEF AfterCall, Late
<1>13. ASSUME NEW p \in Group, Refused(p) \/ RefuseResult(p) \/ Timeout(p) \/ Crash(p)
                               \/ PersistFails(p)
       PROVE  pc'[q] = pc[q] \/ (pc'[q] = "failed" /\ pc[q] # "done")
  <2>1. Goto(p, "failed") /\ pc[p] # "done"
    BY <1>13 DEF Refused, RefuseResult, Timeout, Crash, PersistFails, Calling, Waiting,
       Suspended, Final
  <2> QED  BY <1>1, <2>1
<1>14. ASSUME NEW p \in Group, Persist(p)
       PROVE  pc'[q] = pc[q]
              \/ (Persist(q) /\ pc'[q] = "done" /\ pc[q] \in Late /\ pc[q] # "done")
  BY <1>1, <1>14 DEF Persist, Late
<1>15. ASSUME NEW p \in Group, Serve(p) \/ LoseCall(p) \/ LoseReply(p)  PROVE pc'[q] = pc[q]
  BY <1>15 DEF Serve, AcceptStep0, AcceptProposal, AcceptLock, AcceptDisclosure, AcceptResult,
     Refuse, LoseCall, LoseReply
<1>16. Finished \/ UNCHANGED vars => pc'[q] = pc[q]
  BY DEF Finished, vars
<1>17. ASSUME NEW p \in Group, Drive(p)
       PROVE  \/ SendStep0(p) \/ Begin(p) \/ SendProposal(p) \/ SendLock(p) \/ LockConfig(p)
              \/ SendDisclosure(p) \/ Close(p) \/ BuildResult(p) \/ SendResponse(p)
              \/ RefuseResult(p) \/ Answered(p) \/ DigestReturned(p) \/ Refused(p) \/ Persist(p)
  BY <1>17 DEF Drive
<1>18. ASSUME NEW p \in Group, Fault(p)
       PROVE  LoseCall(p) \/ LoseReply(p) \/ Timeout(p) \/ Crash(p) \/ PersistFails(p)
  BY <1>18 DEF Fault
<1> HIDE DEF Early, Within
<1>19. \/ pc'[q] = pc[q] \/ Early \/ Within
       \/ BuildResult(q) /\ pc'[q] \in Late
       \/ pc'[q] = "failed" /\ pc[q] # "done"
       \/ pc[q] = "awaitAudit" /\ pc'[q] = "result" /\ LastGame(game[q]) /\ Close(q)
       \/ Persist(q) /\ pc'[q] = "done" /\ pc[q] \in Late /\ pc[q] # "done"
  BY <1>2, <1>3, <1>4, <1>5, <1>6, <1>7, <1>8, <1>9, <1>10, <1>11, <1>12, <1>13, <1>14, <1>15,
     <1>16, <1>17, <1>18 DEF Next
<1> QED  BY <1>19 DEF Early, Within

(* A line is written by the driver of q closing the sub-game it is at.     *)
LEMMA LinesStep ==
  ASSUME Shape, [Next]_vars, NEW q \in Group
  PROVE  \/ lines'[q] = lines[q]
         \/ /\ pc[q] = "awaitAudit" /\ Len(lines[q]) = game[q] - 1
            /\ \E outcome \in Outcomes : lines'[q] = Append(lines[q], outcome)
            /\ files'[q] = files[q] \cup {Document("log", game[q])}
            /\ \/ LastGame(game[q]) /\ game'[q] = game[q]
               \/ ~LastGame(game[q]) /\ game'[q] = game[q] + 1
            /\ result' = result
            /\ \A p \in Group : p # q => lines'[p] = lines[p] /\ files'[p] = files[p]
<1>1. ASSUME NEW p \in Group, Close(p), q # p  PROVE lines'[q] = lines[q]
  BY <1>1 DEF Close, CloseWith, Shape
<1>2. ASSUME Close(q)
      PROVE /\ pc[q] = "awaitAudit" /\ Len(lines[q]) = game[q] - 1
            /\ \E outcome \in Outcomes : lines'[q] = Append(lines[q], outcome)
            /\ files'[q] = files[q] \cup {Document("log", game[q])}
            /\ \/ LastGame(game[q]) /\ game'[q] = game[q]
               \/ ~LastGame(game[q]) /\ game'[q] = game[q] + 1
            /\ result' = result
            /\ \A p \in Group : p # q => lines'[p] = lines[p] /\ files'[p] = files[p]
  <2>1. PICK outcome \in Outcomes : CloseWith(q, outcome)
    BY <1>2 DEF Close
  <2>2. /\ pc[q] = "awaitAudit" /\ Len(lines[q]) = game[q] - 1
        /\ lines' = [lines EXCEPT ![q] = Append(@, outcome)]
        /\ files' = [files EXCEPT ![q] = @ \cup {Document("log", game[q])}]
        /\ result' = result
    BY <1>2, <2>1 DEF Close, CloseWith, Store
  <2>3. \/ LastGame(game[q]) /\ game'[q] = game[q]
        \/ ~LastGame(game[q]) /\ game'[q] = game[q] + 1
    <3>1. CASE LastGame(game[q])
      BY <2>1, <3>1 DEF CloseWith
    <3>2. CASE ~LastGame(game[q])
      BY <2>1, <3>2 DEF CloseWith, Shape
    <3> QED  BY <3>1, <3>2
  <2>4. lines'[q] = Append(lines[q], outcome)
        /\ files'[q] = files[q] \cup {Document("log", game[q])}
        /\ \A p \in Group : p # q => lines'[p] = lines[p] /\ files'[p] = files[p]
    BY <2>2 DEF Shape
  <2> QED  BY <2>2, <2>3, <2>4
<1>3. ASSUME NEW p \in Group, Drive(p)  PROVE lines' = lines \/ Close(p)
  BY <1>3 DEF Drive, SendStep0, Begin, SendProposal, SendLock, LockConfig, SendDisclosure,
     BuildResult, RefuseResult, SendResponse, Answered, DigestReturned, Refused, Persist
<1>4. ASSUME NEW p \in Group, Serve(p) \/ Fault(p)  PROVE lines' = lines
  BY <1>4 DEF Serve, AcceptStep0, AcceptProposal, AcceptLock, AcceptDisclosure, AcceptResult,
     Refuse, Fault, LoseCall, LoseReply, Timeout, Crash, PersistFails
<1>5. Finished \/ UNCHANGED vars => lines' = lines
  BY DEF Finished, vars
<1> QED  BY <1>1, <1>2, <1>3, <1>4, <1>5 DEF Next

(* The cursor moves when a sub-game closes.                                *)
LEMMA CursorStep ==
  ASSUME Shape, [Next]_vars, NEW q \in Group
  PROVE  game'[q] = game[q] \/ Close(q)
<1>1. ASSUME NEW p \in Group, Close(p), q # p  PROVE game'[q] = game[q]
  <2>1. game' = game \/ game' = [game EXCEPT ![p] = @ + 1]
    BY <1>1 DEF Close, CloseWith
  <2> QED  BY <1>1, <2>1 DEF Shape
<1>2. ASSUME NEW p \in Group, Drive(p)  PROVE game' = game \/ Close(p)
  BY <1>2 DEF Drive, SendStep0, Begin, SendProposal, SendLock, LockConfig, SendDisclosure,
     BuildResult, RefuseResult, SendResponse, Answered, DigestReturned, Refused, Persist, cursor
<1>3. ASSUME NEW p \in Group, Serve(p) \/ Fault(p)  PROVE game' = game
  BY <1>3 DEF Serve, AcceptStep0, AcceptProposal, AcceptLock, AcceptDisclosure, AcceptResult,
     Refuse, Fault, LoseCall, LoseReply, Timeout, Crash, PersistFails, cursor
<1>4. Finished \/ UNCHANGED vars => game' = game
  BY DEF Finished, vars, cursor
<1> QED  BY <1>1, <1>2, <1>3, <1>4 DEF Next

(* A line for each sub-game behind the cursor, and for all at the end.     *)
LinesLink ==
  \A q \in Group :
    /\ lines[q] \in Seq(Outcomes)
    /\ Len(lines[q]) = game[q] - 1 \/ Len(lines[q]) = NumGames
    /\ pc[q] \in Late \cup {"result"} => Len(lines[q]) = NumGames

LEMMA KeepsLinesLink ==
  Shape /\ CallLink /\ RoundLink /\ LinesLink /\ [Next]_vars => LinesLink'
<1> SUFFICES ASSUME Shape, CallLink, RoundLink, LinesLink, [Next]_vars, NEW q \in Group
             PROVE  /\ lines'[q] \in Seq(Outcomes)
                    /\ Len(lines'[q]) = game'[q] - 1 \/ Len(lines'[q]) = NumGames
                    /\ pc'[q] \in Late \cup {"result"} => Len(lines'[q]) = NumGames
  BY DEF LinesLink
<1>1. /\ lines[q] \in Seq(Outcomes)
      /\ Len(lines[q]) = game[q] - 1 \/ Len(lines[q]) = NumGames
      /\ pc[q] \in Late \cup {"result"} => Len(lines[q]) = NumGames
  BY DEF LinesLink
<1>2. game[q] \in Nat /\ game[q] >= 1 /\ NumGames \in Nat
  BY Advances, SeriesAssumption DEF Games
<1>3. CASE lines'[q] = lines[q]
  <2>1. CASE Len(lines[q]) = NumGames
    BY <1>1, <1>3, <2>1
  <2>2. CASE Len(lines[q]) # NumGames
    <3>1. pc[q] \notin Late \cup {"result"} /\ Len(lines[q]) = game[q] - 1
      BY <1>1, <2>2
    <3>2. ~Close(q)
      <4> SUFFICES ASSUME NEW outcome \in Outcomes, CloseWith(q, outcome)  PROVE FALSE
        BY DEF Close
      <4>1. lines'[q] = Append(lines[q], outcome)
        BY DEF CloseWith, Shape
      <4>2. Len(Append(lines[q], outcome)) = Len(lines[q]) + 1 /\ Len(lines[q]) \in Nat
        BY <1>1
      <4> QED  BY <4>1, <4>2, <1>3
    <3>3. ~BuildResult(q)
      BY <3>1 DEF BuildResult
    <3>4. pc'[q] \notin Late \cup {"result"}
      BY <3>1, <3>2, <3>3, EndStep DEF Late
    <3>5. game'[q] = game[q]
      <4>1. OpenedFor(q) => game'[q] = game[q]
        <5> SUFFICES ASSUME pc[q] = "awaitAudit", game'[q] = game[q] + 1  PROVE FALSE
          BY DEF OpenedFor
        <5> QED  BY CursorStep, <3>2, <1>2
      <4> QED  BY <4>1, RoundStep DEF Kept, LockedBy
    <3> QED  BY <1>1, <1>3, <3>1, <3>4, <3>5
  <2> QED  BY <2>1, <2>2
<1>4. CASE lines'[q] # lines[q]
  <2>1. PICK outcome \in Outcomes : lines'[q] = Append(lines[q], outcome)
    BY <1>4, LinesStep
  <2>2. lines'[q] \in Seq(Outcomes) /\ Len(lines'[q]) = Len(lines[q]) + 1
    BY <1>1, <2>1
  <2>3. /\ pc[q] = "awaitAudit" /\ Len(lines[q]) = game[q] - 1
        /\ \/ LastGame(game[q]) /\ game'[q] = game[q]
           \/ ~LastGame(game[q]) /\ game'[q] = game[q] + 1
    BY <1>4, LinesStep
  <2>4. pc'[q] \in Late \cup {"result"} => LastGame(game[q])
    BY <2>3, EndStep DEF Late, BuildResult
  <2> QED  BY <1>2, <2>2, <2>3, <2>4 DEF LastGame
<1> QED  BY <1>3, <1>4

-----------------------------------------------------------------------------
(* The exchange of results.                                                *)

ResultFields ==
  {"kind", "stamped", "local", "peer", "sent", "handled", "verified", "requested"}

LEMMA Bound == \A r : DOMAIN r = ResultFields => r # None
<1> SUFFICES ASSUME NEW r, DOMAIN r = ResultFields, r = None  PROVE FALSE
  OBVIOUS
<1>1. DOMAIN r = {"kind"}
  BY DEF None
<1> QED  BY <1>1 DEF ResultFields

(* What a step does to the exchange of q, and to the answer it awaits.     *)
Fresh(q) ==
  /\ pc[q] = "result" /\ DOMAIN result'[q] = ResultFields
  /\ result'[q].local = None /\ result'[q].peer = None
  /\ pc'[q] = "failed" \/ (Clean(q) /\ pc'[q] \in Late)

Retained(q) ==
  /\ pc[q] \in {"requestSent", "responseSent"} /\ reply[q].kind = "digest"
  /\ DOMAIN result[q] = ResultFields =>
       /\ DOMAIN result'[q] = ResultFields
       /\ result'[q].local = result[q].local /\ result'[q].peer = reply[q]
  /\ reply'[q] = None

Computed(q) ==
  /\ result[q] # None
  /\ DOMAIN result[q] = ResultFields =>
       /\ DOMAIN result'[q] = ResultFields
       /\ result'[q].local = Digest(lines[q]) /\ result'[q].peer = result[q].peer

LEMMA Builds ==
  ASSUME Shape, NEW q \in Group, BuildResult(q)
  PROVE  Fresh(q)
<1>1. /\ result' = [result EXCEPT ![q] = [NewResult EXCEPT !.stamped = (q = Lower)]]
      /\ pc[q] = "result" /\ Clean(q)
  BY DEF BuildResult
<1>2. result'[q] = [NewResult EXCEPT !.stamped = (q = Lower)]
  BY <1>1 DEF Shape
<1>3. DOMAIN result'[q] = ResultFields /\ result'[q].local = None /\ result'[q].peer = None
  BY <1>2 DEF NewResult, ResultFields
<1>4. Goto(q, "requestSent") \/ Goto(q, "awaitRequest")
  <2>1. CASE q = Lower
    BY <2>1 DEF BuildResult, Send
  <2>2. CASE q # Lower
    BY <2>2 DEF BuildResult
  <2> QED  BY <2>1, <2>2
<1>5. pc'[q] \in Late
  BY <1>4 DEF Goto, Shape, Late
<1> QED  BY <1>1, <1>3, <1>5 DEF Fresh

LEMMA ResultStep ==
  ASSUME Shape, CallLink, [Next]_vars, NEW q \in Group
  PROVE  result'[q] = result[q] \/ Fresh(q) \/ Retained(q) \/ Computed(q)
<1>1. ASSUME NEW p \in Group, BuildResult(p)  PROVE result'[q] = result[q] \/ Fresh(q)
  <2>1. CASE q # p
    BY <1>1, <2>1 DEF BuildResult, Shape
  <2> QED  BY <1>1, <2>1, Builds
<1>2. ASSUME NEW p \in Group, RefuseResult(p)  PROVE result'[q] = result[q] \/ Fresh(q)
  <2>1. result' = [result EXCEPT ![p] = NewResult] /\ pc[p] = "result"
        /\ pc' = [pc EXCEPT ![p] = "failed"]
    BY <1>2 DEF RefuseResult, Goto
  <2>2. CASE q # p
    BY <2>1, <2>2 DEF Shape
  <2>3. CASE q = p
    <3>1. result'[q] = NewResult /\ pc'[q] = "failed"
      BY <2>1, <2>3 DEF Shape
    <3>2. DOMAIN NewResult = ResultFields /\ NewResult.local = None /\ NewResult.peer = None
      BY DEF NewResult, ResultFields
    <3> QED  BY <1>2, <2>1, <2>3, <3>1, <3>2 DEF Fresh
  <2> QED  BY <2>2, <2>3
<1>3. ASSUME NEW p \in Group, DigestReturned(p)
      PROVE  result'[q] = result[q] \/ Retained(q)
  <2> DEFINE r == [result[p] EXCEPT !.peer = reply[p], !.sent = TRUE]
  <2>1. /\ result' = [result EXCEPT ![p] = IF Disagrees(r) THEN r ELSE Verified(r)]
        /\ reply' = [reply EXCEPT ![p] = None] /\ reply[p].kind = "digest"
    BY <1>3 DEF DigestReturned
  <2>2. CASE q # p
    BY <2>1, <2>2 DEF Shape
  <2>3. CASE q = p
    <3>1. pc[q] \in {"requestSent", "responseSent"}
      BY <2>1, <2>3 DEF CallLink
    <3>2. reply'[q] = None /\ result'[q] \in {r, Verified(r)}
      BY <2>1, <2>3 DEF Shape
    <3>3. ASSUME DOMAIN result[q] = ResultFields
          PROVE  /\ DOMAIN r = ResultFields /\ r.local = result[q].local /\ r.peer = reply[q]
                 /\ DOMAIN Verified(r) = ResultFields /\ Verified(r).local = result[q].local
                 /\ Verified(r).peer = reply[q]
      <4>1. DOMAIN r = ResultFields /\ r.local = result[q].local /\ r.peer = reply[q]
        BY <2>3, <3>3 DEF ResultFields
      <4> HIDE DEF r
      <4> QED  BY <4>1 DEF Verified
    <3> HIDE DEF r
    <3> QED  BY <2>1, <2>3, <3>1, <3>2, <3>3 DEF Retained
  <2> QED  BY <2>2, <2>3
<1>4. ASSUME NEW p \in Group, AcceptResult(p)
      PROVE  result'[q] = result[q] \/ Computed(q)
  <2>1. PICK o \in Group : o = Other(p) /\ p = Other(o)
    BY Others
  <2> DEFINE r == [result[o] EXCEPT !.stamped = TRUE, !.local = Digest(lines[o]),
                                    !.handled = TRUE]
  <2>2. /\ \/ /\ result' = [result EXCEPT ![o] = [Verified(r) EXCEPT !.requested = TRUE]]
              /\ reply' = [reply EXCEPT ![p] = r.local]
           \/ /\ result' = [result EXCEPT ![o] = r]
              /\ reply' = [reply EXCEPT ![p] = Error]
        /\ result[o] # None
    <3>1. call[p].kind = "result" /\ Admits(o, call[p])
      BY <1>4, <2>1 DEF AcceptResult, Receive
    <3>2. result[o] # None
      BY <3>1 DEF Admits
    <3> QED  BY <1>4, <2>1, <3>2 DEF AcceptResult, Answer
  <2>3. CASE q # o
    BY <2>2, <2>3 DEF Shape
  <2>4. CASE q = o
    <3>1. /\ result[q] # None
          /\ \/ /\ result'[q] = [Verified(r) EXCEPT !.requested = TRUE]
                /\ reply'[p] = r.local
             \/ result'[q] = r /\ reply'[p] = Error
      BY <2>2, <2>4 DEF Shape
    <3>2. CASE DOMAIN result[q] = ResultFields
      <4>1. DOMAIN r = ResultFields /\ r.local = Digest(lines[q]) /\ r.peer = result[q].peer
        BY <2>4, <3>2 DEF ResultFields
      <4> DEFINE v == [Verified(r) EXCEPT !.requested = TRUE]
      <4>2. DOMAIN v = ResultFields /\ v.local = Digest(lines[q]) /\ v.peer = result[q].peer
        <5> HIDE DEF r
        <5> QED  BY <4>1 DEF Verified, ResultFields
      <4> HIDE DEF r, v
      <4>3. (result'[q] = v /\ reply'[p] = r.local) \/ (result'[q] = r /\ reply'[p] = Error)
        BY <3>1 DEF v
      <4> QED  BY <2>1, <2>4, <3>1, <4>1, <4>2, <4>3 DEF Computed
    <3>3. CASE DOMAIN result[q] # ResultFields
      BY <3>1, <3>3 DEF Computed
    <3> QED  BY <3>2, <3>3
  <2> QED  BY <2>3, <2>4
<1>5. ASSUME NEW p \in Group, Drive(p)
      PROVE  result' = result \/ BuildResult(p) \/ RefuseResult(p) \/ DigestReturned(p)
  BY <1>5 DEF Drive, SendStep0, Begin, SendProposal, SendLock, LockConfig, SendDisclosure,
     Close, CloseWith, SendResponse, Answered, Refused, Persist
<1>6. ASSUME NEW p \in Group, Serve(p) \/ Fault(p)
      PROVE  result' = result \/ AcceptResult(p)
  BY <1>6 DEF Serve, AcceptStep0, AcceptProposal, AcceptLock, AcceptDisclosure, Refuse, Fault,
     LoseCall, LoseReply, Timeout, Crash, PersistFails
<1>7. Finished \/ UNCHANGED vars => result' = result
  BY DEF Finished, vars
<1> QED  BY <1>1, <1>2, <1>3, <1>4, <1>5, <1>6, <1>7 DEF Next

(* An answer in flight is the digest the other just computed.              *)
LEMMA ReplyStep ==
  ASSUME Shape, [Next]_vars, NEW q \in Group
  PROVE  \/ reply'[q] = reply[q] \/ reply'[q].kind # "digest"
         \/ /\ result[Other(q)] # None
            /\ DOMAIN result[Other(q)] = ResultFields =>
                 reply'[q] = Digest(lines[Other(q)])
                 /\ DOMAIN result'[Other(q)] = ResultFields
                 /\ result'[Other(q)].local = Digest(lines[Other(q)])
<1>1. ASSUME NEW p \in Group, NEW m, Answer(p, m)
      PROVE  reply'[q] = reply[q] \/ (q = p /\ reply'[q] = m)
  BY <1>1 DEF Answer, Shape
<1>2. ASSUME NEW p \in Group, Answered(p) \/ DigestReturned(p) \/ Refused(p) \/ LoseReply(p)
      PROVE  reply'[q] = reply[q] \/ reply'[q].kind # "digest"
  <2>1. reply' = [reply EXCEPT ![p] = None] \/ reply' = [reply EXCEPT ![p] = Error]
    BY <1>2 DEF Answered, DigestReturned, Refused, LoseReply
  <2> QED  BY <2>1, Kinds DEF Shape
<1>3. ASSUME NEW p \in Group, AcceptStep0(p) \/ AcceptProposal(p) \/ AcceptLock(p)
                              \/ AcceptDisclosure(p) \/ Refuse(p) \/ LoseCall(p) \/ Crash(p)
      PROVE  reply'[q] = reply[q] \/ reply'[q].kind # "digest"
  <2>1. Answer(p, Ok) \/ Answer(p, Error) \/ Answer(p, None)
    BY <1>3 DEF AcceptStep0, AcceptProposal, AcceptLock, AcceptDisclosure, Refuse, LoseCall,
       Crash
  <2> QED  BY <1>1, <2>1, Kinds
<1>4. ASSUME NEW p \in Group, AcceptResult(p), q # p  PROVE reply'[q] = reply[q]
  <2>1. \E m : Answer(p, m)
    BY <1>4 DEF AcceptResult
  <2> QED  BY <1>1, <1>4, <2>1
<1>5. ASSUME AcceptResult(q)
      PROVE  \/ reply'[q].kind # "digest"
             \/ /\ result[Other(q)] # None
                /\ DOMAIN result[Other(q)] = ResultFields =>
                     reply'[q] = Digest(lines[Other(q)])
                     /\ DOMAIN result'[Other(q)] = ResultFields
                     /\ result'[Other(q)].local = Digest(lines[Other(q)])
  <2>1. PICK o \in Group : o = Other(q)
    BY Others
  <2> DEFINE r == [result[o] EXCEPT !.stamped = TRUE, !.local = Digest(lines[o]),
                                    !.handled = TRUE]
  <2>2. \/ /\ result' = [result EXCEPT ![o] = [Verified(r) EXCEPT !.requested = TRUE]]
           /\ reply' = [reply EXCEPT ![q] = r.local]
        \/ reply' = [reply EXCEPT ![q] = Error]
    BY <1>5, <2>1 DEF AcceptResult, Answer
  <2>3. result[o] # None
    <3>1. call[q].kind = "result" /\ Admits(o, call[q])
      BY <1>5, <2>1 DEF AcceptResult, Receive
    <3> QED  BY <3>1 DEF Admits
  <2>4. CASE reply' = [reply EXCEPT ![q] = Error]
    BY <2>4, Kinds DEF Shape
  <2>5. CASE /\ result' = [result EXCEPT ![o] = [Verified(r) EXCEPT !.requested = TRUE]]
             /\ reply' = [reply EXCEPT ![q] = r.local]
    <3>1. result'[o] = [Verified(r) EXCEPT !.requested = TRUE] /\ reply'[q] = r.local
      BY <2>5 DEF Shape
    <3>2. ASSUME DOMAIN result[o] = ResultFields
          PROVE  r.local = Digest(lines[o]) /\ DOMAIN result'[o] = ResultFields
                 /\ result'[o].local = Digest(lines[o])
      <4>1. DOMAIN r = ResultFields /\ r.local = Digest(lines[o])
        BY <3>2 DEF ResultFields
      <4> HIDE DEF r
      <4> QED  BY <3>1, <4>1 DEF Verified, ResultFields
    <3> HIDE DEF r
    <3> QED  BY <2>1, <2>3, <3>1, <3>2
  <2> QED  BY <2>2, <2>4, <2>5
<1>6. ASSUME NEW p \in Group, Drive(p)
      PROVE  reply' = reply \/ Answered(p) \/ DigestReturned(p) \/ Refused(p)
  BY <1>6 DEF Drive, Send, SendStep0, Begin, SendProposal, SendLock, LockConfig, SendDisclosure,
     Close, CloseWith, BuildResult, RefuseResult, SendResponse, Persist, network
<1>7. ASSUME NEW p \in Group, Serve(p) \/ Fault(p)
      PROVE  \/ reply' = reply \/ AcceptStep0(p) \/ AcceptProposal(p) \/ AcceptLock(p)
             \/ AcceptDisclosure(p) \/ Refuse(p) \/ LoseCall(p) \/ Crash(p)
             \/ AcceptResult(p) \/ LoseReply(p)
  BY <1>7 DEF Serve, Fault, Timeout, PersistFails, network
<1>8. Finished \/ UNCHANGED vars => reply' = reply
  BY DEF Finished, vars, network
<1> QED  BY <1>2, <1>3, <1>4, <1>5, <1>6, <1>7, <1>8 DEF Next

(* The driver of q builds its result only when it has none, and has one    *)
(* ever after; our digest is of our own lines.                             *)
ResultLink ==
  \A q \in Group :
    /\ result[q] # None => /\ DOMAIN result[q] = ResultFields
                          /\ result[q].local \in {None, Digest(lines[q])}
                          /\ Len(lines[q]) = NumGames
    /\ pc[q] \in Late => result[q] # None
    /\ pc[q] \notin Late \cup {"failed"} => result[q] = None

(* Once the result is built nothing more is written down.                  *)
LEMMA LinesStay ==
  ASSUME Shape, RoundLink, LinesLink, ResultLink, [Next]_vars, NEW q \in Group,
         result[q] # None \/ pc[q] = "result"
  PROVE  lines'[q] = lines[q]
<1> SUFFICES ASSUME pc[q] = "awaitAudit"  PROVE FALSE
  BY LinesStep
<1>1. result[q] = None
  BY DEF ResultLink, Late
<1> QED  BY <1>1

LEMMA KeepsResultLink ==
  Shape /\ CallLink /\ RoundLink /\ LinesLink /\ ResultLink /\ [Next]_vars => ResultLink'
<1> SUFFICES ASSUME Shape, CallLink, RoundLink, LinesLink, ResultLink, [Next]_vars,
                    NEW q \in Group
             PROVE  /\ result'[q] # None =>
                         /\ DOMAIN result'[q] = ResultFields
                         /\ result'[q].local \in {None, Digest(lines'[q])}
                         /\ Len(lines'[q]) = NumGames
                    /\ pc'[q] \in Late => result'[q] # None
                    /\ pc'[q] \notin Late \cup {"failed"} => result'[q] = None
  BY DEF ResultLink, Digest, None
<1>1. /\ result[q] # None => /\ DOMAIN result[q] = ResultFields
                            /\ result[q].local \in {None, Digest(lines[q])}
                            /\ Len(lines[q]) = NumGames
      /\ pc[q] \in Late => result[q] # None
      /\ pc[q] \notin Late \cup {"failed"} => result[q] = None
      /\ pc[q] \in Late \cup {"result"} => Len(lines[q]) = NumGames
  BY DEF ResultLink, LinesLink
<1>2. (result[q] # None \/ pc[q] = "result") => lines'[q] = lines[q]
  BY LinesStay
<1>3. /\ pc'[q] \in Late => pc[q] \in Late \/ BuildResult(q)
      /\ pc'[q] \notin Late \cup {"failed"} => pc[q] \notin Late \cup {"failed"}
  BY EndStep DEF Late
<1>4. CASE Fresh(q)
  <2>1. DOMAIN result'[q] = ResultFields /\ result'[q].local = None /\ pc[q] = "result"
        /\ pc'[q] \in Late \cup {"failed"}
    BY <1>4 DEF Fresh
  <2> QED  BY <1>1, <1>2, <2>1, Bound
<1>5. CASE Retained(q)
  <2>1. pc[q] \in Late
    BY <1>5 DEF Retained, Late
  <2>2. DOMAIN result'[q] = ResultFields /\ result'[q].local = result[q].local
    BY <1>1, <1>5, <2>1 DEF Retained
  <2>3. pc'[q] \in Late \cup {"failed"}
    BY <1>3, <2>1
  <2> QED  BY <1>1, <1>2, <2>1, <2>2, <2>3, Bound
<1>6. CASE Computed(q)
  <2>1. result[q] # None
    BY <1>6 DEF Computed
  <2>2. DOMAIN result'[q] = ResultFields /\ result'[q].local = Digest(lines[q])
    BY <1>1, <1>6, <2>1 DEF Computed
  <2>3. pc'[q] \in Late \cup {"failed"}
    BY <1>1, <1>3, <2>1
  <2> QED  BY <1>1, <1>2, <2>1, <2>2, <2>3, Bound
<1>7. CASE result'[q] = result[q] /\ ~Fresh(q)
  <2>1. ~BuildResult(q)
    BY <1>7, Builds
  <2> QED  BY <1>1, <1>2, <1>3, <1>7, <2>1
<1> QED  BY <1>4, <1>5, <1>6, <1>7, ResultStep

(* The digest d is what o computed over its own lines.                     *)
Held(o, d) == result[o] # None /\ d = Digest(lines[o]) /\ result[o].local = d

LEMMA HeldStays ==
  ASSUME Shape, CallLink, RoundLink, LinesLink, ResultLink, [Next]_vars, NEW o \in Group, NEW d,
         result[o] # None, d = Digest(lines[o]), result[o].local = d
  PROVE  result'[o] # None /\ d = Digest(lines'[o]) /\ result'[o].local = d
<1>1. DOMAIN result[o] = ResultFields
  BY DEF ResultLink
<1>2. lines'[o] = lines[o]
  BY LinesStay
<1>3. CASE result'[o] = result[o]
  BY <1>2, <1>3
<1>4. CASE Fresh(o)
  <2>1. result[o] = None
    BY <1>4 DEF Fresh, ResultLink, Late
  <2> QED  BY <2>1
<1>5. CASE Retained(o)
  <2>1. DOMAIN result'[o] = ResultFields /\ result'[o].local = result[o].local
    BY <1>1, <1>5 DEF Retained
  <2> QED  BY <1>2, <2>1, Bound
<1>6. CASE Computed(o)
  <2>1. DOMAIN result'[o] = ResultFields /\ result'[o].local = Digest(lines[o])
    BY <1>1, <1>6 DEF Computed
  <2> QED  BY <1>2, <2>1, Bound
<1> QED  BY <1>3, <1>4, <1>5, <1>6, ResultStep

(* An answer in flight, and the digest retained of the other, are what the *)
(* other computed.                                                         *)
DigestLink ==
  \A q \in Group :
    /\ reply[q].kind = "digest" => Held(Other(q), reply[q])
    /\ result[q] # None /\ result[q].peer # None => Held(Other(q), result[q].peer)

LEMMA KeepsDigestLink ==
  Shape /\ CallLink /\ RoundLink /\ LinesLink /\ ResultLink /\ DigestLink /\ [Next]_vars
    => DigestLink'
<1> SUFFICES ASSUME Shape, CallLink, RoundLink, LinesLink, ResultLink, DigestLink, [Next]_vars,
                    NEW q \in Group, NEW o \in Group, o = Other(q)
             PROVE  /\ reply'[q].kind = "digest" =>
                         /\ result'[o] # None /\ reply'[q] = Digest(lines'[o])
                         /\ result'[o].local = reply'[q]
                    /\ result'[q] # None /\ result'[q].peer # None =>
                         /\ result'[o] # None /\ result'[q].peer = Digest(lines'[o])
                         /\ result'[o].local = result'[q].peer
  BY Others DEF DigestLink, Held, Digest, None
<1>1. /\ reply[q].kind = "digest" =>
           result[o] # None /\ reply[q] = Digest(lines[o]) /\ result[o].local = reply[q]
      /\ result[q] # None /\ result[q].peer # None =>
           /\ result[o] # None /\ result[q].peer = Digest(lines[o])
           /\ result[o].local = result[q].peer
  BY DEF DigestLink, Held
<1>2. reply[q].kind = "digest" =>
        result'[o] # None /\ reply[q] = Digest(lines'[o]) /\ result'[o].local = reply[q]
  BY <1>1, HeldStays
<1>3. result[q] # None /\ result[q].peer # None =>
        /\ result'[o] # None /\ result[q].peer = Digest(lines'[o])
        /\ result'[o].local = result[q].peer
  BY <1>1, HeldStays
<1>4. ASSUME reply'[q].kind = "digest"
      PROVE  result'[o] # None /\ reply'[q] = Digest(lines'[o]) /\ result'[o].local = reply'[q]
  <2>1. CASE reply'[q] = reply[q]
    BY <1>2, <1>4, <2>1
  <2>2. CASE /\ result[o] # None
             /\ DOMAIN result[o] = ResultFields =>
                  reply'[q] = Digest(lines[o]) /\ DOMAIN result'[o] = ResultFields
                  /\ result'[o].local = Digest(lines[o])
    <3>1. DOMAIN result[o] = ResultFields
      BY <2>2 DEF ResultLink
    <3>2. lines'[o] = lines[o]
      BY <2>2, LinesStay
    <3> QED  BY <2>2, <3>1, <3>2, Bound
  <2> QED  BY <1>4, <2>1, <2>2, ReplyStep
<1>5. ASSUME result'[q] # None, result'[q].peer # None
      PROVE  /\ result'[o] # None /\ result'[q].peer = Digest(lines'[o])
             /\ result'[o].local = result'[q].peer
  <2>1. CASE result'[q] = result[q]
    BY <1>3, <1>5, <2>1
  <2>2. ~Fresh(q)
    BY <1>5 DEF Fresh
  <2>3. CASE Retained(q)
    <3>1. result[q] # None /\ reply[q].kind = "digest"
      BY <2>3 DEF Retained, ResultLink, Late
    <3>2. DOMAIN result[q] = ResultFields
      BY <3>1 DEF ResultLink
    <3> QED  BY <1>2, <2>3, <3>1, <3>2 DEF Retained
  <2>4. CASE Computed(q)
    <3>1. result[q] # None
      BY <2>4 DEF Computed
    <3>2. DOMAIN result[q] = ResultFields
      BY <3>1 DEF ResultLink
    <3>3. result'[q].peer = result[q].peer
      BY <2>4, <3>2 DEF Computed
    <3> QED  BY <1>3, <1>5, <3>1, <3>3
  <2> QED  BY <2>1, <2>2, <2>3, <2>4, ResultStep
<1> QED  BY <1>4, <1>5

-----------------------------------------------------------------------------
(* The official files.                                                     *)

Starting == {"boot", "step0Sent", "awaitStep0"}

(* What a step stores for q: its files only grow.                          *)
LEMMA FilesStep ==
  ASSUME Shape, [Next]_vars, NEW q \in Group
  PROVE  /\ files[q] \subseteq files'[q]
         /\ Document("result", 0) \in files'[q] =>
              Document("result", 0) \in files[q] \/ Persist(q)
         /\ Persist(q) => result' = result
         /\ Begin(q) => Document("declaration", 0) \in files'[q]
         /\ LockConfig(q) => Document("config", game[q]) \in files'[q] /\ game'[q] = game[q]
<1>1. ASSUME NEW p \in Group, Persist(p)
      PROVE files'[q] = files[q] \/ (Persist(q) /\ files[q] \subseteq files'[q])
  BY <1>1 DEF Persist, Store, Shape
<1>2. ASSUME NEW p \in Group, NEW name, NEW k, Store(p, {Document(name, k)}), name # "result"
      PROVE  /\ files[q] \subseteq files'[q]
             /\ Document("result", 0) \in files'[q] => Document("result", 0) \in files[q]
  <2>1. files'[q] = files[q] \/ files'[q] = files[q] \cup {Document(name, k)}
    BY <1>2 DEF Store, Shape
  <2>2. Document("result", 0) # Document(name, k)
    BY <1>2 DEF Document
  <2> QED  BY <2>1, <2>2
<1>3. ASSUME NEW p \in Group, Begin(p) \/ LockConfig(p) \/ Close(p)
      PROVE  \E name, k : name # "result" /\ Store(p, {Document(name, k)})
  <2>1. CASE Begin(p)
    BY <2>1 DEF Begin
  <2>2. CASE LockConfig(p)
    BY <2>2 DEF LockConfig
  <2>3. CASE Close(p)
    BY <2>3 DEF Close, CloseWith
  <2> QED  BY <1>3, <2>1, <2>2, <2>3
<1>4. ASSUME NEW p \in Group, Drive(p)
      PROVE  files' = files \/ Begin(p) \/ LockConfig(p) \/ Close(p) \/ Persist(p)
  BY <1>4 DEF Drive, SendStep0, SendProposal, SendLock, SendDisclosure, BuildResult,
     RefuseResult, SendResponse, Answered, DigestReturned, Refused
<1>5. ASSUME NEW p \in Group, Serve(p) \/ Fault(p)  PROVE files' = files
  BY <1>5 DEF Serve, AcceptStep0, AcceptProposal, AcceptLock, AcceptDisclosure, AcceptResult,
     Refuse, Fault, LoseCall, LoseReply, Timeout, Crash, PersistFails
<1>6. Finished \/ UNCHANGED vars => files' = files
  BY DEF Finished, vars
<1>7. Persist(q) => result' = result
  BY DEF Persist
<1>8. Begin(q) => Document("declaration", 0) \in files'[q]
  BY DEF Begin, Store, Shape
<1>9. LockConfig(q) => Document("config", game[q]) \in files'[q] /\ game'[q] = game[q]
  BY DEF LockConfig, Store, Shape
<1>10. /\ files[q] \subseteq files'[q]
       /\ Document("result", 0) \in files'[q] =>
            Document("result", 0) \in files[q] \/ Persist(q)
  BY <1>1, <1>2, <1>3, <1>4, <1>5, <1>6 DEF Next
<1> QED  BY <1>7, <1>8, <1>9, <1>10

(* Only what opens the first round brings the driver past its Step-0.      *)
LEMMA StartStep ==
  ASSUME Shape, CallLink, [Next]_vars, NEW q \in Group, pc[q] \in Starting \cup {"failed"}
  PROVE  pc'[q] \in Starting \cup {"failed"} \/ Begin(q)
<1>1. ASSUME NEW p \in Group, NEW label, Goto(p, label)
      PROVE  pc'[q] = pc[q] \/ (q = p /\ pc'[q] = label)
  BY <1>1 DEF Goto, Shape
<1>2. ASSUME NEW p \in Group, SendStep0(p)  PROVE pc'[q] \in Starting \cup {"failed"}
  BY <1>1, <1>2 DEF SendStep0, Send, Starting
<1>3. ASSUME NEW p \in Group, Begin(p)  PROVE pc'[q] = pc[q] \/ Begin(q)
  BY <1>1, <1>3 DEF Begin
<1>4. ASSUME NEW p \in Group, SendProposal(p) \/ SendLock(p) \/ SendDisclosure(p)
                              \/ SendResponse(p)
      PROVE  pc'[q] = pc[q]
  <2>1. pc[p] \notin Starting \cup {"failed"}
    BY <1>4 DEF SendProposal, SendLock, SendDisclosure, SendResponse, Starting
  <2>2. \E label : Goto(p, label)
    BY <1>4 DEF SendProposal, SendLock, SendDisclosure, SendResponse, Send
  <2> QED  BY <1>1, <2>1, <2>2
<1>5. ASSUME NEW p \in Group, LockConfig(p) \/ Close(p) \/ BuildResult(p) \/ RefuseResult(p)
                              \/ Persist(p) \/ PersistFails(p)
      PROVE  pc'[q] = pc[q]
  <2>1. pc[p] \notin Starting \cup {"failed"}
    BY <1>5 DEF LockConfig, Close, BuildResult, RefuseResult, Persist, PersistFails, Starting
  <2>2. pc' = [pc EXCEPT ![p] = pc'[p]]
    BY <1>5 DEF LockConfig, Close, CloseWith, BuildResult, RefuseResult, Persist, PersistFails,
       Goto, Send, Shape
  <2> QED  BY <2>1, <2>2 DEF Shape
<1>6. ASSUME NEW p \in Group, Answered(p)  PROVE pc'[q] \in Starting \cup {"failed"}
  <2>1. pc[p] \in Calling /\ (pc'[q] = pc[q] \/ (q = p /\ pc'[q] = AfterCall[pc[p]]))
    BY <1>1, <1>6 DEF Answered
  <2> QED  BY <2>1 DEF Calling, AfterCall, Starting
<1>7. ASSUME NEW p \in Group, DigestReturned(p)  PROVE pc'[q] = pc[q]
  <2>1. pc[p] \in {"requestSent", "responseSent"}
    BY <1>7 DEF DigestReturned, CallLink
  <2>2. \E label : Goto(p, label)
    BY <1>7 DEF DigestReturned
  <2> QED  BY <1>1, <2>1, <2>2 DEF Starting
<1>8. ASSUME NEW p \in Group, Refused(p) \/ Timeout(p) \/ Crash(p)
      PROVE  pc'[q] = pc[q] \/ pc'[q] = "failed"
  BY <1>1, <1>8 DEF Refused, Timeout, Crash
<1>9. ASSUME NEW p \in Group, Serve(p) \/ LoseCall(p) \/ LoseReply(p)  PROVE pc'[q] = pc[q]
  BY <1>9 DEF Serve, AcceptStep0, AcceptProposal, AcceptLock, AcceptDisclosure, AcceptResult,
     Refuse, LoseCall, LoseReply
<1>10. Finished \/ UNCHANGED vars => pc'[q] = pc[q]
  BY DEF Finished, vars
<1> QED
  BY <1>2, <1>3, <1>4, <1>5, <1>6, <1>7, <1>8, <1>9, <1>10 DEF Next, Drive, Fault

(* The official files of the sub-games behind the cursor are stored.       *)
FilesLink ==
  \A q \in Group :
    /\ pc[q] \notin Starting \cup {"failed"} => Document("declaration", 0) \in files[q]
    /\ pc[q] \in Playing => Document("config", game[q]) \in files[q]
    /\ Len(lines[q]) > 0 => Document("declaration", 0) \in files[q]
    /\ \A k \in 1 .. Len(lines[q]) :
         Document("config", k) \in files[q] /\ Document("log", k) \in files[q]

LEMMA KeepsFilesLink ==
  Shape /\ CallLink /\ RoundLink /\ LinesLink /\ FilesLink /\ [Next]_vars => FilesLink'
<1> SUFFICES ASSUME Shape, CallLink, RoundLink, LinesLink, FilesLink, [Next]_vars,
                    NEW q \in Group
             PROVE  /\ pc'[q] \notin Starting \cup {"failed"} =>
                         Document("declaration", 0) \in files'[q]
                    /\ pc'[q] \in Playing => Document("config", game'[q]) \in files'[q]
                    /\ Len(lines'[q]) > 0 => Document("declaration", 0) \in files'[q]
                    /\ \A k \in 1 .. Len(lines'[q]) :
                         /\ Document("config", k) \in files'[q]
                         /\ Document("log", k) \in files'[q]
  BY DEF FilesLink, Document
<1>1. /\ pc[q] \notin Starting \cup {"failed"} => Document("declaration", 0) \in files[q]
      /\ pc[q] \in Playing => Document("config", game[q]) \in files[q]
      /\ Len(lines[q]) > 0 => Document("declaration", 0) \in files[q]
      /\ \A k \in 1 .. Len(lines[q]) :
           Document("config", k) \in files[q] /\ Document("log", k) \in files[q]
  BY DEF FilesLink
<1>2. files[q] \subseteq files'[q]
  BY FilesStep
<1>3. pc'[q] \notin Starting \cup {"failed"} => Document("declaration", 0) \in files'[q]
  <2>1. CASE pc[q] \in Starting \cup {"failed"}
    BY <2>1, StartStep, FilesStep
  <2> QED  BY <1>1, <1>2, <2>1
<1>4. pc'[q] \in Playing => Document("config", game'[q]) \in files'[q]
  <2>1. CASE LockConfig(q)
    BY <2>1, FilesStep
  <2>2. CASE ~LockConfig(q)
    <3> SUFFICES ASSUME pc'[q] \in Playing
                 PROVE  Document("config", game'[q]) \in files'[q]
      OBVIOUS
    <3>1. pc[q] \in Playing /\ (pc'[q] = pc[q] \/ pc[q] # "awaitAudit")
      BY <2>2, PlayStep DEF Playing
    <3>2. game'[q] = game[q]
      BY <3>1, RoundStep DEF Kept, OpenedFor, LockedBy, Playing, Negotiating
    <3> QED  BY <1>1, <1>2, <3>1, <3>2
  <2> QED  BY <2>1, <2>2
<1>5. CASE lines'[q] = lines[q]
  BY <1>1, <1>2, <1>3, <1>4, <1>5
<1>6. CASE lines'[q] # lines[q]
  <2>1. /\ pc[q] = "awaitAudit" /\ Len(lines[q]) = game[q] - 1
        /\ \E outcome \in Outcomes : lines'[q] = Append(lines[q], outcome)
        /\ files'[q] = files[q] \cup {Document("log", game[q])}
    BY <1>6, LinesStep
  <2>2. game[q] \in Nat
    BY Advances, SeriesAssumption DEF Games
  <2>3. Len(lines'[q]) = game[q]
    <3>1. PICK outcome \in Outcomes : lines'[q] = Append(lines[q], outcome)
      BY <2>1
    <3>2. lines[q] \in Seq(Outcomes)
      BY DEF LinesLink
    <3> QED  BY <2>1, <2>2, <3>1, <3>2
  <2>4. Document("declaration", 0) \in files[q] /\ Document("config", game[q]) \in files[q]
    BY <1>1, <2>1 DEF Starting, Playing
  <2>5. ASSUME NEW k \in 1 .. Len(lines'[q])
        PROVE  Document("config", k) \in files'[q] /\ Document("log", k) \in files'[q]
    <3>1. CASE k = game[q]
      BY <2>1, <2>4, <3>1
    <3>2. CASE k # game[q]
      <4>1. k \in 1 .. Len(lines[q])
        BY <2>1, <2>2, <2>3, <3>2
      <4> QED  BY <1>1, <1>2, <4>1
    <3> QED  BY <3>1, <3>2
  <2> QED  BY <1>2, <1>3, <1>4, <2>4, <2>5
<1> QED  BY <1>5, <1>6

(* Only a clean series is agreed on, and only what was agreed is stored.   *)
AgreedLink ==
  \A q \in Group :
    /\ pc[q] \in Late => Clean(q)
    /\ Document("result", 0) \in files[q] =>
         /\ pc[q] = "done" /\ result[q].local # None
         /\ result[q].local = result[q].peer

LEMMA KeepsAgreedLink ==
  Shape /\ CallLink /\ RoundLink /\ LinesLink /\ ResultLink /\ AgreedLink /\ [Next]_vars
    => AgreedLink'
<1> SUFFICES ASSUME Shape, CallLink, RoundLink, LinesLink, ResultLink, AgreedLink, [Next]_vars,
                    NEW q \in Group
             PROVE  /\ pc'[q] \in Late => Clean(q)'
                    /\ Document("result", 0) \in files'[q] =>
                         /\ pc'[q] = "done" /\ result'[q].local # None
                         /\ result'[q].local = result'[q].peer
  BY DEF AgreedLink, Document, None
<1>1. /\ pc[q] \in Late => Clean(q)
      /\ Document("result", 0) \in files[q] =>
           /\ pc[q] = "done" /\ result[q].local # None
           /\ result[q].local = result[q].peer
      /\ pc[q] \in Late => result[q] # None /\ DOMAIN result[q] = ResultFields
                           /\ result[q].local \in {None, Digest(lines[q])}
  BY DEF AgreedLink, ResultLink
<1>2. pc[q] \in Late \cup {"result"} => lines'[q] = lines[q]
  BY LinesStay DEF ResultLink
<1>3. pc'[q] \in Late => Clean(q)'
  <2> SUFFICES ASSUME pc'[q] \in Late  PROVE Clean(q)'
    OBVIOUS
  <2>1. pc[q] \in Late \/ BuildResult(q)
    BY EndStep DEF Late
  <2>2. Clean(q) /\ pc[q] \in Late \cup {"result"}
    BY <1>1, <2>1 DEF BuildResult
  <2> QED  BY <1>2, <2>2 DEF Clean
<1>4. CASE Persist(q)
  <2>1. /\ result' = result /\ pc' = [pc EXCEPT ![q] = "done"]
        /\ result[q].local # None /\ result[q].local = result[q].peer
    BY <1>4 DEF Persist, Agreed, Goto
  <2>2. pc'[q] = "done"
    BY <2>1 DEF Shape
  <2> QED  BY <1>3, <2>1, <2>2
<1>5. CASE ~Persist(q)
  <2> SUFFICES ASSUME Document("result", 0) \in files'[q]
               PROVE  /\ pc'[q] = "done" /\ result'[q].local # None
                      /\ result'[q].local = result'[q].peer
    BY <1>3
  <2>1. /\ pc[q] = "done" /\ result[q].local # None /\ result[q].local = result[q].peer
    BY <1>1, <1>5, FilesStep
  <2>2. pc'[q] = "done"
    BY <1>5, <2>1, EndStep DEF BuildResult, Late
  <2>3. /\ result'[q].local = result[q].local /\ result'[q].peer = result[q].peer
    <3>1. ~Fresh(q) /\ ~Retained(q)
      BY <2>1 DEF Fresh, Retained
    <3>2. CASE Computed(q)
      BY <1>1, <2>1, <3>2 DEF Computed, Late
    <3> QED  BY <3>1, <3>2, ResultStep
  <2> QED  BY <2>1, <2>2, <2>3
<1> QED  BY <1>4, <1>5

-----------------------------------------------------------------------------
(* The invariant of a series, and what follows from it.                    *)

SeriesInv == TermsInv /\ LinesLink /\ ResultLink /\ DigestLink /\ FilesLink /\ AgreedLink

LEMMA InitSeries == Init => SeriesInv
<1> SUFFICES ASSUME Init  PROVE SeriesInv
  OBVIOUS
<1>1. TermsInv
  BY InitTerms
<1>2. LinesLink
  BY DEF Init, LinesLink, Late
<1>3. ResultLink
  BY DEF Init, ResultLink, Late
<1>4. DigestLink
  BY Kinds DEF Init, DigestLink
<1>5. FilesLink
  BY DEF Init, FilesLink, Starting, Playing
<1>6. AgreedLink
  BY DEF Init, AgreedLink, Late
<1> QED  BY <1>1, <1>2, <1>3, <1>4, <1>5, <1>6 DEF SeriesInv

LEMMA KeepsSeries == SeriesInv /\ [Next]_vars => SeriesInv'
  BY KeepsTerms, KeepsLinesLink, KeepsResultLink, KeepsDigestLink, KeepsFilesLink,
     KeepsAgreedLink DEF SeriesInv, TermsInv

(* An agreed result is of equal lines, complete and clean on both sides.   *)
LEMMA AgreedFacts ==
  ASSUME SeriesInv, NEW q \in Group, pc[q] \in Late,
         result[q].local # None, result[q].local = result[q].peer
  PROVE  /\ lines[Other(q)] = lines[q] /\ Len(lines[q]) = NumGames
         /\ \A k \in Games : lines[q][k] # "tampered"
         /\ result[q].local = Digest(lines[q]) /\ result[Other(q)].local = Digest(lines[q])
<1>1. /\ result[q] # None /\ result[q].local \in {None, Digest(lines[q])}
      /\ Len(lines[q]) = NumGames /\ Clean(q)
  BY DEF SeriesInv, ResultLink, LinesLink, AgreedLink
<1>2. /\ result[q].peer = Digest(lines[Other(q)])
      /\ result[Other(q)].local = result[q].peer
  BY <1>1 DEF SeriesInv, DigestLink, Held
<1>3. Digest(lines[q]) = Digest(lines[Other(q)])
  BY <1>1, <1>2
<1>4. lines[Other(q)] = lines[q]
  BY <1>3 DEF Digest
<1> QED  BY <1>1, <1>2, <1>4 DEF Clean, Games

LEMMA FactsHold == SeriesInv => ResultFollowsFacts
<1> SUFFICES ASSUME SeriesInv, NEW p \in Group, Document("result", 0) \in files[p],
                    NEW q \in Group
             PROVE  /\ Official \subseteq files[q]
                    /\ \A k \in Games : lines[q][k] # "tampered"
                    /\ result[q].local = Digest(lines[p])
  BY DEF ResultFollowsFacts
<1>1. /\ pc[p] = "done" /\ result[p].local # None /\ result[p].local = result[p].peer
  BY DEF SeriesInv, AgreedLink
<1>2. /\ lines[Other(p)] = lines[p] /\ Len(lines[p]) = NumGames
      /\ \A k \in Games : lines[p][k] # "tampered"
      /\ result[p].local = Digest(lines[p]) /\ result[Other(p)].local = Digest(lines[p])
  BY <1>1, AgreedFacts DEF Late
<1>3. q = p \/ q = Other(p)
  BY Others
<1>4. lines[q] = lines[p] /\ result[q].local = Digest(lines[p]) /\ Len(lines[q]) = NumGames
  BY <1>2, <1>3
<1>5. Official \subseteq files[q]
  <2>1. Document("declaration", 0) \in files[q]
        /\ \A k \in Games : Document("config", k) \in files[q] /\ Document("log", k) \in files[q]
    BY <1>4, SeriesAssumption DEF SeriesInv, FilesLink, Games
  <2> QED  BY <2>1 DEF Official
<1> QED  BY <1>2, <1>4, <1>5

(* What is agreed before play (`ConfigLockRuntime`) is what it is played   *)
(* under (`PeerDeadline`) and what is reported of it (`ResultExchange`),   *)
(* in a series of any length between processes started with any configs    *)
(* and models, whatever is lost, refused, overtaken or crashes.            *)
THEOREM AgreedThroughoutHolds == Spec => []AgreedThroughout
<1>1. SeriesInv => AgreedThroughout
  BY TermsHold, FactsHold DEF AgreedThroughout, SeriesInv
<1> QED  BY <1>1, InitSeries, KeepsSeries, PTL DEF Spec

-----------------------------------------------------------------------------
(* The protocol implements the contract of a series.                       *)

Published == {p \in Group : Document("result", 0) \in files[p]}

LEMMA Publishes == SeriesInv /\ [Next]_vars => [Contract!Next]_<<lines, Published>>
<1> SUFFICES ASSUME SeriesInv, [Next]_vars
             PROVE  \/ lines' = lines /\ Published' = Published
                    \/ \E g \in Group : Contract!CloseSubGame(g) \/ Contract!Publish(g)
  BY DEF Contract!Next, Published, Document
<1> USE DEF Published
<1>1. Shape /\ Shape' /\ CallLink /\ RoundLink /\ LinesLink
  BY KeepsSeries DEF SeriesInv, TermsInv
<1>2. CASE \E g \in Group : lines'[g] # lines[g]
  <2>1. PICK g \in Group : lines'[g] # lines[g]
    BY <1>2
  <2>2. /\ pc[g] = "awaitAudit" /\ Len(lines[g]) = game[g] - 1
        /\ \A p \in Group : p # g => lines'[p] = lines[p]
    BY <1>1, <2>1, LinesStep
  <2>3. PICK outcome \in Outcomes : lines'[g] = Append(lines[g], outcome)
    BY <1>1, <2>1, LinesStep
  <2>4. lines' = [lines EXCEPT ![g] = Append(@, outcome)]
    BY <1>1, <2>2, <2>3 DEF Shape
  <2>5. \A p \in Group : ~Persist(p)
    <3> SUFFICES ASSUME NEW p \in Group, Persist(p)  PROVE FALSE
      OBVIOUS
    <3> QED  BY <2>1 DEF Persist
  <2>6. Published' = Published
    BY <1>1, <2>5, FilesStep DEF Document
  <2>7. Len(lines[g]) < NumGames /\ \A h \in Group : Len(lines[g]) <= Len(lines[h])
    <3>1. game[g] \in Games /\ game[Other(g)] \in Games /\ owner[g].game = game[g]
          /\ owner[g].game <= game[Other(g)]
      BY <2>2, Others DEF SeriesInv, TermsInv, RoundLink, OwnerLink, Playing
    <3>2. game[g] \in Nat /\ game[Other(g)] \in Nat /\ game[g] <= game[Other(g)]
          /\ game[g] <= NumGames /\ NumGames \in Nat
      BY <3>1, SeriesAssumption DEF Games
    <3>3. Len(lines[Other(g)]) = game[Other(g)] - 1 \/ Len(lines[Other(g)]) = NumGames
      BY Others DEF SeriesInv, LinesLink
    <3>4. Len(lines[g]) <= Len(lines[Other(g)]) /\ Len(lines[g]) < NumGames
      BY <2>2, <3>2, <3>3
    <3>5. \A h \in Group : h = g \/ h = Other(g)
      BY Others
    <3> QED  BY <2>2, <3>2, <3>4, <3>5
  <2>8. Contract!CloseSubGame(g)
    BY <2>4, <2>6, <2>7 DEF Contract!CloseSubGame
  <2> QED  BY <2>8
<1>3. CASE \A g \in Group : lines'[g] = lines[g]
  <2>1. lines' = lines
    BY <1>1, <1>3 DEF Shape
  <2>2. CASE Published' = Published
    BY <2>1, <2>2
  <2>3. CASE Published' # Published
    <3>1. PICK g \in Group : Document("result", 0) \in files'[g]
                             /\ Document("result", 0) \notin files[g]
      BY <1>1, <2>3, FilesStep DEF Document
    <3>2. Persist(g)
      BY <1>1, <3>1, FilesStep
    <3>3. files' = [files EXCEPT ![g] = @ \cup {Document("result", 0)}]
      BY <3>2 DEF Persist, Store
    <3>4. Published' = Published \cup {g}
      BY <1>1, <3>3 DEF Shape, Document
    <3>5. /\ lines[Other(g)] = lines[g] /\ Len(lines[g]) = NumGames
          /\ \A k \in Games : lines[g][k] # "tampered"
      <4>1. pc[g] \in Late /\ result[g].local # None /\ result[g].local = result[g].peer
        BY <3>2 DEF Persist, Agreed, Late
      <4> QED  BY <4>1, AgreedFacts
    <3>6. \A h \in Group : lines[h] = lines[g]
      BY <3>5, Others
    <3>7. Contract!Publish(g)
      BY <2>1, <3>1, <3>4, <3>5, <3>6 DEF Contract!Publish, Games
    <3> QED  BY <3>7
  <2> QED  BY <2>2, <2>3
<1> QED  BY <1>2, <1>3

(* The lines and results of the two processes are those of the contract    *)
(* (`SeriesRuntime.lines`, `persist_result`): no side closes a sub-game    *)
(* the other has not reached, none publishes what the other did not record.*)
THEOREM ImplementsContract == Spec => Contract!Spec
<1>1. Init => Contract!Init
  BY DEF Init, Contract!Init
<1> QED
  BY <1>1, InitSeries, KeepsSeries, Publishes, PTL
  DEF Spec, Contract!Spec, Contract!contract, Published

-----------------------------------------------------------------------------
(* Why a series fails.                                                     *)

(* Where a driver stands, by what its side has sent for the sub-game of    *)
(* the cursor: its proposal, its lock, its disclosure.                     *)
Early == {"boot", "step0Sent", "awaitStep0"}
Opening == {"propose", "awaitOpening"}
Disclosing == {"awaitAudit", "result"} \cup Late
Engaged == {"play", "disclosureSent"} \cup Disclosing
Locking == {"awaitLock"} \cup Engaged
Offering == {"awaitProposal", "lockSent"} \cup Locking
Proposed == {"proposalSent"} \cup Offering
Labels == Early \cup Opening \cup Proposed

(* What p sends at `sent` was served by the other.                         *)
Through(p, sent, after) == pc[p] \in after \/ (pc[p] = sent /\ call[p] = None)

Introduced(p) == Through(p, "step0Sent", Labels \ {"boot", "step0Sent"})
Offered(p) == Through(p, "proposalSent", Offering)
Committed(p) == Through(p, "lockSent", Locking)
Disclosed(p) == Through(p, "disclosureSent", Disclosing)
Requested(p) ==
  \/ p = Lower /\ Through(p, "requestSent", {"awaitResponse", "done"})
  \/ p = Higher /\ Through(p, "responseSent", {"persist", "done"})

(* p is past the sub-game of q, or is in it and did so.                    *)
Reached(p, q, did) == game[p] > game[q] \/ (game[p] = game[q] /\ did)

KindAt ==
  [step0Sent |-> "step0", proposalSent |-> "proposal", lockSent |-> "lock",
   disclosureSent |-> "disclosure", requestSent |-> "result", responseSent |-> "result"]

(* A request is outstanding or answered while its driver is suspended, and *)
(* is of what the driver is at.                                            *)
SentLink(p) ==
  /\ pc[p] \in Labels
  /\ reply[p].kind # "error"
  /\ pc[p] \in Calling => call[p] # None \/ reply[p] # None
  /\ call[p] # None =>
       /\ pc[p] \in Calling /\ call[p].kind = KindAt[pc[p]]
       /\ pc[p] = "proposalSent" => call[p].game = game[p] /\ call[p].model = model[p]
       /\ pc[p] = "disclosureSent" => call[p].game = game[p]
       /\ pc[p] \in {"requestSent", "responseSent"} => call[p].stamped

(* What a driver has heard where it stands.                                *)
StageLink(p) ==
  /\ pc[p] = "propose" => p = Lower
  /\ pc[p] = "awaitOpening" => p = Higher
  /\ pc[p] \in {"requestSent", "awaitResponse"} => p = Lower
  /\ pc[p] \in {"awaitRequest", "responseSent", "persist"} => p = Higher
  /\ pc[p] \notin Early => peer[p] /\ round[p].adopted # None
  /\ pc[p] \in Proposed \ {"proposalSent", "awaitProposal"} => Other(p) \in round[p].seen
  /\ p = Higher /\ pc[p] \in Proposed => Other(p) \in round[p].seen
  /\ pc[p] \in Engaged => round[p].locked

OwnLink(p) ==
  /\ round[p].seen \subseteq Group
  /\ round[p].opening <=> round[p].seen = {}
  /\ p \in round[p].seen <=> pc[p] \in Proposed
  /\ freeze[p] \subseteq {model[p]}

BoundLink(p) ==
  /\ pc[p] \in Engaged <=> owner[p].game = game[p]
  /\ owner[p].audit \in {"UNBOUND", "PLAYING", "COMPLETE"}
  /\ owner[p].audit = "UNBOUND" => owner[p].game = 0
  /\ owner[p].audit = "PLAYING" => pc[p] \in Playing
  /\ pc[p] \in Late \cup {"result"} => owner[p].audit = "COMPLETE" /\ game[p] = NumGames

(* What one side has sent is what the other has heard of it.               *)
HeardLink(p, q) ==
  /\ game[p] <= game[q] + 1
  /\ game[p] > game[q] => ~Offered(p) /\ Disclosed(q)
  /\ peer[q] <=> Introduced(p)
  /\ p \in round[q].seen <=> Reached(p, q, Offered(p))
  /\ round[q].locked <=> Reached(p, q, Committed(p))
  /\ owner[q].game = game[q] /\ owner[q].audit = "COMPLETE" <=> Reached(p, q, Disclosed(p))

(* ... and of its result.                                                  *)
AskedLink(p, q) ==
  /\ result[p] # None <=> pc[p] \in Late
  /\ Requested(q) => result[p] # None
  /\ result[p] # None =>
       /\ result[p].requested <=> Requested(q)
       /\ result[p].stamped <=> p = Lower \/ result[p].requested
  /\ pc[p] \in {"responseSent", "persist", "done"} => result[p].requested

Orderly ==
  \A p \in Group :
    /\ SentLink(p) /\ StageLink(p) /\ OwnLink(p) /\ BoundLink(p)
    /\ HeardLink(p, Other(p)) /\ AskedLink(p, Other(p))

PeersShape ==
  /\ peer = [p \in Group |-> peer[p]] /\ freeze = [p \in Group |-> freeze[p]]
  /\ \A p \in Group : owner[p] = [game |-> owner[p].game, audit |-> owner[p].audit]

(* Until there is a cause, the two sides are in order.                     *)
CauseLink == causes = {} /\ ~Differ => Orderly

CauseInv == SeriesInv /\ PeersShape /\ CauseLink

LEMMA Two ==
  ASSUME NEW p \in Group, NEW q, q = Other(p)
  PROVE  /\ q \in Group /\ q # p /\ Other(q) = p
         /\ (p = Lower /\ q = Higher) \/ (p = Higher /\ q = Lower)
         /\ Lower # Higher /\ \A r \in Group : r = p \/ r = q
  BY DEF Group, Other, Lower, Higher

LEMMA SameStart ==
  ASSUME ~Differ, NEW p \in Group, NEW q \in Group
  PROVE  config[p] = config[q] /\ model[p] = model[q]
  BY DEF Differ, Group

(* What holds of one side, failure or not.                                 *)
LEMMA Known ==
  ASSUME SeriesInv, PeersShape, NEW p \in Group
  PROVE  /\ game[p] \in Nat /\ game[p] >= 1 /\ game[p] <= NumGames /\ NumGames \in Nat
         /\ DOMAIN round[p] = Fields /\ round[p].game = game[p]
         /\ round[p].adopted \in {None, Candidate(p)} /\ round[p].locked \in {TRUE, FALSE}
         /\ owner[p] = [game |-> owner[p].game, audit |-> owner[p].audit]
         /\ owner[p].game \in Nat
         /\ call[p] # None => reply[p] = None
         /\ call[p] # None \/ reply[p] # None => pc[p] \in Calling
<1>1. game[p] \in Games /\ NumGames \in Nat
  BY SeriesAssumption DEF SeriesInv, TermsInv, RoundLink
<1>2. game[p] \in Nat /\ game[p] >= 1 /\ game[p] <= NumGames
  BY <1>1 DEF Games
<1>3. /\ DOMAIN round[p] = Fields /\ round[p].game = game[p]
      /\ round[p].adopted \in {None, Candidate(p)} /\ round[p].locked \in {TRUE, FALSE}
  BY DEF SeriesInv, TermsInv, RoundLink
<1>4. /\ owner[p] = [game |-> owner[p].game, audit |-> owner[p].audit]
      /\ owner[p].game \in Nat
  BY DEF SeriesInv, TermsInv, OwnerLink, PeersShape
<1> QED
  BY <1>1, <1>2, <1>3, <1>4 DEF SeriesInv, TermsInv, CallLink

(* Two complete series that do not differ are equal.                       *)
LEMMA EqualLines ==
  ASSUME SeriesInv, ~Differ, NEW p \in Group, NEW q \in Group,
         Len(lines[p]) = NumGames, Len(lines[q]) = NumGames
  PROVE  lines[p] = lines[q]
<1>1. lines[p] \in Seq(Outcomes) /\ lines[q] \in Seq(Outcomes)
  BY DEF SeriesInv, LinesLink
<1>2. \A k \in 1 .. NumGames : lines[p][k] = lines[q][k]
  <2> SUFFICES ASSUME NEW k \in 1 .. NumGames  PROVE lines[p][k] = lines[q][k]
    OBVIOUS
  <2>1. k \in Games /\ k <= NumGames
    BY SeriesAssumption DEF Games
  <2>2. (p = Lower \/ p = Higher) /\ (q = Lower \/ q = Higher)
    BY DEF Group
  <2>3. CASE p = q
    BY <2>3
  <2>4. CASE p # q
    <3>1. k <= Len(lines[Lower]) /\ k <= Len(lines[Higher])
      BY <2>1, <2>2, <2>4
    <3>2. lines[Lower][k] = lines[Higher][k]
      BY <2>1, <3>1 DEF Differ
    <3> QED  BY <2>2, <3>2
  <2> QED  BY <2>3, <2>4
<1>3. /\ lines[p] = [k \in 1 .. Len(lines[p]) |-> lines[p][k]]
      /\ lines[q] = [k \in 1 .. Len(lines[q]) |-> lines[q][k]]
  BY <1>1
<1> QED  BY <1>2, <1>3

(* A driver whose request is not outstanding has something to do.          *)
LEMMA AnsweredRuns ==
  ASSUME Orderly, NEW p \in Group, pc[p] \in Calling
  PROVE  call[p] # None \/ Runnable(p)
  BY DEF Orderly, SentLink, Runnable

(* Whoever is a sub-game behind, or was disclosed to and has disclosed in  *)
(* it, can go on until the result is built.                                *)
LEMMA ClosingRuns ==
  ASSUME SeriesInv, PeersShape, Orderly, NEW p \in Group, NEW q, q = Other(p),
         game[p] >= game[q], Disclosed(p) \/ game[p] > game[q], Disclosed(q)
  PROVE  Runnable(q) \/ (pc[q] \in Late /\ game[p] = game[q] /\ game[q] = NumGames)
<1>1. q \in Group
  BY Two
<1>2. /\ game[p] \in Nat /\ game[q] \in Nat /\ game[p] <= NumGames /\ NumGames \in Nat
      /\ call[q] # None => reply[q] = None
  BY <1>1, Known
<1>3. owner[q].audit = "COMPLETE"
  <2>1. Reached(p, q, Disclosed(p))
    BY <1>2 DEF Reached
  <2> QED  BY <2>1 DEF Orderly, HeardLink
<1>4. /\ pc[q] \in Late \cup {"result"} => game[q] = NumGames
      /\ pc[q] \in Calling => call[q] # None \/ reply[q] # None
  BY <1>1 DEF Orderly, BoundLink, SentLink
<1>5. pc[q] \in {"awaitAudit", "result"} \cup Late \/ (pc[q] = "disclosureSent" /\ call[q] = None)
  BY DEF Disclosed, Through, Disclosing
<1>6. CASE pc[q] = "disclosureSent" /\ call[q] = None
  BY <1>4, <1>6 DEF Runnable, Calling
<1>7. CASE pc[q] \in {"awaitAudit", "result"}
  BY <1>3, <1>7 DEF Runnable, Arrived, Ready
<1>8. CASE pc[q] \in Late
  <2>1. game[q] = NumGames
    BY <1>4, <1>8
  <2> QED  BY <1>2, <1>8, <2>1
<1> QED  BY <1>5, <1>6, <1>7, <1>8

(* Nobody is ahead of a driver that has not disclosed.                     *)
LEMMA NotPassed ==
  ASSUME SeriesInv, PeersShape, Orderly, NEW p \in Group, NEW q, q = Other(p),
         ~Disclosed(p), NEW did, Reached(q, p, did)
  PROVE  game[q] = game[p] /\ did
<1>1. q \in Group /\ Other(q) = p
  BY Two
<1>2. game[p] \in Nat /\ game[q] \in Nat
  BY <1>1, Known
<1>3. ~(game[q] > game[p])
  BY <1>1 DEF Orderly, HeardLink
<1> QED  BY <1>2, <1>3 DEF Reached

(* A request finds its owner, or a driver that still has a step to take.   *)
LEMMA FindsItsOwner ==
  ASSUME SeriesInv, PeersShape, Orderly, ~Differ, NEW p \in Group, NEW q, q = Other(p),
         call[p] # None
  PROVE  Admits(q, call[p]) \/ Runnable(q)
<1> DEFINE m == call[p]
<1>0. /\ q \in Group /\ q # p /\ Other(q) = p /\ Lower # Higher
      /\ (p = Lower /\ q = Higher) \/ (p = Higher /\ q = Lower)
  BY Two
<1>1. /\ game[p] \in Nat /\ game[p] >= 1 /\ game[p] <= NumGames
      /\ game[q] \in Nat /\ game[q] >= 1 /\ game[q] <= NumGames /\ NumGames \in Nat
      /\ round[q].game = game[q] /\ round[q].adopted \in {None, Candidate(q)}
      /\ owner[q] = [game |-> owner[q].game, audit |-> owner[q].audit]
      /\ call[q] # None => reply[q] = None
  BY <1>0, Known
<1>2. /\ config[p] = config[q] /\ model[p] = model[q]
  BY <1>0, SameStart
<1>3. /\ SentLink(p) /\ StageLink(p) /\ OwnLink(p) /\ BoundLink(p)
      /\ HeardLink(p, q) /\ AskedLink(p, q)
      /\ SentLink(q) /\ StageLink(q) /\ OwnLink(q) /\ BoundLink(q)
      /\ HeardLink(q, p) /\ AskedLink(q, p)
  BY <1>0 DEF Orderly
<1>4. pc[p] \in Calling /\ m.kind = KindAt[pc[p]]
  BY <1>3 DEF SentLink
<1>5. CASE pc[p] = "step0Sent"
  <2>1. ~Introduced(p)
    BY <1>5 DEF Introduced, Through
  <2> QED  BY <1>3, <1>4, <1>5, <2>1 DEF HeardLink, Admits, KindAt
<1>6. ASSUME pc[p] # "step0Sent"  PROVE peer[q]
  <2>1. Introduced(p)
    BY <1>4, <1>6 DEF Introduced, Through, Calling, Labels, Early, Opening, Proposed, Offering,
       Locking, Engaged, Disclosing, Late
  <2> QED  BY <1>3, <2>1 DEF HeardLink
<1>7. ASSUME pc[p] \in {"proposalSent", "lockSent", "disclosureSent"}  PROVE ~Disclosed(p)
  BY <1>7 DEF Disclosed, Through, Disclosing, Late
<1>8. CASE pc[p] = "proposalSent"
  <2>1. m.kind = "proposal" /\ m.game = game[p] /\ m.model = model[p] /\ peer[q]
    BY <1>3, <1>4, <1>6, <1>8 DEF SentLink, KindAt
  <2>2. ~Offered(p) /\ ~Disclosed(p)
    BY <1>7, <1>8 DEF Offered, Through, Offering, Locking, Engaged, Disclosing, Late
  <2>3. CASE game[p] > game[q]
    <3>1. Disclosed(q)
      BY <1>3, <2>3 DEF HeardLink
    <3>2. game[p] >= game[q] /\ game[p] # game[q]
      BY <1>1, <2>3
    <3> QED  BY <2>3, <3>1, <3>2, ClosingRuns
  <2>4. CASE game[p] < game[q]
    <3>1. game[q] > game[p]
      BY <1>1, <2>4
    <3> QED  BY <1>3, <2>2, <3>1 DEF HeardLink
  <2>5. CASE game[p] = game[q]
    <3>1. p \notin round[q].seen
      <4>1. ~Reached(p, q, Offered(p))
        BY <1>1, <2>2, <2>5 DEF Reached
      <4> QED  BY <1>3, <4>1 DEF HeardLink
    <3>2. round[q].opening => p = Lower
      <4> SUFFICES ASSUME p = Higher  PROVE ~round[q].opening
        BY <1>0
      <4>1. q \in round[p].seen
        BY <1>0, <1>3, <1>8 DEF StageLink, Proposed
      <4>2. Reached(q, p, Offered(q))
        BY <1>3, <4>1 DEF HeardLink
      <4>3. Offered(q)
        BY <2>2, <4>2, NotPassed
      <4>4. pc[q] \in Proposed
        BY <4>3 DEF Offered, Through, Proposed
      <4> QED  BY <1>3, <4>4 DEF OwnLink
    <3>3. ProposalMatches(q, m)
      BY <1>0, <1>1, <1>2, <2>1, <2>5, <3>1, <3>2 DEF ProposalMatches, SameModel
    <3> QED  BY <2>1, <3>3 DEF Admits
  <2> QED  BY <1>1, <2>3, <2>4, <2>5
<1>9. CASE pc[p] = "lockSent"
  <2>1. m.kind = "lock" /\ m.game = game[p] /\ m.model = model[p] /\ m.digest = Candidate(p)
    <3>1. m.kind = "lock"
      BY <1>4, <1>9 DEF KindAt
    <3> QED  BY <3>1 DEF SeriesInv, TermsInv, EvidenceLink
  <2>2. game[q] = game[p] /\ Offered(q)
    <3>1. q \in round[p].seen
      BY <1>0, <1>3, <1>9 DEF StageLink, Proposed, Offering
    <3>2. Reached(q, p, Offered(q))
      BY <1>3, <3>1 DEF HeardLink
    <3> QED  BY <1>7, <1>9, <3>2, NotPassed
  <2>3. round[q].adopted = Candidate(q) /\ round[q].adopted # None
    <3>1. pc[q] \notin Early
      BY <2>2 DEF Offered, Through, Offering, Locking, Engaged, Disclosing, Late, Early
    <3> QED  BY <1>1, <1>3, <3>1 DEF StageLink
  <2>4. LockMatches(q, m)
    <3>1. freeze[q] \subseteq {model[q]}
      BY <1>3 DEF OwnLink
    <3> QED  BY <1>1, <1>2, <2>1, <2>2, <2>3, <3>1
        DEF LockMatches, SameModel, KeepsFreeze, Candidate
  <2> QED  BY <1>6, <1>9, <2>1, <2>3, <2>4 DEF Admits
<1>10. CASE pc[p] = "disclosureSent"
  <2>1. m.kind = "disclosure" /\ m.game = game[p] /\ peer[q]
    BY <1>3, <1>4, <1>6, <1>10 DEF SentLink, KindAt
  <2>2. ~Disclosed(p) /\ Committed(p)
    BY <1>7, <1>10 DEF Committed, Through, Locking, Engaged
  <2>3. game[q] = game[p] /\ Committed(q)
    <3>1. round[p].locked
      BY <1>3, <1>10 DEF StageLink, Engaged
    <3>2. Reached(q, p, Committed(q))
      BY <1>3, <3>1 DEF HeardLink
    <3> QED  BY <2>2, <3>2, NotPassed
  <2>4. CASE pc[q] = "lockSent" /\ call[q] = None
    BY <1>0, <2>4, AnsweredRuns DEF Calling
  <2>5. CASE pc[q] = "awaitLock"
    <3>1. round[q].locked
      BY <1>3, <2>2, <2>3 DEF HeardLink, Reached
    <3> QED  BY <2>5, <3>1 DEF Runnable, Arrived
  <2>6. CASE pc[q] \in Engaged
    <3>1. owner[q].game = game[q]
      BY <1>3, <2>6 DEF BoundLink
    <3>2. owner[q].audit # "COMPLETE"
      <4>1. ~Reached(p, q, Disclosed(p))
        BY <1>1, <2>2, <2>3 DEF Reached
      <4> QED  BY <1>3, <3>1, <4>1 DEF HeardLink
    <3>3. owner[q].audit = "PLAYING"
      BY <1>1, <1>3, <3>1, <3>2 DEF BoundLink
    <3>4. owner[q] = [game |-> m.game, audit |-> "PLAYING"]
      BY <1>1, <2>1, <2>3, <3>1, <3>3
    <3> QED  BY <2>1, <3>4 DEF Admits
  <2> QED  BY <2>3, <2>4, <2>5, <2>6 DEF Committed, Through, Locking
<1>11. CASE pc[p] \in {"requestSent", "responseSent"}
  <2>1. m.kind = "result" /\ m.stamped /\ peer[q]
    BY <1>3, <1>4, <1>6, <1>11 DEF SentLink, KindAt
  <2>2. Disclosed(p) /\ game[p] = NumGames /\ Reached(q, p, Disclosed(q))
    <3>1. pc[p] \in Late /\ pc[p] \in Engaged /\ pc[p] \in Disclosing
      BY <1>11 DEF Late, Engaged, Disclosing
    <3>2. Disclosed(p) /\ game[p] = NumGames
          /\ owner[p].game = game[p] /\ owner[p].audit = "COMPLETE"
      BY <1>3, <3>1 DEF Disclosed, Through, BoundLink
    <3> QED  BY <1>3, <3>2 DEF HeardLink
  <2>3. game[q] = game[p] /\ Disclosed(q)
    BY <1>1, <2>2 DEF Reached
  <2>4. Runnable(q) \/ pc[q] \in Late
    BY <1>1, <2>2, <2>3, ClosingRuns
  <2>5. CASE pc[q] \in Late
    <3>1. result[q] # None /\ (result[q].stamped <=> q = Lower \/ result[q].requested)
      BY <1>3, <2>5 DEF AskedLink
    <3>2. p = Higher => result[q].stamped
      BY <1>0, <3>1
    <3>3. RequestMatches(q, m)
      BY <1>0, <2>1, <3>2 DEF RequestMatches
    <3> QED  BY <2>1, <3>1, <3>3 DEF Admits
  <2> QED  BY <2>4, <2>5
<1> QED  BY <1>4, <1>5, <1>8, <1>9, <1>10, <1>11 DEF Calling

(* A wait that is not over is for a driver that has something to do, or    *)
(* for a request on its way.                                               *)
LEMMA SomethingStirs ==
  ASSUME SeriesInv, PeersShape, Orderly, NEW p \in Group, NEW q, q = Other(p),
         Waiting(p), ~Arrived(p)
  PROVE  Runnable(q) \/ call[q] # None
<1>0. /\ q \in Group /\ q # p /\ Other(q) = p /\ Lower # Higher
      /\ (p = Lower /\ q = Higher) \/ (p = Higher /\ q = Lower)
  BY Two
<1>1. /\ game[p] \in Nat /\ game[q] \in Nat
      /\ game[q] <= NumGames /\ NumGames \in Nat
  BY <1>0, Known
<1>2. /\ SentLink(p) /\ StageLink(p) /\ OwnLink(p) /\ BoundLink(p)
      /\ HeardLink(p, q) /\ AskedLink(p, q)
      /\ SentLink(q) /\ StageLink(q) /\ OwnLink(q) /\ BoundLink(q)
      /\ HeardLink(q, p) /\ AskedLink(q, p)
  BY <1>0 DEF Orderly
<1>3. pc[q] \in Labels
  BY <1>2 DEF SentLink
<1> SUFFICES ASSUME ~Runnable(q), call[q] = None  PROVE FALSE
  OBVIOUS
<1>4. pc[q] \notin Calling \cup Ready /\ ~Arrived(q)
  <2>1. pc[q] \notin Calling
    BY <1>0, AnsweredRuns
  <2> QED  BY <2>1 DEF Runnable
<1>5. pc[q] \in Suspended \cup {"done"}
  BY <1>3, <1>4 DEF Labels, Early, Opening, Proposed, Offering, Locking, Engaged, Disclosing, Late,
     Calling, Ready, Suspended
<1>6. ~(game[p] > game[q])
  <2> SUFFICES ASSUME game[p] > game[q]  PROVE FALSE
    OBVIOUS
  <2>1. Disclosed(q) /\ game[p] >= game[q] /\ game[p] # game[q]
    BY <1>1, <1>2 DEF HeardLink
  <2> QED  BY <2>1, ClosingRuns
<1>7. ASSUME ~Disclosed(p)  PROVE game[p] = game[q]
  <2>1. ~(game[q] > game[p])
    BY <1>2, <1>7 DEF HeardLink
  <2> QED  BY <1>1, <1>6, <2>1
<1>8. CASE pc[p] = "awaitStep0"
  <2>1. ~Introduced(q)
    BY <1>2, <1>8 DEF HeardLink, Arrived
  <2>2. pc[q] = "boot"
    BY <1>3, <1>4, <2>1 DEF Introduced, Through, Calling
  <2> QED  BY <1>4, <2>2 DEF Ready
<1>9. ASSUME pc[p] # "awaitStep0"  PROVE peer[q]
  <2>1. Introduced(p)
    BY <1>9 DEF Introduced, Through, Waiting, Suspended, Labels, Early, Opening, Proposed,
       Offering, Locking, Engaged, Disclosing, Late
  <2> QED  BY <1>2, <2>1 DEF HeardLink
<1>10. pc[p] # "awaitStep0" => pc[q] # "awaitStep0"
  BY <1>4, <1>9 DEF Arrived
<1>11. CASE pc[p] \in {"awaitOpening", "awaitProposal"}
  <2>1. game[p] = game[q] /\ ~Offered(q)
    <3>1. game[p] = game[q]
      BY <1>7, <1>11 DEF Disclosed, Through, Disclosing, Late
    <3>2. q \notin round[p].seen
      BY <1>11 DEF Arrived
    <3>3. ~Reached(q, p, Offered(q))
      BY <1>2, <3>2 DEF HeardLink
    <3> QED  BY <3>1, <3>3 DEF Reached
  <2>2. pc[q] = "awaitOpening"
    <3>1. pc[q] \notin Offering
      BY <2>1 DEF Offered, Through
    <3> QED  BY <1>3, <1>4, <1>5, <1>10, <1>11, <3>1
        DEF Labels, Early, Opening, Proposed, Calling, Ready
  <2>3. q = Higher /\ p = Lower
    BY <1>0, <1>2, <2>2 DEF StageLink
  <2>4. pc[p] = "awaitProposal"
    BY <1>0, <1>2, <1>11, <2>3 DEF StageLink
  <2>5. p \in round[q].seen
    <3>1. Offered(p)
      BY <2>4 DEF Offered, Through, Offering
    <3> QED  BY <1>2, <2>1, <3>1 DEF HeardLink, Reached
  <2> QED  BY <1>0, <1>4, <2>2, <2>5 DEF Arrived
<1>12. CASE pc[p] = "awaitLock"
  <2>1. game[p] = game[q] /\ ~Committed(q)
    <3>1. game[p] = game[q]
      BY <1>7, <1>12 DEF Disclosed, Through, Disclosing, Late
    <3>2. ~round[p].locked
      BY <1>12 DEF Arrived
    <3>3. ~Reached(q, p, Committed(q))
      BY <1>2, <3>2 DEF HeardLink
    <3> QED  BY <3>1, <3>3 DEF Reached
  <2>2. Offered(q) /\ Offered(p)
    <3>1. q \in round[p].seen
      BY <1>0, <1>2, <1>12 DEF StageLink, Proposed, Offering, Locking
    <3>2. Reached(q, p, Offered(q))
      BY <1>2, <3>1 DEF HeardLink
    <3> QED  BY <1>1, <1>12, <2>1, <3>2 DEF Reached, Offered, Through, Offering, Locking
  <2>3. pc[q] = "awaitProposal"
    BY <1>4, <2>1, <2>2 DEF Offered, Committed, Through, Offering, Calling
  <2>4. p \in round[q].seen
    BY <1>2, <2>1, <2>2 DEF HeardLink, Reached
  <2> QED  BY <1>0, <1>4, <2>3, <2>4 DEF Arrived
<1>13. CASE pc[p] = "awaitAudit"
  <2>1. owner[p].game = game[p] /\ owner[p].audit # "COMPLETE" /\ round[p].locked
    BY <1>2, <1>13 DEF BoundLink, StageLink, Arrived, Engaged, Disclosing
  <2>2. ~Reached(q, p, Disclosed(q)) /\ Reached(q, p, Committed(q))
    BY <1>2, <2>1 DEF HeardLink
  <2>3. game[p] = game[q] /\ ~Disclosed(q) /\ Committed(q)
    BY <1>1, <1>6, <2>2 DEF Reached
  <2>4. pc[q] = "awaitLock"
    BY <1>4, <2>3 DEF Disclosed, Committed, Through, Locking, Engaged, Calling, Ready
  <2>5. round[q].locked
    <3>1. Committed(p)
      BY <1>13 DEF Committed, Through, Locking, Engaged, Disclosing
    <3> QED  BY <1>2, <2>3, <3>1 DEF HeardLink, Reached
  <2> QED  BY <1>4, <2>4, <2>5 DEF Arrived
<1>14. CASE pc[p] \in {"awaitRequest", "awaitResponse"}
  <2>1. Disclosed(p) /\ game[p] = NumGames /\ Reached(q, p, Disclosed(q))
    <3>1. pc[p] \in Late /\ pc[p] \in Engaged /\ pc[p] \in Disclosing
      BY <1>14 DEF Late, Engaged, Disclosing
    <3>2. Disclosed(p) /\ game[p] = NumGames
          /\ owner[p].game = game[p] /\ owner[p].audit = "COMPLETE"
      BY <1>2, <3>1 DEF Disclosed, Through, BoundLink
    <3> QED  BY <1>2, <3>2 DEF HeardLink
  <2>2. game[q] = game[p] /\ Disclosed(q)
    BY <1>1, <2>1 DEF Reached
  <2>3. pc[q] \in Late
    BY <1>1, <2>1, <2>2, ClosingRuns
  <2>4. ~Requested(q)
    BY <1>2, <1>14 DEF AskedLink, Arrived, Late
  <2>5. pc[q] = "awaitRequest" /\ p = Lower
    BY <1>0, <1>2, <1>4, <1>14, <2>3, <2>4
    DEF Late, Calling, Ready, Requested, Through, StageLink
  <2>6. pc[p] = "awaitResponse"
    BY <1>0, <1>2, <1>14, <2>5 DEF StageLink
  <2>7. Requested(p)
    BY <2>5, <2>6 DEF Requested, Through
  <2>8. result[q].requested
    BY <1>2, <2>7 DEF AskedLink
  <2> QED  BY <1>4, <2>5, <2>8 DEF Arrived
<1> QED
  BY <1>8, <1>11, <1>12, <1>13, <1>14 DEF Waiting, Suspended

(* No cause is taken back, and no difference disappears.                   *)
LEMMA CausesStay ==
  ASSUME SeriesInv, [Next]_vars, causes' = {}, ~Differ'
  PROVE  causes = {} /\ ~Differ
<1>1. causes = {}
  <2>1. ASSUME NEW p \in Group, Drive(p)  PROVE causes' = causes
    <3>1. ASSUME BuildResult(p)  PROVE causes' = causes
      <4>1. CASE p = Lower
        BY <3>1, <4>1 DEF BuildResult, Send
      <4>2. CASE p # Lower
        BY <3>1, <4>2 DEF BuildResult
      <4> QED  BY <4>1, <4>2
    <3>2. ASSUME ~BuildResult(p)  PROVE causes' = causes
      BY <2>1, <3>2 DEF Drive, Send, SendStep0, Begin, SendProposal, SendLock, LockConfig,
         SendDisclosure, Close, CloseWith, RefuseResult, SendResponse, Answered, DigestReturned,
         Refused, Persist
    <3> QED  BY <3>1, <3>2
  <2>2. ASSUME NEW p \in Group, Serve(p)  PROVE causes \subseteq causes'
    BY <2>2 DEF Serve, AcceptStep0, AcceptProposal, AcceptLock, AcceptDisclosure, AcceptResult,
       Refuse
  <2>3. ASSUME NEW p \in Group, Fault(p)  PROVE causes \subseteq causes'
    BY <2>3 DEF Fault, LoseCall, LoseReply, Timeout, Crash, PersistFails
  <2>4. Finished \/ UNCHANGED vars => causes' = causes
    BY DEF Finished, vars
  <2> QED  BY <2>1, <2>2, <2>3, <2>4 DEF Next
<1>2. \A p \in Group : \A k \in 1 .. Len(lines[p]) :
        k \in 1 .. Len(lines'[p]) /\ lines'[p][k] = lines[p][k]
  <2> SUFFICES ASSUME NEW p \in Group, lines'[p] # lines[p], NEW k \in 1 .. Len(lines[p])
               PROVE  k \in 1 .. Len(lines'[p]) /\ lines'[p][k] = lines[p][k]
    OBVIOUS
  <2>1. lines[p] \in Seq(Outcomes) /\ Shape
    BY DEF SeriesInv, TermsInv, LinesLink
  <2>2. PICK outcome \in Outcomes : lines'[p] = Append(lines[p], outcome)
    BY <2>1, LinesStep
  <2> QED  BY <2>1, <2>2
<1>3. config' = config /\ model' = model
  BY InputsStay
<1>4. \A p \in Group : Len(lines[p]) \in Nat /\ Len(lines'[p]) \in Nat
  <2> SUFFICES ASSUME NEW p \in Group  PROVE Len(lines[p]) \in Nat /\ Len(lines'[p]) \in Nat
    OBVIOUS
  <2>1. lines[p] \in Seq(Outcomes) /\ lines'[p] \in Seq(Outcomes)
    BY KeepsSeries DEF SeriesInv, LinesLink
  <2> QED  BY <2>1
<1>5. ~Differ
  <2>1. config[Lower] = config[Higher] /\ model[Lower] = model[Higher]
    BY <1>3 DEF Differ
  <2>2. \A p \in Group : \A k \in 1 .. Len(lines[p]) : lines[p][k] # "tampered"
    BY <1>2 DEF Differ
  <2>3. ASSUME NEW k \in Games, k <= Len(lines[Lower]), k <= Len(lines[Higher])
        PROVE  lines[Lower][k] = lines[Higher][k]
    <3>1. Lower \in Group /\ Higher \in Group
      BY DEF Group
    <3>2. k \in Nat /\ k >= 1
      BY SeriesAssumption DEF Games
    <3>3. k \in 1 .. Len(lines[Lower]) /\ k \in 1 .. Len(lines[Higher])
      BY <1>4, <2>3, <3>1, <3>2
    <3>4. /\ k \in 1 .. Len(lines'[Lower]) /\ lines'[Lower][k] = lines[Lower][k]
          /\ k \in 1 .. Len(lines'[Higher]) /\ lines'[Higher][k] = lines[Higher][k]
      BY <1>2, <3>1, <3>3
    <3>5. k <= Len(lines'[Lower]) /\ k <= Len(lines'[Higher])
      BY <1>4, <3>1, <3>4
    <3>6. lines'[Lower][k] = lines'[Higher][k]
      BY <3>5 DEF Differ
    <3> QED  BY <3>4, <3>6
  <2> QED  BY <2>1, <2>2, <2>3 DEF Differ
<1> QED  BY <1>1, <1>5

Calm == SeriesInv /\ PeersShape /\ Orderly

LEMMA Links ==
  ASSUME Calm, NEW p \in Group, NEW q, q = Other(p)
  PROVE  /\ SentLink(p) /\ StageLink(p) /\ OwnLink(p) /\ BoundLink(p)
         /\ HeardLink(p, q) /\ AskedLink(p, q)
         /\ SentLink(q) /\ StageLink(q) /\ OwnLink(q) /\ BoundLink(q)
         /\ HeardLink(q, p) /\ AskedLink(q, p)
  BY Two DEF Calm, Orderly

LEMMA Relinked ==
  ASSUME NEW p \in Group, NEW q, q = Other(p),
         SentLink(p)', StageLink(p)', OwnLink(p)', BoundLink(p)',
         SentLink(q)', StageLink(q)', OwnLink(q)', BoundLink(q)',
         HeardLink(p, q)', AskedLink(p, q)', HeardLink(q, p)', AskedLink(q, p)'
  PROVE  Orderly'
<1> SUFFICES ASSUME NEW r \in Group
             PROVE  /\ SentLink(r)' /\ StageLink(r)' /\ OwnLink(r)' /\ BoundLink(r)'
                    /\ HeardLink(r, Other(r))' /\ AskedLink(r, Other(r))'
  BY DEF Orderly
<1>1. CASE r = p
  BY <1>1
<1>2. CASE r = q
  BY <1>2, Two
<1> QED  BY <1>1, <1>2, Two

(* The side q takes no part in a step.                                     *)
Idle(q) ==
  /\ pc'[q] = pc[q] /\ call'[q] = call[q] /\ reply'[q] = reply[q] /\ game'[q] = game[q]
  /\ peer'[q] = peer[q] /\ round'[q] = round[q] /\ freeze'[q] = freeze[q]
  /\ owner'[q] = owner[q] /\ result'[q] = result[q] /\ model' = model

LEMMA IdleKeeps ==
  ASSUME Calm, NEW q \in Group, Idle(q)
  PROVE  SentLink(q)' /\ StageLink(q)' /\ OwnLink(q)' /\ BoundLink(q)'
<1>1. SentLink(q)'
  BY Links DEF Idle, SentLink
<1>2. StageLink(q)'
  BY Links DEF Idle, StageLink
<1>3. OwnLink(q)'
  BY Links DEF Idle, OwnLink
<1>4. BoundLink(q)'
  BY Links DEF Idle, BoundLink
<1> QED  BY <1>1, <1>2, <1>3, <1>4

(* Nothing of what p has sent is served by the step, and nothing returns.  *)
SameThrough(p) ==
  /\ Introduced(p)' <=> Introduced(p)
  /\ Offered(p)' <=> Offered(p)
  /\ Committed(p)' <=> Committed(p)
  /\ Disclosed(p)' <=> Disclosed(p)
  /\ Requested(p)' <=> Requested(p)

LEMMA IdleThrough ==
  ASSUME NEW q, Idle(q)  PROVE SameThrough(q)
  BY DEF Idle, SameThrough, Introduced, Offered, Committed, Disclosed, Requested, Through

LEMMA HeardStays ==
  ASSUME NEW p, NEW q, HeardLink(p, q), SameThrough(p), SameThrough(q),
         game'[p] = game[p], game'[q] = game[q], peer'[q] = peer[q],
         p \in round'[q].seen <=> p \in round[q].seen,
         round'[q].locked <=> round[q].locked, owner'[q] = owner[q]
  PROVE  HeardLink(p, q)'
  BY DEF HeardLink, SameThrough, Reached

(* The driver of p moves on, on its own and without a result.              *)
Moves(p) ==
  /\ game' = game /\ peer' = peer /\ freeze' = freeze /\ owner' = owner /\ result' = result
  /\ SameThrough(p) /\ model' = model
  /\ pc'[p] \in Late <=> pc[p] \in Late
  /\ pc'[p] \in {"responseSent", "persist", "done"} => result[p].requested

LEMMA MoveKeeps ==
  ASSUME Calm, NEW p \in Group, NEW q, q = Other(p), Idle(q), Moves(p),
         SentLink(p)', StageLink(p)', OwnLink(p)', BoundLink(p)',
         q \in round'[p].seen <=> q \in round[p].seen, round'[p].locked <=> round[p].locked
  PROVE  Orderly'
<1>1. SentLink(q)' /\ StageLink(q)' /\ OwnLink(q)' /\ BoundLink(q)' /\ SameThrough(q)
  BY Two, IdleKeeps, IdleThrough
<1>2. HeardLink(p, q)'
  BY <1>1, Links, HeardStays DEF Moves, Idle
<1>3. HeardLink(q, p)'
  BY <1>1, Links, HeardStays DEF Moves, Idle
<1>4. AskedLink(p, q)'
  BY <1>1, Links DEF AskedLink, Moves, SameThrough
<1>5. AskedLink(q, p)'
  BY <1>1, Links DEF AskedLink, Moves, SameThrough, Idle
<1> QED  BY <1>1, <1>2, <1>3, <1>4, <1>5, Relinked

LEMMA TalkKeeps ==
  ASSUME Calm, NEW p \in Group, NEW q, q = Other(p), Idle(q), Moves(p), round'[p] = round[p],
         SentLink(p)', StageLink(p)',
         pc'[p] \in Proposed <=> pc[p] \in Proposed,
         pc'[p] \in Engaged <=> pc[p] \in Engaged,
         pc[p] \in Playing => pc'[p] \in Playing,
         pc'[p] \in Late \cup {"result"} => pc[p] \in Late \cup {"result"}
  PROVE  Orderly'
<1>1. OwnLink(p)'
  BY Links DEF OwnLink, Moves
<1>2. BoundLink(p)'
  BY Links DEF BoundLink, Moves
<1> QED  BY <1>1, <1>2, MoveKeeps

(* A request goes out.                                                     *)
LEMMA Sends ==
  ASSUME Calm, NEW p \in Group, NEW q, q = Other(p), NEW m, NEW w, Send(p, m, w),
         pc[p] \notin Calling, UNCHANGED <<inputs, cursor, peer, freeze, owner>>
  PROVE  /\ pc'[p] = w /\ call'[p] = m /\ reply'[p] = None /\ call[p] = None
         /\ game' = game /\ model' = model /\ peer' = peer /\ freeze' = freeze /\ owner' = owner
         /\ round' = round /\ result' = result => Idle(q)
<1>1. Shape /\ q \in Group /\ q # p
  BY Two DEF Calm, SeriesInv, TermsInv
<1>2. reply[p] = None /\ call[p] = None
  BY Known DEF Calm
<1> QED  BY <1>1, <1>2 DEF Shape, Send, Goto, Idle, inputs, cursor

LEMMA OrderSendStep0 == ASSUME Calm, NEW p \in Group, SendStep0(p)  PROVE Orderly'
<1> PICK q : q = Other(p)
  OBVIOUS
<1> USE DEF Labels, Early, Opening, Proposed, Offering, Locking, Engaged, Disclosing, Late, Calling
<1>1. pc[p] = "boot" /\ round' = round /\ result' = result
  BY DEF SendStep0, pregame
<1>2. /\ pc'[p] = "step0Sent" /\ call'[p] = [kind |-> "step0"] /\ reply'[p] = None
      /\ call[p] = None /\ game' = game /\ model' = model /\ peer' = peer /\ freeze' = freeze
      /\ owner' = owner /\ Idle(q)
  BY <1>1, Sends DEF SendStep0, pregame
<1>3. SameThrough(p)
  BY <1>1, <1>2 DEF SameThrough, Introduced, Offered, Committed, Disclosed, Requested, Through, None
<1>4. Moves(p)
  BY <1>1, <1>2, <1>3 DEF Moves
<1>5. SentLink(p)' /\ StageLink(p)'
  BY <1>2, Kinds DEF SentLink, StageLink, KindAt
<1> QED  BY <1>1, <1>2, <1>4, <1>5, TalkKeeps DEF Playing

LEMMA OrderSendLock == ASSUME Calm, NEW p \in Group, SendLock(p)  PROVE Orderly'
<1> PICK q : q = Other(p)
  OBVIOUS
<1> USE DEF Labels, Early, Opening, Proposed, Offering, Locking, Engaged, Disclosing, Late, Calling
<1>1. /\ pc[p] = "awaitProposal" /\ q \in round[p].seen /\ round' = round /\ result' = result
  BY DEF SendLock, pregame, Arrived
<1>2. /\ pc'[p] = "lockSent" /\ call'[p] = Evidence(p) /\ reply'[p] = None
      /\ call[p] = None /\ game' = game /\ model' = model /\ peer' = peer /\ freeze' = freeze
      /\ owner' = owner /\ Idle(q)
  BY <1>1, Sends DEF SendLock, pregame
<1>3. call'[p].kind = "lock"
  BY <1>2 DEF Evidence
<1>4. SameThrough(p)
  BY <1>1, <1>2, <1>3, Kinds
  DEF SameThrough, Introduced, Offered, Committed, Disclosed, Requested, Through
<1>5. Moves(p)
  BY <1>1, <1>2, <1>4 DEF Moves
<1>6. SentLink(p)'
  BY <1>2, <1>3, Kinds DEF SentLink, KindAt
<1>7. StageLink(p)'
  BY <1>1, <1>2, Links DEF StageLink
<1> QED  BY <1>1, <1>2, <1>5, <1>6, <1>7, TalkKeeps DEF Playing

LEMMA OrderSendDisclosure == ASSUME Calm, NEW p \in Group, SendDisclosure(p)  PROVE Orderly'
<1> PICK q : q = Other(p)
  OBVIOUS
<1> USE DEF Labels, Early, Opening, Proposed, Offering, Locking, Engaged, Disclosing, Late, Calling
<1>1. pc[p] = "play" /\ round' = round /\ result' = result
  BY DEF SendDisclosure, pregame
<1>2. /\ pc'[p] = "disclosureSent" /\ call'[p] = [kind |-> "disclosure", game |-> game[p]]
      /\ reply'[p] = None
      /\ call[p] = None /\ game' = game /\ model' = model /\ peer' = peer /\ freeze' = freeze
      /\ owner' = owner /\ Idle(q)
  BY <1>1, Sends DEF SendDisclosure, pregame
<1>3. call'[p].kind = "disclosure" /\ call'[p].game = game[p]
  BY <1>2
<1>4. SameThrough(p)
  BY <1>1, <1>2, <1>3, Kinds
  DEF SameThrough, Introduced, Offered, Committed, Disclosed, Requested, Through
<1>5. Moves(p)
  BY <1>1, <1>2, <1>4 DEF Moves
<1>6. SentLink(p)'
  BY <1>2, <1>3, Kinds DEF SentLink, KindAt
<1>7. StageLink(p)'
  BY <1>1, <1>2, Links DEF StageLink
<1> QED  BY <1>1, <1>2, <1>5, <1>6, <1>7, TalkKeeps DEF Playing

LEMMA OrderSendResponse == ASSUME Calm, NEW p \in Group, SendResponse(p)  PROVE Orderly'
<1> PICK q : q = Other(p)
  OBVIOUS
<1> USE DEF Labels, Early, Opening, Proposed, Offering, Locking, Engaged, Disclosing, Late, Calling
<1>1. pc[p] = "awaitRequest" /\ result[p].requested /\ round' = round /\ result' = result
  BY DEF SendResponse, pregame, Arrived
<1>2. /\ pc'[p] = "responseSent" /\ call'[p] = ResultRequest(result[p].stamped)
      /\ reply'[p] = None
      /\ call[p] = None /\ game' = game /\ model' = model /\ peer' = peer /\ freeze' = freeze
      /\ owner' = owner /\ Idle(q)
  BY <1>1, Sends DEF SendResponse, pregame
<1>3. call'[p].kind = "result" /\ call'[p].stamped
  <2>1. result[p].stamped
    BY <1>1, Links DEF AskedLink
  <2> QED  BY <1>2, <2>1 DEF ResultRequest
<1>4. SameThrough(p)
  BY <1>1, <1>2, <1>3, Kinds
  DEF SameThrough, Introduced, Offered, Committed, Disclosed, Requested, Through
<1>5. Moves(p)
  BY <1>1, <1>2, <1>4 DEF Moves
<1>6. SentLink(p)'
  BY <1>2, <1>3, Kinds DEF SentLink, KindAt
<1>7. StageLink(p)'
  BY <1>1, <1>2, Links DEF StageLink
<1> QED  BY <1>1, <1>2, <1>5, <1>6, <1>7, TalkKeeps DEF Playing

LEMMA OrderAnswered == ASSUME Calm, NEW p \in Group, Answered(p)  PROVE Orderly'
<1> PICK q : q = Other(p)
  OBVIOUS
<1> USE DEF Labels, Early, Opening, Proposed, Offering, Locking, Engaged, Disclosing, Late, Calling
<1>0. q \in Group /\ q # p /\ Shape /\ PeersShape
  BY Two DEF Calm, SeriesInv, TermsInv
<1>1. /\ pc[p] \in Calling /\ call[p] = None
      /\ round' = round /\ result' = result /\ game' = game /\ model' = model /\ peer' = peer
      /\ freeze' = freeze /\ owner' = owner /\ call' = call
  <2>1. reply[p] # None
    BY Kinds DEF Answered
  <2> QED  BY <2>1, Known DEF Answered, Calm, pregame, inputs
<1>2. pc'[p] = AfterCall[pc[p]] /\ reply'[p] = None /\ Idle(q)
  BY <1>0, <1>1 DEF Answered, Goto, Shape, Idle
<1>3. SameThrough(p)
  BY <1>1, <1>2 DEF SameThrough, Introduced, Offered, Committed, Disclosed, Requested, Through,
     AfterCall
<1>4. pc'[p] \in Late <=> pc[p] \in Late
  BY <1>1, <1>2 DEF AfterCall
<1>5. pc'[p] \in {"responseSent", "persist", "done"} => result[p].requested
  BY <1>1, <1>2, Links DEF AfterCall, AskedLink
<1>6. Moves(p)
  BY <1>1, <1>3, <1>4, <1>5 DEF Moves
<1>7. SentLink(p)'
  BY <1>1, <1>2, Kinds DEF SentLink, AfterCall
<1>8. StageLink(p)'
  <2>1. peer[p] \/ pc[p] = "step0Sent"
    BY <1>1, Links DEF StageLink
  <2> QED  BY <1>1, <1>2, <2>1, Links DEF StageLink, AfterCall
<1>9. /\ pc'[p] \in Proposed <=> pc[p] \in Proposed
      /\ pc'[p] \in Engaged <=> pc[p] \in Engaged
      /\ pc[p] \in Playing => pc'[p] \in Playing
      /\ pc'[p] \in Late \cup {"result"} => pc[p] \in Late \cup {"result"}
  BY <1>1, <1>2 DEF AfterCall, Playing
<1> QED  BY <1>1, <1>2, <1>6, <1>7, <1>8, <1>9, TalkKeeps

LEMMA OrderPersist == ASSUME Calm, NEW p \in Group, Persist(p)  PROVE Orderly'
<1> PICK q : q = Other(p)
  OBVIOUS
<1> USE DEF Labels, Early, Opening, Proposed, Offering, Locking, Engaged, Disclosing, Late, Calling
<1>0. q \in Group /\ q # p /\ Shape /\ PeersShape
  BY Two DEF Calm, SeriesInv, TermsInv
<1>1. /\ pc[p] = "persist" \/ (pc[p] = "awaitResponse" /\ result[p].requested)
      /\ round' = round /\ result' = result /\ game' = game /\ model' = model /\ peer' = peer
      /\ freeze' = freeze /\ owner' = owner /\ call' = call /\ reply' = reply
  BY DEF Persist, Arrived, pregame, inputs, network
<1>2. pc'[p] = "done" /\ Idle(q) /\ call[p] = None
  BY <1>0, <1>1, Known DEF Persist, Goto, Shape, Idle, Calm
<1>3. SameThrough(p)
  BY <1>1, <1>2, Links, Two DEF SameThrough, Introduced, Offered, Committed, Disclosed, Requested,
     Through, StageLink
<1>4. Moves(p)
  BY <1>1, <1>2, <1>3, Links DEF Moves, AskedLink
<1>5. SentLink(p)'
  BY <1>1, <1>2, Links DEF SentLink
<1>6. StageLink(p)'
  BY <1>1, <1>2, Links DEF StageLink
<1> QED  BY <1>1, <1>2, <1>4, <1>5, <1>6, TalkKeeps DEF Playing

LEMMA OrderBegin == ASSUME Calm, NEW p \in Group, Begin(p)  PROVE Orderly'
<1> PICK q : q = Other(p)
  OBVIOUS
<1> USE DEF Labels, Early, Opening, Proposed, Offering, Locking, Engaged, Disclosing, Late, Calling
<1>0. /\ q \in Group /\ q # p /\ (p = Lower \/ p = Higher) /\ Lower # Higher
      /\ Shape /\ PeersShape
      /\ DOMAIN round[p] = Fields /\ round[p].game = game[p]
  BY Two, Known DEF Calm, SeriesInv, TermsInv
<1>1. /\ pc[p] = "awaitStep0" /\ peer[p] /\ pc' = [pc EXCEPT ![p] = Negotiating(p)]
      /\ round' = [round EXCEPT ![p] = OpenedRound(p, game[p])]
      /\ result' = result /\ game' = game /\ model' = model /\ peer' = peer
      /\ freeze' = freeze /\ owner' = owner /\ call' = call /\ reply' = reply
  BY DEF Begin, Goto, OpenRound, inputs, cursor, network
<1>2. /\ pc'[p] = Negotiating(p) /\ Idle(q) /\ call[p] = None
      /\ round'[p] = [round[p] EXCEPT !.adopted = Candidate(p)]
  BY <1>0, <1>1, Known DEF Shape, Idle, Calm, OpenedRound
<1>3. /\ round'[p].seen = round[p].seen /\ round'[p].opening = round[p].opening
      /\ round'[p].locked = round[p].locked /\ round'[p].adopted = Candidate(p)
  BY <1>0, <1>2 DEF Fields
<1>4. SameThrough(p)
  BY <1>1, <1>2 DEF SameThrough, Introduced, Offered, Committed, Disclosed, Requested, Through,
     Negotiating
<1>5. Moves(p)
  BY <1>1, <1>2, <1>4 DEF Moves, Negotiating
<1>6. SentLink(p)'
  BY <1>1, <1>2, Links DEF SentLink, Negotiating
<1>7. StageLink(p)'
  BY <1>0, <1>1, <1>2, <1>3, Kinds DEF StageLink, Negotiating
<1>8. OwnLink(p)'
  <2>1. pc[p] \notin Proposed /\ pc'[p] \notin Proposed
    BY <1>1, <1>2 DEF Negotiating
  <2>2. OwnLink(p) /\ freeze'[p] = freeze[p] /\ model'[p] = model[p]
    BY <1>1, Links
  <2> HIDE DEF Proposed
  <2> QED  BY <1>3, <2>1, <2>2 DEF OwnLink
<1>9. BoundLink(p)'
  BY <1>1, <1>2, Links DEF BoundLink, Negotiating, Playing
<1> QED  BY <1>2, <1>3, <1>5, <1>6, <1>7, <1>8, <1>9, MoveKeeps

LEMMA OrderSendProposal == ASSUME Calm, NEW p \in Group, SendProposal(p)  PROVE Orderly'
<1> PICK q : q = Other(p)
  OBVIOUS
<1> USE DEF Labels, Early, Opening, Proposed, Offering, Locking, Engaged, Disclosing, Late, Calling
<1>0. /\ q \in Group /\ q # p /\ (p = Lower \/ p = Higher) /\ Lower # Higher
      /\ Shape /\ PeersShape
      /\ DOMAIN round[p] = Fields /\ round[p].game = game[p]
  BY Two, Known DEF Calm, SeriesInv, TermsInv
<1>1. /\ pc[p] = "propose" \/ (pc[p] = "awaitOpening" /\ q \in round[p].seen)
      /\ round' = [round EXCEPT ![p].seen = @ \cup {p}, ![p].opening = FALSE]
      /\ Send(p, Proposal(p), "proposalSent")
      /\ UNCHANGED <<inputs, cursor, peer, freeze, owner>> /\ result' = result
  BY DEF SendProposal, Arrived
<1>2. /\ pc'[p] = "proposalSent" /\ call'[p] = Proposal(p) /\ reply'[p] = None
      /\ call[p] = None /\ game' = game /\ model' = model /\ peer' = peer /\ freeze' = freeze
      /\ owner' = owner
  BY <1>1, Sends
<1>3. /\ round'[p] = [round[p] EXCEPT !.seen = @ \cup {p}, !.opening = FALSE]
      /\ round'[q] = round[q]
  BY <1>0, <1>1 DEF Shape
<1>4. /\ round'[p].seen = round[p].seen \cup {p} /\ ~round'[p].opening
      /\ round'[p].locked = round[p].locked /\ round'[p].adopted = round[p].adopted
  BY <1>0, <1>3 DEF Fields
<1>5. Idle(q)
  BY <1>0, <1>1, <1>2, <1>3 DEF Idle, Send, Goto, Shape
<1>6. call'[p].kind = "proposal" /\ call'[p].game = game[p] /\ call'[p].model = model[p]
  BY <1>0, <1>2 DEF Proposal
<1>7. SameThrough(p)
  BY <1>1, <1>2, <1>6, Kinds
  DEF SameThrough, Introduced, Offered, Committed, Disclosed, Requested, Through
<1>8. Moves(p)
  BY <1>1, <1>2, <1>7 DEF Moves
<1>9. SentLink(p)'
  BY <1>2, <1>6, Kinds DEF SentLink, KindAt
<1>10. StageLink(p)'
  BY <1>0, <1>1, <1>2, <1>4, Links DEF StageLink
<1>11. OwnLink(p)'
  BY <1>0, <1>2, <1>4, Links DEF OwnLink
<1>12. BoundLink(p)'
  BY <1>1, <1>2, Links DEF BoundLink, Playing
<1> QED  BY <1>0, <1>4, <1>5, <1>8, <1>9, <1>10, <1>11, <1>12, MoveKeeps

LEMMA OrderLockConfig == ASSUME Calm, NEW p \in Group, LockConfig(p)  PROVE Orderly'
<1> PICK q : q = Other(p)
  OBVIOUS
<1> USE DEF Labels, Early, Opening, Proposed, Offering, Locking, Engaged, Disclosing, Late, Calling
<1>0. q \in Group /\ q # p /\ Other(q) = p /\ Shape /\ PeersShape
  BY Two DEF Calm, SeriesInv, TermsInv
<1>1. /\ pc[p] = "awaitLock" /\ round[p].locked /\ pc' = [pc EXCEPT ![p] = "play"]
      /\ owner' = [owner EXCEPT ![p] = [game |-> game[p], audit |-> "PLAYING"]]
      /\ round' = round /\ result' = result /\ game' = game /\ model' = model /\ peer' = peer
      /\ freeze' = freeze /\ call' = call /\ reply' = reply
  BY DEF LockConfig, MayLock, Goto, pregame, inputs, network
<1>2. /\ pc'[p] = "play" /\ call[p] = None /\ Idle(q)
      /\ owner'[p] = [game |-> game[p], audit |-> "PLAYING"] /\ owner'[q] = owner[q]
  BY <1>0, <1>1, Known DEF Shape, Idle, Calm
<1>3. owner'[p].game = game[p] /\ owner'[p].audit = "PLAYING"
  BY <1>2
<1>4. SameThrough(p) /\ SameThrough(q)
  BY <1>0, <1>1, <1>2, IdleThrough
  DEF SameThrough, Introduced, Offered, Committed, Disclosed, Requested, Through
<1>5. SentLink(p)'
  BY <1>1, <1>2, Links DEF SentLink
<1>6. StageLink(p)'
  BY <1>1, <1>2, Links DEF StageLink
<1>7. OwnLink(p)'
  BY <1>1, <1>2, Links DEF OwnLink
<1>8. BoundLink(p)'
  BY <1>1, <1>2, <1>3 DEF BoundLink, Playing
<1>9. HeardLink(p, q)'
  BY <1>1, <1>2, <1>4, Links, HeardStays
<1>10. HeardLink(q, p)'
  <2>1. owner[p].game # game[p]
    BY <1>1, Links DEF BoundLink
  <2>2. ~Reached(q, p, Disclosed(q))
    BY <2>1, Links DEF HeardLink
  <2> QED  BY <1>1, <1>3, <1>4, <2>2, Links DEF HeardLink, SameThrough, Reached
<1>11. AskedLink(p, q)'
  BY <1>1, <1>2, <1>4, Links DEF AskedLink, SameThrough
<1>12. AskedLink(q, p)'
  BY <1>1, <1>2, <1>4, Links DEF AskedLink, SameThrough, Idle
<1> QED
  BY <1>0, <1>2, <1>5, <1>6, <1>7, <1>8, <1>9, <1>10, <1>11, <1>12, IdleKeeps, Relinked

(* A sub-game is closed that both have disclosed, or that one has left.    *)
LEMMA OrderClose == ASSUME Calm, NEW p \in Group, Close(p)  PROVE Orderly'
<1> PICK q : q = Other(p)
  OBVIOUS
<1> USE DEF Labels, Early, Opening, Proposed, Offering, Locking, Engaged, Disclosing, Late, Calling
<1>0. /\ q \in Group /\ q # p /\ Other(q) = p /\ Shape /\ PeersShape
      /\ (p = Lower \/ p = Higher) /\ Lower # Higher
      /\ game[p] \in Nat /\ game[p] >= 1 /\ game[q] \in Nat /\ round[p].game = game[p]
      /\ owner[p].game \in Nat
  BY Two, Known DEF Calm, SeriesInv, TermsInv
<1>1. /\ pc[p] = "awaitAudit" /\ owner[p].audit = "COMPLETE"
      /\ result' = result /\ model' = model /\ peer' = peer
      /\ freeze' = freeze /\ owner' = owner /\ call' = call /\ reply' = reply
  BY DEF Close, CloseWith, Arrived, inputs, network
<1>2. PICK outcome : CloseWith(p, outcome)
  BY DEF Close
<1>3. owner[p].game = game[p] /\ call[p] = None
  BY <1>1, Links, Known DEF BoundLink, Calm
<1>4. game[q] >= game[p] /\ (game[q] = game[p] => Disclosed(q)) /\ game[q] <= game[p] + 1
      /\ (game[q] > game[p] => ~Offered(q))
  <2>1. Reached(q, p, Disclosed(q))
    BY <1>1, <1>3, Links DEF HeardLink
  <2> QED  BY <1>0, <2>1, Links DEF Reached, HeardLink
<1>5. Offered(p) /\ Committed(p) /\ Disclosed(p) /\ Introduced(p)
  BY <1>1 DEF Offered, Committed, Disclosed, Introduced, Through
<1>6. CASE LastGame(game[p])
  <2>1. pc' = [pc EXCEPT ![p] = "result"] /\ round' = round /\ game' = game
    BY <1>2, <1>6 DEF CloseWith, Goto
  <2>2. pc'[p] = "result" /\ Idle(q)
    BY <1>0, <1>1, <2>1 DEF Shape, Idle
  <2>3. SameThrough(p)
    BY <1>1, <1>3, <2>2 DEF SameThrough, Introduced, Offered, Committed, Disclosed, Requested,
       Through
  <2>4. Moves(p)
    BY <1>1, <2>1, <2>2, <2>3 DEF Moves
  <2>5. SentLink(p)'
    BY <1>1, <1>3, <2>2, Links DEF SentLink
  <2>6. StageLink(p)'
    BY <1>1, <2>1, <2>2, Links DEF StageLink
  <2>7. OwnLink(p)'
    BY <1>1, <2>1, <2>2, Links DEF OwnLink
  <2>8. BoundLink(p)'
    BY <1>1, <1>3, <1>6, <2>1, <2>2, Links DEF BoundLink, LastGame
  <2> QED  BY <2>1, <2>2, <2>4, <2>5, <2>6, <2>7, <2>8, MoveKeeps
<1>7. CASE ~LastGame(game[p])
  <2>1. /\ pc' = [pc EXCEPT ![p] = Negotiating(p)] /\ game' = [game EXCEPT ![p] = @ + 1]
        /\ round' = [round EXCEPT ![p] = OpenedRound(p, game[p] + 1)]
    BY <1>2, <1>7 DEF CloseWith, Goto, OpenRound
  <2>2. pc'[p] = Negotiating(p) /\ game'[p] = game[p] + 1 /\ game'[q] = game[q] /\ Idle(q)
    BY <1>0, <1>1, <2>1 DEF Shape, Idle
  <2>3. /\ round'[p].seen = {} /\ round'[p].opening = TRUE /\ round'[p].locked = FALSE
        /\ round'[p].adopted # None
    <3>1. round'[p] = [NewRound(game[p] + 1) EXCEPT !.adopted = Candidate(p)]
      <4>1. round[p].game # game[p] + 1
        BY <1>0
      <4> QED  BY <1>0, <2>1, <4>1 DEF Shape, OpenedRound
    <3> QED  BY <3>1, Kinds DEF NewRound
  <2>4. ~Offered(p)' /\ ~Committed(p)' /\ ~Disclosed(p)' /\ Introduced(p)'
    BY <2>2 DEF Offered, Committed, Disclosed, Introduced, Through, Negotiating
  <2>5. SameThrough(q)
    BY <2>2, IdleThrough
  <2>6. SentLink(p)'
    BY <1>1, <1>3, <2>2, Links DEF SentLink, Negotiating
  <2>7. StageLink(p)'
    BY <1>0, <1>1, <2>2, <2>3, Links DEF StageLink, Negotiating
  <2>8. OwnLink(p)'
    BY <1>1, <2>2, <2>3, Links DEF OwnLink, Negotiating
  <2>9. BoundLink(p)'
    <3>1. owner'[p].game # game'[p] /\ owner'[p].audit = "COMPLETE"
      BY <1>0, <1>1, <1>3, <2>2
    <3> QED  BY <2>2, <3>1 DEF BoundLink, Negotiating
  <2>10. HeardLink(p, q)'
    <3>1. CASE game[q] = game[p]
      <4>1. game'[p] > game'[q] /\ game'[p] <= game'[q] + 1 /\ Disclosed(q)'
        BY <1>0, <1>4, <2>2, <2>5, <3>1 DEF SameThrough
      <4>2. p \in round[q].seen /\ round[q].locked
            /\ owner[q].game = game[q] /\ owner[q].audit = "COMPLETE" /\ peer[q]
        BY <1>5, <3>1, Links DEF HeardLink, Reached
      <4> QED  BY <1>1, <2>2, <2>4, <4>1, <4>2 DEF HeardLink, Reached, Idle
    <3>2. CASE game[q] = game[p] + 1
      <4>1. ~(game[p] > game[q]) /\ game[p] # game[q]
        BY <1>0, <3>2
      <4>2. /\ p \notin round[q].seen /\ ~round[q].locked
            /\ ~(owner[q].game = game[q] /\ owner[q].audit = "COMPLETE") /\ peer[q]
        BY <1>5, <4>1, Links DEF HeardLink, Reached
      <4>3. game'[p] = game'[q] /\ ~(game'[p] > game'[q]) /\ game'[p] <= game'[q] + 1
        BY <1>0, <2>2, <3>2
      <4> QED  BY <1>1, <2>2, <2>4, <4>2, <4>3 DEF HeardLink, Reached, Idle
    <3> QED  BY <1>0, <1>4, <3>1, <3>2
  <2>11. HeardLink(q, p)'
    <3>1. ~(game'[q] > game'[p]) /\ game'[q] <= game'[p] + 1
      BY <1>0, <1>4, <2>2
    <3>2. game'[q] = game'[p] => ~Offered(q)' /\ ~Committed(q)' /\ ~Disclosed(q)'
      <4> SUFFICES ASSUME game'[q] = game'[p]
                   PROVE  ~Offered(q)' /\ ~Committed(q)' /\ ~Disclosed(q)'
        OBVIOUS
      <4>1. ~Offered(q)
        BY <1>0, <1>4, <2>2
      <4>2. ~Committed(q) /\ ~Disclosed(q)
        BY <4>1 DEF Offered, Committed, Disclosed, Through
      <4> QED  BY <2>5, <4>1, <4>2 DEF SameThrough
    <3>3. owner'[p].game # game'[p]
      BY <1>0, <1>1, <1>3, <2>2
    <3>4. peer'[p] <=> Introduced(q)'
      BY <1>1, <2>5, Links DEF HeardLink, SameThrough
    <3> QED  BY <2>3, <3>1, <3>2, <3>3, <3>4 DEF HeardLink, Reached
  <2>12. AskedLink(p, q)'
    BY <1>1, <2>2, <2>5, Links DEF AskedLink, SameThrough, Negotiating
  <2>13. AskedLink(q, p)'
    <3>1. ~Requested(p) /\ ~Requested(p)'
      BY <1>1, <2>2 DEF Requested, Through, Negotiating
    <3> QED  BY <1>1, <2>2, <3>1, Links DEF AskedLink, Idle
  <2> QED
    BY <1>0, <2>2, <2>6, <2>7, <2>8, <2>9, <2>10, <2>11, <2>12, <2>13, IdleKeeps, Relinked
<1> QED  BY <1>6, <1>7

LEMMA OrderBuildResult == ASSUME Calm, NEW p \in Group, BuildResult(p)  PROVE Orderly'
<1> PICK q : q = Other(p)
  OBVIOUS
<1> USE DEF Labels, Early, Opening, Proposed, Offering, Locking, Engaged, Disclosing, Late, Calling
<1>0. /\ q \in Group /\ q # p /\ Other(q) = p /\ Shape /\ PeersShape
      /\ (p = Lower /\ q = Higher) \/ (p = Higher /\ q = Lower)
      /\ Lower # Higher
  BY Two DEF Calm, SeriesInv, TermsInv
<1>1. /\ pc[p] = "result"
      /\ result' = [result EXCEPT ![p] = [NewResult EXCEPT !.stamped = (p = Lower)]]
      /\ round' = round /\ game' = game /\ model' = model /\ peer' = peer
      /\ freeze' = freeze /\ owner' = owner
  BY DEF BuildResult, pregame, inputs
<1>2. /\ result'[p] # None /\ (result'[p].stamped <=> p = Lower) /\ ~result'[p].requested
      /\ result'[q] = result[q] /\ result[p] = None
  <2>1. /\ result'[p] = [NewResult EXCEPT !.stamped = (p = Lower)] /\ result'[q] = result[q]
    BY <1>0, <1>1 DEF Shape
  <2>2. (result'[p].stamped <=> p = Lower) /\ ~result'[p].requested /\ result'[p].kind = "bound"
    BY <2>1 DEF NewResult
  <2>3. result'[p] # None
    BY <2>2 DEF None
  <2> QED  BY <1>1, <2>1, <2>2, <2>3, Links DEF AskedLink
<1>3. /\ reply'[p] = None /\ call'[q] = call[q] /\ reply'[q] = reply[q] /\ pc'[q] = pc[q]
      /\ \/ p = Lower /\ pc'[p] = "requestSent" /\ call'[p] = ResultRequest(TRUE)
         \/ p = Higher /\ pc'[p] = "awaitRequest" /\ call'[p] = None
  <2>0. reply[p] = None /\ call[p] = None
    BY <1>1, Known DEF Calm
  <2>1. CASE p = Lower
    <3>1. Send(p, ResultRequest(TRUE), "requestSent")
      BY <2>1 DEF BuildResult
    <3> QED  BY <1>0, <2>0, <2>1, <3>1 DEF Send, Goto, Shape
  <2>2. CASE p = Higher
    <3>1. Goto(p, "awaitRequest") /\ call' = call /\ reply' = reply
      BY <1>0, <2>2 DEF BuildResult, network
    <3> QED  BY <1>0, <2>0, <2>2, <3>1 DEF Goto, Shape
  <2> QED  BY <1>0, <2>1, <2>2
<1>4. Idle(q)
  BY <1>1, <1>2, <1>3 DEF Idle
<1>5. SameThrough(p) /\ SameThrough(q)
  <2>1. call'[p] # None \/ pc'[p] # "requestSent"
    BY <1>3, Kinds DEF ResultRequest
  <2>2. SameThrough(q)
    BY <1>4, IdleThrough
  <2>3. /\ Introduced(p)' <=> Introduced(p)
        /\ Offered(p)' <=> Offered(p)
    BY <1>1, <1>3 DEF Introduced, Offered, Through
  <2>4. /\ Committed(p)' <=> Committed(p)
        /\ Disclosed(p)' <=> Disclosed(p)
    BY <1>1, <1>3 DEF Committed, Disclosed, Through
  <2>5. Requested(p)' <=> Requested(p)
    BY <1>0, <1>1, <1>3, <2>1 DEF Requested, Through
  <2> QED  BY <2>2, <2>3, <2>4, <2>5 DEF SameThrough
<1>6. SentLink(p)'
  BY <1>3, Kinds DEF SentLink, KindAt, ResultRequest
<1>7. StageLink(p)'
  BY <1>1, <1>3, Links DEF StageLink
<1>8. OwnLink(p)'
  BY <1>1, <1>3, Links DEF OwnLink
<1>9. BoundLink(p)'
  BY <1>1, <1>3, Links DEF BoundLink, Playing
<1>10. HeardLink(p, q)'
  BY <1>1, <1>5, Links, HeardStays
<1>11. HeardLink(q, p)'
  BY <1>1, <1>5, Links, HeardStays
<1>12. AskedLink(p, q)'
  <2>1. ~Requested(q)
    BY <1>2, Links DEF AskedLink
  <2> QED  BY <1>2, <1>3, <1>5, <2>1 DEF AskedLink, SameThrough
<1>13. AskedLink(q, p)'
  BY <1>2, <1>4, <1>5, Links DEF AskedLink, SameThrough, Idle
<1> QED
  BY <1>0, <1>4, <1>6, <1>7, <1>8, <1>9, <1>10, <1>11, <1>12, <1>13, IdleKeeps, Relinked

(* Two digests that are held are of equal lines.                           *)
LEMMA DigestsAgree ==
  ASSUME SeriesInv, ~Differ, NEW p \in Group, NEW d, d.kind = "digest",
         result[p] # None, Held(Other(p), d)
  PROVE  d = Digest(lines[p])
<1>1. Other(p) \in Group
  BY Two
<1>2. Len(lines[p]) = NumGames /\ Len(lines[Other(p)]) = NumGames
  BY <1>1 DEF SeriesInv, ResultLink, Held
<1>3. lines[p] = lines[Other(p)]
  BY <1>1, <1>2, EqualLines
<1> QED  BY <1>3 DEF Held

LEMMA OrderDigestReturned ==
  ASSUME Calm, ~Differ, NEW p \in Group, DigestReturned(p)  PROVE Orderly'
<1> PICK q : q = Other(p)
  OBVIOUS
<1> USE DEF Labels, Early, Opening, Proposed, Offering, Locking, Engaged, Disclosing, Late, Calling
<1>0. /\ q \in Group /\ q # p /\ Other(q) = p /\ Shape /\ PeersShape
      /\ (p = Lower /\ q = Higher) \/ (p = Higher /\ q = Lower)
      /\ Lower # Higher
  BY Two DEF Calm, SeriesInv, TermsInv
<1> DEFINE r == [result[p] EXCEPT !.peer = reply[p], !.sent = TRUE]
<1>1. /\ pc[p] \in {"requestSent", "responseSent"} /\ reply[p].kind = "digest"
      /\ reply' = [reply EXCEPT ![p] = None]
      /\ result' = [result EXCEPT ![p] = IF Disagrees(r) THEN r ELSE Verified(r)]
      /\ Goto(p, IF Disagrees(r) THEN "failed" ELSE AfterCall[pc[p]])
      /\ round' = round /\ game' = game /\ model' = model /\ peer' = peer
      /\ freeze' = freeze /\ owner' = owner /\ call' = call
  <2>1. pc[p] \in {"requestSent", "responseSent"}
    BY DEF DigestReturned, CallLink, Calm, SeriesInv, TermsInv
  <2> QED  BY <2>1 DEF DigestReturned, pregame, inputs, cursor
<1>2. call[p] = None /\ result[p] # None /\ DOMAIN result[p] = ResultFields
      /\ result[p].local \in {None, Digest(lines[p])} /\ Held(q, reply[p])
  BY <1>0, <1>1, Kinds, Known DEF Calm, SeriesInv, ResultLink, DigestLink
<1>3. ~Disagrees(r)
  <2>1. r.local = result[p].local /\ r.peer = reply[p]
    BY <1>2 DEF ResultFields
  <2>2. reply[p] = Digest(lines[p])
    BY <1>0, <1>1, <1>2, DigestsAgree DEF Calm
  <2> QED  BY <1>2, <2>1, <2>2 DEF Disagrees
<1>4. /\ DOMAIN result'[p] = ResultFields /\ result'[p] # None
      /\ result'[p].requested = result[p].requested /\ result'[p].stamped = result[p].stamped
      /\ result'[q] = result[q]
  <2>1. result'[p] = Verified(r) /\ result'[q] = result[q]
    BY <1>0, <1>1, <1>3 DEF Shape
  <2>2. DOMAIN result'[p] = ResultFields
        /\ result'[p].requested = result[p].requested /\ result'[p].stamped = result[p].stamped
    BY <1>2, <2>1 DEF Verified, ResultFields
  <2> QED  BY <2>1, <2>2, Bound
<1>5. pc'[p] = AfterCall[pc[p]] /\ reply'[p] = None /\ Idle(q)
  BY <1>0, <1>1, <1>3, <1>4 DEF Goto, Shape, Idle
<1> HIDE DEF r
<1>6. SameThrough(p) /\ SameThrough(q)
  BY <1>1, <1>2, <1>5, IdleThrough
  DEF SameThrough, Introduced, Offered, Committed, Disclosed, Requested, Through, AfterCall
<1>7. SentLink(p)'
  BY <1>1, <1>2, <1>5, Kinds DEF SentLink, AfterCall
<1>8. StageLink(p)'
  BY <1>1, <1>5, Links DEF StageLink, AfterCall
<1>9. OwnLink(p)'
  BY <1>1, <1>5, Links DEF OwnLink, AfterCall
<1>10. BoundLink(p)'
  BY <1>1, <1>5, Links DEF BoundLink, AfterCall, Playing
<1>11. HeardLink(p, q)'
  BY <1>1, <1>6, Links, HeardStays
<1>12. HeardLink(q, p)'
  BY <1>1, <1>6, Links, HeardStays
<1>13. AskedLink(p, q)'
  BY <1>1, <1>2, <1>4, <1>5, <1>6, Links DEF AskedLink, SameThrough, AfterCall
<1>14. AskedLink(q, p)'
  BY <1>4, <1>5, <1>6, Links DEF AskedLink, SameThrough, Idle
<1> QED
  BY <1>0, <1>5, <1>7, <1>8, <1>9, <1>10, <1>11, <1>12, <1>13, <1>14, IdleKeeps, Relinked

(* A request of p is served: only its owner at q changes.                  *)
Serves(p, q) ==
  /\ pc' = pc /\ game' = game /\ model' = model
  /\ call[p] # None /\ call'[p] = None /\ call'[q] = call[q]
  /\ reply'[p].kind \in {"ok", "digest"} /\ reply'[q] = reply[q]
  /\ peer'[p] = peer[p] /\ round'[p] = round[p] /\ freeze'[p] = freeze[p]
  /\ owner'[p] = owner[p] /\ result'[p] = result[p]

LEMMA ServeKeeps ==
  ASSUME Calm, NEW p \in Group, NEW q, q = Other(p), Serves(p, q),
         StageLink(q)', OwnLink(q)', BoundLink(q)', HeardLink(p, q)', AskedLink(q, p)'
  PROVE  Orderly'
<1>1. SentLink(p)'
  <2>1. reply'[p] # None
    BY Kinds DEF Serves
  <2> QED  BY <2>1, Links DEF SentLink, Serves
<1>2. SentLink(q)'
  BY Links DEF SentLink, Serves
<1>3. StageLink(p)'
  BY Links DEF StageLink, Serves
<1>4. OwnLink(p)'
  BY Links DEF OwnLink, Serves
<1>5. BoundLink(p)'
  BY Links DEF BoundLink, Serves
<1>6. SameThrough(q)
  BY DEF SameThrough, Introduced, Offered, Committed, Disclosed, Requested, Through, Serves
<1>7. Disclosed(p) => Disclosed(p)'
  BY DEF Disclosed, Through, Serves
<1>8. HeardLink(q, p)'
  BY <1>6, <1>7, Links DEF HeardLink, SameThrough, Reached, Serves
<1>9. AskedLink(p, q)'
  BY <1>6, Links DEF AskedLink, SameThrough, Serves
<1> QED  BY <1>1, <1>2, <1>3, <1>4, <1>5, <1>8, <1>9, Relinked

(* What the request of p says of where its driver is.                      *)
LEMMA Sender ==
  ASSUME Calm, NEW p \in Group, call[p] # None
  PROVE  /\ call[p].kind = "step0" => pc[p] = "step0Sent"
         /\ call[p].kind = "proposal" => pc[p] = "proposalSent"
         /\ call[p].kind = "lock" => pc[p] = "lockSent"
         /\ call[p].kind = "disclosure" => pc[p] = "disclosureSent"
         /\ call[p].kind = "result" => pc[p] \in {"requestSent", "responseSent"}
<1>1. pc[p] \in Calling /\ call[p].kind = KindAt[pc[p]]
  BY Links DEF SentLink
<1> QED  BY <1>1 DEF KindAt, Calling

(* What of p was served before, while a request of it is outstanding.      *)
LEMMA Unserved ==
  ASSUME NEW p, NEW q, Serves(p, q)
  PROVE  /\ Introduced(p)' <=> Introduced(p) \/ pc[p] = "step0Sent"
         /\ Offered(p)' <=> Offered(p) \/ pc[p] = "proposalSent"
         /\ Committed(p)' <=> Committed(p) \/ pc[p] = "lockSent"
         /\ Disclosed(p)' <=> Disclosed(p) \/ pc[p] = "disclosureSent"
         /\ Requested(p)' <=> Requested(p) \/ (p = Lower /\ pc[p] = "requestSent")
                                           \/ (p = Higher /\ pc[p] = "responseSent")
         /\ Disclosed(q)' <=> Disclosed(q)
  BY DEF Introduced, Offered, Committed, Disclosed, Requested, Through, Serves

(* What q has heard of p in the sub-game both are in.                      *)
LEMMA HeardInGame ==
  ASSUME Calm, NEW p \in Group, NEW q, q = Other(p), game[p] = game[q]
  PROVE  /\ ~(game[p] > game[q]) /\ game[p] <= game[q] + 1
         /\ peer[q] <=> Introduced(p)
         /\ p \in round[q].seen <=> Offered(p)
         /\ round[q].locked <=> Committed(p)
         /\ owner[q].game = game[q] /\ owner[q].audit = "COMPLETE" <=> Disclosed(p)
<1>1. game[p] \in Nat /\ game[q] \in Nat
  BY Two, Known DEF Calm
<1> QED  BY <1>1, Links DEF HeardLink, Reached

LEMMA OrderAcceptStep0 == ASSUME Calm, NEW p \in Group, AcceptStep0(p)  PROVE Orderly'
<1> PICK q : q = Other(p)
  OBVIOUS
<1>0. q \in Group /\ q # p /\ Other(q) = p /\ Shape /\ PeersShape
  BY Two DEF Calm, SeriesInv, TermsInv
<1>1. /\ call[p].kind = "step0" /\ peer' = [peer EXCEPT ![q] = TRUE] /\ Answer(p, Ok)
      /\ pc' = pc /\ game' = game /\ model' = model /\ round' = round /\ freeze' = freeze
      /\ owner' = owner /\ result' = result
  BY DEF AcceptStep0, Receive, inputs, cursor
<1>2. peer'[q] = TRUE /\ Serves(p, q)
  BY <1>0, <1>1, Kinds DEF Answer, Serves, Shape, PeersShape
<1>3. pc[p] = "step0Sent"
  BY <1>1, <1>2, Sender DEF Serves
<1>4. StageLink(q)'
  BY <1>1, <1>2, Links DEF StageLink
<1>5. OwnLink(q)'
  BY <1>1, <1>2, Links DEF OwnLink
<1>6. BoundLink(q)'
  BY <1>1, <1>2, Links DEF BoundLink
<1>7. HeardLink(p, q)'
  <2>1. Introduced(p)'
    BY <1>2, <1>3, Unserved
  <2>2. /\ Offered(p)' <=> Offered(p)
        /\ Committed(p)' <=> Committed(p)
        /\ Disclosed(p)' <=> Disclosed(p)
        /\ Disclosed(q)' <=> Disclosed(q)
    BY <1>2, <1>3, Unserved
  <2> QED  BY <1>1, <1>2, <2>1, <2>2, Links DEF HeardLink, Reached
<1>8. AskedLink(q, p)'
  BY <1>1, <1>2, <1>3, Unserved, Links DEF AskedLink
<1> QED  BY <1>2, <1>4, <1>5, <1>6, <1>7, <1>8, ServeKeeps

LEMMA OrderAcceptProposal == ASSUME Calm, NEW p \in Group, AcceptProposal(p)  PROVE Orderly'
<1> PICK q : q = Other(p)
  OBVIOUS
<1>0. /\ q \in Group /\ q # p /\ Other(q) = p /\ Shape /\ PeersShape
      /\ DOMAIN round[q] = Fields /\ round[q].game = game[q] /\ game[q] \in Nat
  BY Two, Known DEF Calm, SeriesInv, TermsInv
<1>1. /\ call[p].kind = "proposal" /\ call[p].game = round[q].game
      /\ round' = [round EXCEPT ![q].seen = @ \cup {p}, ![q].opening = FALSE] /\ Answer(p, Ok)
      /\ pc' = pc /\ game' = game /\ model' = model /\ peer' = peer /\ freeze' = freeze
      /\ owner' = owner /\ result' = result
  BY DEF AcceptProposal, Receive, Admits, ProposalMatches, inputs, cursor
<1>2. /\ round'[q].seen = round[q].seen \cup {p} /\ round'[q].opening = FALSE
      /\ round'[q].adopted = round[q].adopted /\ round'[q].locked = round[q].locked
  <2>1. round'[q] = [round[q] EXCEPT !.seen = @ \cup {p}, !.opening = FALSE]
    BY <1>0, <1>1 DEF Shape
  <2> QED  BY <1>0, <2>1 DEF Fields
<1>3. Serves(p, q)
  BY <1>0, <1>1, Kinds DEF Answer, Serves, Shape
<1>4. pc[p] = "proposalSent" /\ game[p] = game[q]
  BY <1>0, <1>1, <1>3, Sender, Links DEF Serves, SentLink
<1>5. StageLink(q)'
  BY <1>1, <1>2, Links DEF StageLink
<1>6. OwnLink(q)'
  BY <1>0, <1>1, <1>2, Links DEF OwnLink
<1>7. BoundLink(q)'
  BY <1>1, Links DEF BoundLink
<1>8. HeardLink(p, q)'
  <2>1. /\ Offered(p)'
        /\ Introduced(p)' <=> Introduced(p)
        /\ Committed(p)' <=> Committed(p)
        /\ Disclosed(p)' <=> Disclosed(p)
    BY <1>3, <1>4, Unserved
  <2> QED  BY <1>1, <1>2, <1>4, <2>1, HeardInGame DEF HeardLink, Reached
<1>9. AskedLink(q, p)'
  BY <1>1, <1>3, <1>4, Unserved, Links DEF AskedLink
<1> QED  BY <1>3, <1>5, <1>6, <1>7, <1>8, <1>9, ServeKeeps

LEMMA OrderAcceptLock == ASSUME Calm, NEW p \in Group, AcceptLock(p)  PROVE Orderly'
<1> PICK q : q = Other(p)
  OBVIOUS
<1>0. /\ q \in Group /\ q # p /\ Other(q) = p /\ Shape /\ PeersShape
      /\ DOMAIN round[q] = Fields /\ round[q].game = game[q] /\ game[q] \in Nat
  BY Two, Known DEF Calm, SeriesInv, TermsInv
<1>1. /\ call[p].kind = "lock" /\ call[p].game = round[q].game /\ call[p].model = model[q]
      /\ freeze' = [freeze EXCEPT ![q] = {call[p].model}]
      /\ round' = [round EXCEPT ![q].locked = TRUE] /\ Answer(p, Ok)
      /\ pc' = pc /\ game' = game /\ model' = model /\ peer' = peer
      /\ owner' = owner /\ result' = result
  BY DEF AcceptLock, Receive, Admits, LockMatches, SameModel, inputs, cursor
<1>2. /\ round'[q].seen = round[q].seen /\ round'[q].opening = round[q].opening
      /\ round'[q].adopted = round[q].adopted /\ round'[q].locked = TRUE
      /\ freeze'[q] = {model[q]}
  <2>1. round'[q] = [round[q] EXCEPT !.locked = TRUE] /\ freeze'[q] = {model[q]}
    BY <1>0, <1>1 DEF Shape, PeersShape
  <2> QED  BY <1>0, <2>1 DEF Fields
<1>3. Serves(p, q)
  BY <1>0, <1>1, Kinds DEF Answer, Serves, Shape, PeersShape
<1>4. pc[p] = "lockSent" /\ game[p] = game[q]
  BY <1>0, <1>1, <1>3, Sender DEF Serves, Calm, SeriesInv, TermsInv, EvidenceLink
<1>5. StageLink(q)'
  BY <1>1, <1>2, Links DEF StageLink
<1>6. OwnLink(q)'
  BY <1>1, <1>2, Links DEF OwnLink
<1>7. BoundLink(q)'
  BY <1>1, Links DEF BoundLink
<1>8. HeardLink(p, q)'
  <2>1. /\ Committed(p)'
        /\ Introduced(p)' <=> Introduced(p)
        /\ Offered(p)' <=> Offered(p)
        /\ Disclosed(p)' <=> Disclosed(p)
    BY <1>3, <1>4, Unserved
  <2> QED  BY <1>1, <1>2, <1>4, <2>1, HeardInGame DEF HeardLink, Reached
<1>9. AskedLink(q, p)'
  BY <1>1, <1>3, <1>4, Unserved, Links DEF AskedLink
<1> QED  BY <1>3, <1>5, <1>6, <1>7, <1>8, <1>9, ServeKeeps

LEMMA OrderAcceptDisclosure == ASSUME Calm, NEW p \in Group, AcceptDisclosure(p)  PROVE Orderly'
<1> PICK q : q = Other(p)
  OBVIOUS
<1>0. /\ q \in Group /\ q # p /\ Other(q) = p /\ Shape /\ PeersShape
      /\ game[q] \in Nat /\ DOMAIN owner[q] = {"game", "audit"}
  BY Two, Known DEF Calm, SeriesInv, TermsInv, OwnerLink
<1>1. /\ call[p].kind = "disclosure" /\ owner[q] = [game |-> call[p].game, audit |-> "PLAYING"]
      /\ owner' = [owner EXCEPT ![q].audit = "COMPLETE"] /\ Answer(p, Ok)
      /\ pc' = pc /\ game' = game /\ model' = model /\ peer' = peer /\ freeze' = freeze
      /\ round' = round /\ result' = result
  BY DEF AcceptDisclosure, Receive, Admits, inputs, cursor, pregame
<1>2. /\ owner[q].game = call[p].game /\ owner[q].audit = "PLAYING"
      /\ owner'[q].game = owner[q].game /\ owner'[q].audit = "COMPLETE"
  <2>1. owner'[q] = [owner[q] EXCEPT !.audit = "COMPLETE"]
    BY <1>0, <1>1 DEF Shape
  <2> QED  BY <1>0, <1>1, <2>1
<1>3. Serves(p, q)
  BY <1>0, <1>1, Kinds DEF Answer, Serves, Shape
<1>4. pc[p] = "disclosureSent" /\ call[p].game = game[p]
  BY <1>1, <1>3, Sender, Links DEF Serves, SentLink
<1>5. owner[q].game = game[q] /\ game[p] = game[q]
  <2>1. pc[q] \in Playing
    BY <1>2, Links DEF BoundLink
  <2>2. owner[q].game = game[q]
    BY <1>0, <2>1 DEF Calm, SeriesInv, TermsInv, OwnerLink
  <2> QED  BY <1>2, <1>4, <2>2
<1>6. StageLink(q)'
  BY <1>1, Links DEF StageLink
<1>7. OwnLink(q)'
  BY <1>1, Links DEF OwnLink
<1>8. BoundLink(q)'
  BY <1>1, <1>2, Links DEF BoundLink
<1>9. HeardLink(p, q)'
  <2>1. /\ Disclosed(p)'
        /\ Introduced(p)' <=> Introduced(p)
        /\ Offered(p)' <=> Offered(p)
        /\ Committed(p)' <=> Committed(p)
    BY <1>3, <1>4, Unserved
  <2> QED  BY <1>1, <1>2, <1>5, <2>1, HeardInGame DEF HeardLink, Reached
<1>10. AskedLink(q, p)'
  BY <1>1, <1>3, <1>4, Unserved, Links DEF AskedLink
<1> QED  BY <1>3, <1>6, <1>7, <1>8, <1>9, <1>10, ServeKeeps

LEMMA OrderAcceptResult ==
  ASSUME Calm, ~Differ, NEW p \in Group, AcceptResult(p)  PROVE Orderly'
<1> PICK q : q = Other(p)
  OBVIOUS
<1>0. /\ q \in Group /\ q # p /\ Other(q) = p /\ Shape /\ PeersShape
      /\ (p = Lower /\ q = Higher) \/ (p = Higher /\ q = Lower)
      /\ Lower # Higher
  BY Two DEF Calm, SeriesInv, TermsInv
<1> DEFINE r == [result[q] EXCEPT !.stamped = TRUE, !.local = Digest(lines[q]), !.handled = TRUE]
<1>1. /\ call[p].kind = "result" /\ result[q] # None
      /\ \/ /\ ~Disagrees(r)
            /\ result' = [result EXCEPT ![q] = [Verified(r) EXCEPT !.requested = TRUE]]
            /\ Answer(p, r.local)
         \/ Disagrees(r)
      /\ pc' = pc /\ game' = game /\ model' = model /\ peer' = peer /\ freeze' = freeze
      /\ round' = round /\ owner' = owner
  BY DEF AcceptResult, Receive, Admits, inputs, cursor, pregame
<1>2. DOMAIN result[q] = ResultFields
  BY <1>0, <1>1 DEF Calm, SeriesInv, ResultLink
<1>3. /\ r.local = Digest(lines[q]) /\ r.peer = result[q].peer
      /\ DOMAIN Verified(r) = ResultFields /\ Verified(r).stamped = TRUE
  BY <1>2 DEF Verified, ResultFields
<1>4. ~Disagrees(r)
  <2> SUFFICES ASSUME result[q].peer # None  PROVE result[q].peer = Digest(lines[q])
    BY <1>3 DEF Disagrees
  <2>1. Held(p, result[q].peer)
    BY <1>0, <1>1 DEF Calm, SeriesInv, DigestLink
  <2>2. result[q].peer.kind = "digest"
    BY <2>1, Kinds DEF Held
  <2> QED  BY <1>0, <1>1, <2>1, <2>2, DigestsAgree DEF Calm
<1>5. /\ result'[q] = [Verified(r) EXCEPT !.requested = TRUE] /\ result'[p] = result[p]
      /\ Answer(p, Digest(lines[q]))
  BY <1>0, <1>1, <1>3, <1>4 DEF Shape
<1> HIDE DEF r
<1>6. /\ result'[q] # None /\ result'[q].requested = TRUE /\ result'[q].stamped = TRUE
  <2>1. DOMAIN result'[q] = ResultFields
    BY <1>3, <1>5
  <2> QED  BY <1>3, <1>5, <2>1, Bound DEF ResultFields
<1>7. Serves(p, q)
  BY <1>0, <1>1, <1>5, Kinds DEF Answer, Serves, Shape
<1>8. /\ (p = Lower /\ pc[p] = "requestSent") \/ (p = Higher /\ pc[p] = "responseSent")
      /\ pc[p] \in {"requestSent", "responseSent"}
  <2>1. pc[p] \in {"requestSent", "responseSent"}
    BY <1>1, <1>7, Sender DEF Serves
  <2> QED  BY <1>0, <2>1, Links DEF StageLink
<1>9. StageLink(q)'
  BY <1>1, Links DEF StageLink
<1>10. OwnLink(q)'
  BY <1>1, Links DEF OwnLink
<1>11. BoundLink(q)'
  BY <1>1, Links DEF BoundLink
<1>12. HeardLink(p, q)'
  <2>1. /\ Introduced(p)' <=> Introduced(p)
        /\ Offered(p)' <=> Offered(p)
        /\ Committed(p)' <=> Committed(p)
        /\ Disclosed(p)' <=> Disclosed(p)
        /\ Disclosed(q)' <=> Disclosed(q)
    BY <1>7, <1>8, Unserved
  <2> QED  BY <1>1, <2>1, Links DEF HeardLink, Reached
<1>13. AskedLink(q, p)'
  <2>1. Requested(p)'
    BY <1>7, <1>8, Unserved
  <2>2. pc[q] \in Late
    BY <1>0, <1>1, Links DEF AskedLink
  <2> QED  BY <1>1, <1>6, <2>1, <2>2 DEF AskedLink
<1> QED  BY <1>7, <1>9, <1>10, <1>11, <1>12, <1>13, ServeKeeps

(* Nothing fails of itself: whoever refuses, loses, waits too long or      *)
(* crashes leaves a cause.                                                 *)
LEMMA NothingFails ==
  ASSUME Calm, ~Differ, NEW p \in Group, causes' = {}
  PROVE  ~Refused(p) /\ ~RefuseResult(p) /\ ~Refuse(p) /\ ~Fault(p)
<1> PICK q : q = Other(p)
  OBVIOUS
<1>0. q \in Group /\ p \in Group
  BY Two
<1>1. pc[q] # "failed" /\ reply[p].kind # "error"
  BY Links DEF SentLink, Labels, Early, Opening, Proposed, Offering, Locking, Engaged, Disclosing,
     Late
<1>2. ~Refused(p)
  BY <1>1 DEF Refused
<1>3. ~RefuseResult(p)
  <2> SUFFICES ASSUME ~Clean(p)  PROVE FALSE
    BY DEF RefuseResult
  <2> QED  BY DEF Clean, Differ
<1>4. ~Refuse(p)
  <2> SUFFICES ASSUME Refuse(p)  PROVE FALSE
    OBVIOUS
  <2>1. Runnable(q)
    BY FindsItsOwner DEF Refuse, Calm
  <2> QED  BY <2>1 DEF Refuse
<1>5. ~LoseCall(p) /\ ~LoseReply(p) /\ ~Crash(p) /\ ~PersistFails(p)
  BY <1>1 DEF LoseCall, LoseReply, Crash, PersistFails
<1>6. ~Timeout(p)
  <2> SUFFICES ASSUME Timeout(p)  PROVE FALSE
    OBVIOUS
  <2>1. Runnable(q) \/ call[q] # None
    BY SomethingStirs DEF Timeout, Calm
  <2> QED  BY <1>1, <2>1 DEF Timeout
<1> QED  BY <1>2, <1>3, <1>4, <1>5, <1>6 DEF Fault

LEMMA KeepsOrder ==
  ASSUME Calm, ~Differ, [Next]_vars, causes' = {}
  PROVE  Orderly'
<1>1. ASSUME NEW p \in Group, Drive(p)  PROVE Orderly'
  BY <1>1, NothingFails, OrderSendStep0, OrderBegin, OrderSendProposal, OrderSendLock,
     OrderLockConfig, OrderSendDisclosure, OrderClose, OrderBuildResult, OrderSendResponse,
     OrderAnswered, OrderDigestReturned, OrderPersist DEF Drive
<1>2. ASSUME NEW p \in Group, Serve(p)  PROVE Orderly'
  BY <1>2, NothingFails, OrderAcceptStep0, OrderAcceptProposal, OrderAcceptLock,
     OrderAcceptDisclosure, OrderAcceptResult DEF Serve
<1>3. ASSUME NEW p \in Group, Fault(p)  PROVE Orderly'
  BY <1>3, NothingFails
<1>4. CASE UNCHANGED vars
  <2>1. \A p \in Group : Idle(p) /\ SameThrough(p) /\ Moves(p)
    BY <1>4, Links DEF vars, inputs, cursor, pregame, network, Idle, Moves, SameThrough,
       Introduced, Offered, Committed, Disclosed, Requested, Through, AskedLink
  <2>2. PICK p \in Group : TRUE
    BY DEF Group
  <2>3. /\ SentLink(p)' /\ StageLink(p)' /\ round'[p] = round[p] /\ pc'[p] = pc[p]
        /\ Idle(Other(p)) /\ Moves(p)
    BY <2>1, <2>2, IdleKeeps, Two DEF Idle
  <2> QED  BY <2>2, <2>3, TalkKeeps
<1>5. CASE Finished
  BY <1>4, <1>5 DEF Finished
<1> QED  BY <1>1, <1>2, <1>3, <1>4, <1>5 DEF Next

LEMMA KeepsPeersShape ==
  ASSUME Shape, OwnerLink, PeersShape, [Next]_vars
  PROVE  PeersShape'
<1>1. \/ peer' = peer
      \/ \E q \in Group : peer' = [peer EXCEPT ![q] = TRUE]
  <2>1. ASSUME NEW p \in Group, Drive(p)  PROVE peer' = peer
    BY <2>1 DEF Drive, SendStep0, Begin, SendProposal, SendLock, LockConfig, SendDisclosure, Close,
       CloseWith, BuildResult, RefuseResult, SendResponse, Answered, DigestReturned, Refused,
       Persist, pregame
  <2>2. ASSUME NEW p \in Group, Serve(p)
        PROVE  peer' = peer \/ \E q \in Group : peer' = [peer EXCEPT ![q] = TRUE]
    BY <2>2, Two DEF Serve, AcceptStep0, AcceptProposal, AcceptLock, AcceptDisclosure,
       AcceptResult, Refuse, pregame
  <2>3. ASSUME NEW p \in Group, Fault(p)  PROVE peer' = peer
    BY <2>3 DEF Fault, LoseCall, LoseReply, Timeout, Crash, PersistFails, pregame
  <2>4. Finished \/ UNCHANGED vars => peer' = peer
    BY DEF Finished, vars, pregame
  <2> QED  BY <2>1, <2>2, <2>3, <2>4 DEF Next
<1>2. \/ freeze' = freeze
      \/ \E q \in Group : \E m : freeze' = [freeze EXCEPT ![q] = {m}]
  <2>1. ASSUME NEW p \in Group, Drive(p)  PROVE freeze' = freeze
    BY <2>1 DEF Drive, SendStep0, Begin, SendProposal, SendLock, LockConfig, SendDisclosure, Close,
       CloseWith, BuildResult, RefuseResult, SendResponse, Answered, DigestReturned, Refused,
       Persist, pregame
  <2>2. ASSUME NEW p \in Group, Serve(p)
        PROVE  freeze' = freeze \/ \E q \in Group : \E m : freeze' = [freeze EXCEPT ![q] = {m}]
    BY <2>2, Two DEF Serve, AcceptStep0, AcceptProposal, AcceptLock, AcceptDisclosure,
       AcceptResult, Refuse, pregame
  <2>3. ASSUME NEW p \in Group, Fault(p)  PROVE freeze' = freeze
    BY <2>3 DEF Fault, LoseCall, LoseReply, Timeout, Crash, PersistFails, pregame
  <2>4. Finished \/ UNCHANGED vars => freeze' = freeze
    BY DEF Finished, vars, pregame
  <2> QED  BY <2>1, <2>2, <2>3, <2>4 DEF Next
<1>3. \/ owner' = owner
      \/ \E q \in Group : \E g : owner' = [owner EXCEPT ![q] = [game |-> g, audit |-> "PLAYING"]]
      \/ \E q \in Group : owner' = [owner EXCEPT ![q].audit = "COMPLETE"]
  <2>1. ASSUME NEW p \in Group, Drive(p)
        PROVE  \/ owner' = owner
               \/ owner' = [owner EXCEPT ![p] = [game |-> game[p], audit |-> "PLAYING"]]
    BY <2>1 DEF Drive, SendStep0, Begin, SendProposal, SendLock, LockConfig, SendDisclosure, Close,
       CloseWith, BuildResult, RefuseResult, SendResponse, Answered, DigestReturned, Refused,
       Persist
  <2>2. ASSUME NEW p \in Group, Serve(p)
        PROVE  owner' = owner \/ \E q \in Group : owner' = [owner EXCEPT ![q].audit = "COMPLETE"]
    BY <2>2, Two DEF Serve, AcceptStep0, AcceptProposal, AcceptLock, AcceptDisclosure,
       AcceptResult, Refuse
  <2>3. ASSUME NEW p \in Group, Fault(p)  PROVE owner' = owner
    BY <2>3 DEF Fault, LoseCall, LoseReply, Timeout, Crash, PersistFails
  <2>4. Finished \/ UNCHANGED vars => owner' = owner
    BY DEF Finished, vars
  <2> QED  BY <2>1, <2>2, <2>3, <2>4 DEF Next
<1>4. peer' = [p \in Group |-> peer'[p]]
  BY <1>1 DEF PeersShape
<1>5. freeze' = [p \in Group |-> freeze'[p]]
  BY <1>2 DEF PeersShape
<1>6. ASSUME NEW p \in Group
      PROVE  owner'[p] = [game |-> owner'[p].game, audit |-> owner'[p].audit]
  <2>1. owner[p] = [game |-> owner[p].game, audit |-> owner[p].audit]
    BY DEF PeersShape
  <2>2. CASE owner' = owner
    BY <2>1, <2>2
  <2>3. ASSUME NEW q \in Group, NEW g,
               owner' = [owner EXCEPT ![q] = [game |-> g, audit |-> "PLAYING"]]
        PROVE  owner'[p] = [game |-> owner'[p].game, audit |-> owner'[p].audit]
    <3>1. owner'[p] = IF p = q THEN [game |-> g, audit |-> "PLAYING"] ELSE owner[p]
      BY <2>3 DEF Shape
    <3> QED  BY <2>1, <3>1
  <2>4. ASSUME NEW q \in Group, owner' = [owner EXCEPT ![q].audit = "COMPLETE"]
        PROVE  owner'[p] = [game |-> owner'[p].game, audit |-> owner'[p].audit]
    <3>1. CASE p = q
      <4>1. owner'[p] = [owner[p] EXCEPT !.audit = "COMPLETE"]
        BY <2>4, <3>1 DEF Shape
      <4>2. owner'[p] = [game |-> owner[p].game, audit |-> "COMPLETE"]
        BY <2>1, <4>1
      <4> QED  BY <4>2
    <3>2. CASE p # q
      <4>1. owner'[p] = owner[p]
        BY <2>4, <3>2 DEF Shape
      <4> QED  BY <2>1, <4>1
    <3> QED  BY <3>1, <3>2
  <2> QED  BY <1>3, <2>2, <2>3, <2>4
<1> QED  BY <1>4, <1>5, <1>6 DEF PeersShape

LEMMA InitCauses == Init => CauseInv
<1> SUFFICES ASSUME Init  PROVE CauseInv
  OBVIOUS
<1>1. PeersShape
  BY DEF Init, PeersShape
<1>2. Orderly
  <2> SUFFICES ASSUME NEW p \in Group, NEW q, q = Other(p)
               PROVE  /\ SentLink(p) /\ StageLink(p) /\ OwnLink(p) /\ BoundLink(p)
                      /\ HeardLink(p, q) /\ AskedLink(p, q)
    BY DEF Orderly
  <2>0. q \in Group
    BY Two
  <2>1. /\ pc[p] = "boot" /\ pc[q] = "boot" /\ game[p] = 1 /\ game[q] = 1
        /\ ~peer[q] /\ round[p] = NewRound(1) /\ round[q] = NewRound(1) /\ freeze[p] = {}
        /\ owner[p].game = 0 /\ owner[p].audit = "UNBOUND" /\ owner[q].game = 0
        /\ result[p] = None /\ call[p] = None /\ reply[p] = None
    BY <2>0 DEF Init
  <2>2. /\ round[p].seen = {} /\ round[p].opening = TRUE /\ round[p].locked = FALSE
        /\ round[q].seen = {} /\ round[q].locked = FALSE
    BY <2>1 DEF NewRound
  <2> USE DEF Labels, Early, Opening, Proposed, Offering, Locking, Engaged, Disclosing, Late,
     Calling, Playing
  <2>3. SentLink(p)
    BY <2>1, Kinds DEF SentLink
  <2>4. StageLink(p)
    BY <2>1 DEF StageLink
  <2>5. OwnLink(p)
    BY <2>1, <2>2 DEF OwnLink
  <2>6. BoundLink(p)
    BY <2>1 DEF BoundLink
  <2>7. ~Introduced(p) /\ ~Offered(p) /\ ~Committed(p) /\ ~Disclosed(p) /\ ~Requested(q)
    BY <2>1 DEF Introduced, Offered, Committed, Disclosed, Requested, Through
  <2>8. HeardLink(p, q)
    BY <2>1, <2>2, <2>7 DEF HeardLink, Reached
  <2>9. AskedLink(p, q)
    BY <2>1, <2>7 DEF AskedLink
  <2> QED  BY <2>3, <2>4, <2>5, <2>6, <2>8, <2>9
<1> QED  BY <1>1, <1>2, InitSeries DEF CauseInv, CauseLink

LEMMA KeepsCauses == CauseInv /\ [Next]_vars => CauseInv'
<1> SUFFICES ASSUME CauseInv, [Next]_vars  PROVE CauseInv'
  OBVIOUS
<1>1. SeriesInv'
  BY KeepsSeries DEF CauseInv
<1>2. PeersShape'
  BY KeepsPeersShape DEF CauseInv, SeriesInv, TermsInv
<1>3. CauseLink'
  <2> SUFFICES ASSUME causes' = {}, ~Differ'  PROVE Orderly'
    BY DEF CauseLink
  <2>1. causes = {} /\ ~Differ
    BY CausesStay DEF CauseInv
  <2>2. Calm
    BY <2>1 DEF CauseInv, CauseLink, Calm
  <2> QED  BY <2>1, <2>2, KeepsOrder
<1> QED  BY <1>1, <1>2, <1>3 DEF CauseInv

(* Nothing else goes wrong: a driver that failed lost a message, its peer  *)
(* or a write, or was overtaken, or the two sides really differ. Two       *)
(* honest drivers (`SeriesDriver`, `PregameSessionRuntime`) never refuse   *)
(* each other a request they are ready for and never wait on each other    *)
(* for good, in a series of any length.                                    *)
THEOREM FailuresHaveCauses == Spec => []FailureHasCause
<1>1. CauseInv => FailureHasCause
  BY DEF CauseInv, CauseLink, FailureHasCause, Orderly, SentLink, Labels, Early, Opening, Proposed,
     Offering, Locking, Engaged, Disclosing, Late
<1> QED  BY <1>1, InitCauses, KeepsCauses, PTL DEF Spec
=============================================================================
