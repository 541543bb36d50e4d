--------------------------- MODULE SeriesProtocol ---------------------------
(***************************************************************************)
(* A whole series between two peer processes: Step-0, one config round and *)
(* one sub-game after another, the result agreement and the official       *)
(* files. `AutonomousBoot.run`, `SeriesDriver` and `SeriesRuntime` are the *)
(* outbound side; `PregameSessionRuntime`, the bound sub-game owners and   *)
(* `ResultExchange` behind the peer server are the inbound side.           *)
(*                                                                         *)
(* As in TurnExchange a process is one asyncio loop, a driver segment      *)
(* between two awaits is one action, a handler is one action, and a driver *)
(* has one request outstanding. A sub-game is its last message here, the   *)
(* disclosure, admitted once the receiver has bound that sub-game: the     *)
(* rounds before it are TurnExchange. What a side records of a sub-game is *)
(* its own choice, so two sides may disagree.                              *)
(***************************************************************************)
EXTENDS Naturals, Sequences, FiniteSets

CONSTANTS NumGames,   \* `SeriesConfig.num_games`
          Configs,    \* candidate configs a process may be started with
          Models      \* scent models a process may be started with

ASSUME SeriesAssumption == NumGames \in Nat \ {0}

Lower == "lower"      \* the byte-wise lower group_id: opens rounds, proposes the timestamp
Higher == "higher"
Group == {Lower, Higher}
Other(p) == IF p = Lower THEN Higher ELSE Lower

VARIABLES
  config,    \* `SeriesDriver.config`: the boot input
  model,     \* the scent model the negotiation and lock runtimes hold
  pc,        \* where each driver is suspended or about to run
  phase,     \* `LocalOrchestrator.machine.phase`
  game,      \* `LocalOrchestrator.sub_game`
  peer,      \* the Step-0 of the other side verified, its session authenticated
  round,     \* `PregameSessionRuntime`: the open config round
  freeze,    \* `PregameSessionRuntime.scent_freeze`
  owner,     \* the sub-game and audit bound in `ActiveRuntimeContext`
  lines,     \* `SeriesRuntime.lines`, with `SeriesAuditGate.outcomes`
  result,    \* `ActiveRuntimeContext.result`: the `ResultExchange`
  files,     \* the artifact store
  call,      \* the driver's outstanding request, in the network
  reply,     \* its answer, in the network
  deadline,  \* `PeerDeadline.held`: the bound of its requests
  causes     \* history: why an honest series may fail

inputs == <<config, model>>
cursor == <<phase, game>>
pregame == <<peer, round, freeze>>
network == <<call, reply, deadline>>
vars == <<inputs, pc, cursor, pregame, owner, lines, result, files, network, causes>>

-----------------------------------------------------------------------------
(* Values.                                                                 *)

Games == 1 .. NumGames
None == [kind |-> "none"]
Outcomes == {"capture", "survival", "tampered"}

(* Mutant: the digest covers the outcome of the last sub-game only.        *)
DigestOfLast(facts) == [kind |-> "digest", facts |-> <<facts[Len(facts)]>>]

(* A digest is the facts it covers: hashing is taken to be injective.      *)
Digest(facts) == [kind |-> "digest", facts |-> facts]

(* What `open_round` installs: nothing of the previous round survives.     *)
NewRound(g) == [game |-> g, opening |-> TRUE, seen |-> {}, adopted |-> None, locked |-> FALSE]

NewResult ==
  [kind |-> "bound", stamped |-> FALSE, local |-> None, peer |-> None, sent |-> FALSE,
   handled |-> FALSE, verified |-> FALSE, requested |-> FALSE]

Document(name, g) == [name |-> name, game |-> g]
Official ==
  {Document("declaration", 0)}
  \cup {Document(name, g) : name \in {"config", "log"}, g \in Games}

Suspended == {"awaitStep0", "awaitOpening", "awaitProposal", "awaitLock", "awaitAudit",
              "awaitRequest", "awaitResponse"}
Calling == {"step0Sent", "proposalSent", "lockSent", "disclosureSent", "requestSent",
            "responseSent"}
Ready == {"boot", "propose", "play", "result", "persist"}
Final == {"done", "failed"}

AfterCall ==
  [step0Sent |-> "awaitStep0", proposalSent |-> "awaitProposal", lockSent |-> "awaitLock",
   disclosureSent |-> "awaitAudit", requestSent |-> "awaitResponse", responseSent |-> "persist"]

(* Where `agree_config` starts: only the lower group may open the round.   *)
Negotiating(p) == IF p = Lower THEN "propose" ELSE "awaitOpening"

(* The milestone the suspended driver of p waits for is already recorded.  *)
Arrived(p) ==
  \/ pc[p] = "awaitStep0" /\ peer[p]
  \/ pc[p] \in {"awaitOpening", "awaitProposal"} /\ Other(p) \in round[p].seen
  \/ pc[p] = "awaitLock" /\ round[p].locked
  \/ pc[p] = "awaitAudit" /\ owner[p].audit = "COMPLETE"
  \/ pc[p] \in {"awaitRequest", "awaitResponse"} /\ result[p].requested

(* p's own driver could run before any new message reaches it.             *)
Runnable(p) == pc[p] \in Ready \/ Arrived(p) \/ reply[p] # None

Init ==
  /\ config \in [Group -> Configs]
  /\ model \in [Group -> Models]
  /\ pc = [p \in Group |-> "boot"]
  /\ phase = [p \in Group |-> "BOOT"]
  /\ game = [p \in Group |-> 1]
  /\ peer = [p \in Group |-> FALSE]
  /\ round = [p \in Group |-> NewRound(1)]
  /\ freeze = [p \in Group |-> {}]
  /\ owner = [p \in Group |-> [game |-> 0, audit |-> "UNBOUND"]]
  /\ lines = [p \in Group |-> <<>>]
  /\ result = [p \in Group |-> None]
  /\ files = [p \in Group |-> {}]
  /\ call = [p \in Group |-> None]
  /\ reply = [p \in Group |-> None]
  /\ deadline = [p \in Group |-> "window"]
  /\ causes = {}

Goto(p, label) == pc' = [pc EXCEPT ![p] = label]

(* `PeerDeadline.seconds`, read at every request: the negotiation window   *)
(* until a lock was verified, and from then on the agreed bound, which the *)
(* opening of a later round does not take back.                            *)
Seconds(p) == IF round[p].locked THEN "agreed" ELSE deadline[p]

Send(p, message, waiting) ==
  /\ call' = [call EXCEPT ![p] = message]
  /\ deadline' = [deadline EXCEPT ![p] = Seconds(p)]
  /\ Goto(p, waiting)
  /\ UNCHANGED <<reply, causes>>

(* `_ALLOWED`, for the phases a series goes through. `READY` may also lead *)
(* to the phases of a turn, which no caller enters, and most phases to the *)
(* fault phases, which the driver leaves to its exceptions.                *)
Successors ==
  [BOOT |-> {"STEP0_NEGOTIATION"}, STEP0_NEGOTIATION |-> {"CONFIG_NEGOTIATION"},
   CONFIG_NEGOTIATION |-> {"CONFIG_LOCKED"}, CONFIG_LOCKED |-> {"READY"},
   READY |-> {"SUBGAME_COMPLETE"}, SUBGAME_COMPLETE |-> {"READY", "SERIES_COMPLETE"},
   SERIES_COMPLETE |-> {"FINAL_AUDIT"}, FINAL_AUDIT |-> {"REPORT_READY"}, REPORT_READY |-> {}]

(* `SeriesRuntime._advance`, target by target. A step that is no edge of   *)
(* the graph raises; a driver that took one would be stuck here.           *)
AdvanceTo(p, targets) ==
  LET passed == <<phase[p]>> \o targets
  IN /\ \A i \in 1 .. Len(targets) : passed[i + 1] \in Successors[passed[i]]
     /\ phase' = [phase EXCEPT ![p] = passed[Len(passed)]]

Store(p, documents) == files' = [files EXCEPT ![p] = @ \cup documents]

-----------------------------------------------------------------------------
(* The driver of p, one action per segment between two awaits.             *)

(* `SeriesRuntime.start`; the phase moves when the request is answered.    *)
SendStep0(p) ==
  /\ pc[p] = "boot"
  /\ Send(p, [kind |-> "step0"], "step0Sent")
  /\ UNCHANGED <<inputs, cursor, pregame, owner, lines, result, files>>

Candidate(p) == [kind |-> "config", value |-> config[p]]

(* Mutant: a driver always opens a fresh round for the sub-game it is on.  *)
ReopenedRound(p, g) == [NewRound(g) EXCEPT !.adopted = Candidate(p)]

(* `open_round_for`: the round already open is kept, only its candidate is *)
(* adopted; any other round is replaced.                                   *)
OpenedRound(p, g) ==
  [(IF round[p].game = g THEN round[p] ELSE NewRound(g)) EXCEPT !.adopted = Candidate(p)]

(* `SeriesDriver.open`: before the first sub-game, and when the one before *)
(* closes.                                                                 *)
OpenRound(p, g) == round' = [round EXCEPT ![p] = OpenedRound(p, g)]

(* Woken by `step0_seen`: open the first round, write the declaration.     *)
Begin(p) ==
  /\ pc[p] = "awaitStep0"
  /\ peer[p]
  /\ OpenRound(p, game[p])
  /\ Store(p, {Document("declaration", 0)})
  /\ Goto(p, Negotiating(p))
  /\ UNCHANGED <<inputs, cursor, peer, freeze, owner, lines, result, network, causes>>

(* `propose`: the open round, with the model this side expects.            *)
Proposal(p) == [kind |-> "proposal", game |-> round[p].game, model |-> model[p]]

(* `prepare_proposal` records our own proposal before it is sent. Only the *)
(* lower group may be first, so the higher one waits for `proposal_seen`.  *)
SendProposal(p) ==
  /\ pc[p] = "propose" \/ (pc[p] = "awaitOpening" /\ Arrived(p))
  /\ p \notin round[p].seen
  /\ round[p].opening => p = Lower
  /\ round' = [round EXCEPT ![p].seen = @ \cup {p}, ![p].opening = FALSE]
  /\ Send(p, Proposal(p), "proposalSent")
  /\ UNCHANGED <<inputs, cursor, peer, freeze, owner, lines, result, files>>

(* `ConfigLockRuntime.outbound`: evidence over the digest of our own       *)
(* config and of our own model, neither of them received.                  *)
Evidence(p) ==
  [kind |-> "lock", game |-> round[p].game, model |-> model[p], digest |-> round[p].adopted]

(* Woken by `proposal_seen`: our evidence goes out.                        *)
SendLock(p) ==
  /\ pc[p] = "awaitProposal"
  /\ Arrived(p)
  /\ round[p].adopted # None
  /\ Send(p, Evidence(p), "lockSent")
  /\ UNCHANGED <<inputs, cursor, pregame, owner, lines, result, files>>

(* `ConfigLockGate.may_lock`: the driver asks after its own evidence went  *)
(* out, so what is open is the peer's and that the config is still ours.   *)
MayLock(p) == round[p].locked /\ round[p].adopted = Candidate(p)

(* Woken by `lock_verified`: record the lock, bind the sub-game's owners   *)
(* and start to play. Only the first lock moves the phase machine.         *)
LockConfig(p) ==
  /\ pc[p] = "awaitLock"
  /\ MayLock(p)
  /\ AdvanceTo(p, IF phase[p] = "STEP0_NEGOTIATION"
                  THEN <<"CONFIG_NEGOTIATION", "CONFIG_LOCKED", "READY">> ELSE <<>>)
  /\ Store(p, {Document("config", game[p])})
  /\ owner' = [owner EXCEPT ![p] = [game |-> game[p], audit |-> "PLAYING"]]
  /\ Goto(p, "play")
  /\ UNCHANGED <<inputs, game, pregame, lines, result, network, causes>>

(* The sub-game was played; our disclosure closes it.                      *)
SendDisclosure(p) ==
  /\ pc[p] = "play"
  /\ Send(p, [kind |-> "disclosure", game |-> game[p]], "disclosureSent")
  /\ UNCHANGED <<inputs, cursor, pregame, owner, lines, result, files>>

LastGame(g) == g = NumGames

(* `close_sub_game`: review, log, line, cursor; then the next round opens  *)
(* in the same segment, or the series is complete.                         *)
CloseWith(p, outcome) ==
  /\ Len(lines[p]) = game[p] - 1
  /\ lines' = [lines EXCEPT ![p] = Append(@, outcome)]
  /\ Store(p, {Document("log", game[p])})
  /\ IF LastGame(game[p])
     THEN /\ AdvanceTo(p, <<"SUBGAME_COMPLETE", "SERIES_COMPLETE">>)
          /\ Goto(p, "result")
          /\ UNCHANGED <<game, round>>
     ELSE /\ AdvanceTo(p, <<"SUBGAME_COMPLETE", "READY">>)
          /\ game' = [game EXCEPT ![p] = @ + 1]
          /\ OpenRound(p, game[p] + 1)
          /\ Goto(p, Negotiating(p))
  /\ UNCHANGED <<inputs, peer, freeze, owner, result, network, causes>>

(* Woken by `complete`: the peer's disclosure was audited.                 *)
Close(p) ==
  /\ pc[p] = "awaitAudit"
  /\ Arrived(p)
  /\ \E outcome \in Outcomes : CloseWith(p, outcome)

(* `SeriesAuditGate.verdict`: every sub-game's audit passed.               *)
Clean(p) == \A k \in 1 .. Len(lines[p]) : lines[p][k] # "tampered"

(* `ResultAgreementRuntime.request`: our one request, with the timestamp.  *)
ResultRequest(stamped) == [kind |-> "result", stamped |-> stamped]

(* `build_result` binds the exchange, then asks the series audit; a clean  *)
(* series goes on to `agree_result`.                                       *)
BuildResult(p) ==
  /\ pc[p] = "result"
  /\ Clean(p)
  /\ result' = [result EXCEPT ![p] = [NewResult EXCEPT !.stamped = (p = Lower)]]
  /\ AdvanceTo(p, <<"FINAL_AUDIT">>)
  /\ IF p = Lower
     THEN Send(p, ResultRequest(TRUE), "requestSent")
     ELSE Goto(p, "awaitRequest") /\ UNCHANGED <<network, causes>>
  /\ UNCHANGED <<inputs, game, pregame, owner, lines, files>>

(* A tampered series is refused, but only after the exchange was bound.    *)
RefuseResult(p) ==
  /\ pc[p] = "result"
  /\ ~Clean(p)
  /\ result' = [result EXCEPT ![p] = NewResult]
  /\ Goto(p, "failed")
  /\ UNCHANGED <<inputs, cursor, pregame, owner, lines, files, network, causes>>

(* Woken by `requested`: the higher group echoes the adopted timestamp.    *)
SendResponse(p) ==
  /\ pc[p] = "awaitRequest"
  /\ Arrived(p)
  /\ Send(p, ResultRequest(result[p].stamped), "responseSent")
  /\ UNCHANGED <<inputs, cursor, pregame, owner, lines, result, files>>

(* A completion without a value. Step-0 alone moves the phase on return.   *)
Answered(p) ==
  /\ pc[p] \in Calling
  /\ reply[p].kind = "ok"
  /\ reply' = [reply EXCEPT ![p] = None]
  /\ Goto(p, AfterCall[pc[p]])
  /\ AdvanceTo(p, IF pc[p] = "step0Sent" THEN <<"STEP0_NEGOTIATION">> ELSE <<>>)
  /\ UNCHANGED <<inputs, game, pregame, owner, lines, result, files, call, deadline, causes>>

(* Two digests are held and they differ: E-REPORT-DISAGREE.                *)
Disagrees(r) == r.local # None /\ r.peer # None /\ r.local # r.peer

(* `_verify`: the direction is verified once both digests exist.           *)
Verified(r) == [r EXCEPT !.verified = r.local # None /\ r.peer # None]

(* `_send`: retain the digest our request was answered with, then compare. *)
DigestReturned(p) ==
  LET r == [result[p] EXCEPT !.peer = reply[p], !.sent = TRUE]
  IN /\ pc[p] \in Calling
     /\ reply[p].kind = "digest"
     /\ reply' = [reply EXCEPT ![p] = None]
     /\ result' = [result EXCEPT ![p] = IF Disagrees(r) THEN r ELSE Verified(r)]
     /\ Goto(p, IF Disagrees(r) THEN "failed" ELSE AfterCall[pc[p]])
     /\ UNCHANGED <<inputs, cursor, pregame, owner, lines, files, call, deadline, causes>>

(* A refusal or a transport failure leaves the driver by an exception.     *)
Refused(p) ==
  /\ pc[p] \in Calling
  /\ reply[p].kind = "error"
  /\ reply' = [reply EXCEPT ![p] = None]
  /\ Goto(p, "failed")
  /\ UNCHANGED <<inputs, cursor, pregame, owner, lines, result, files, call, deadline, causes>>

(* `ResultExchange.is_agreed`: both directions done, digests equal.        *)
Agreed(p) ==
  /\ result[p].verified
  /\ result[p].local # None
  /\ result[p].local = result[p].peer
  /\ result[p].sent
  /\ result[p].handled

(* `persist_result` moves the phase before it writes; the driver returns.  *)
Persist(p) ==
  /\ pc[p] = "persist" \/ (pc[p] = "awaitResponse" /\ Arrived(p))
  /\ Agreed(p)
  /\ AdvanceTo(p, <<"REPORT_READY">>)
  /\ Store(p, {Document("result", 0)})
  /\ Goto(p, "done")
  /\ UNCHANGED <<inputs, game, pregame, owner, lines, result, network, causes>>

(* The write fails after the phase moved: REPORT_READY without a result.   *)
PersistFails(p) ==
  /\ pc[p] = "persist" \/ (pc[p] = "awaitResponse" /\ Arrived(p))
  /\ Agreed(p)
  /\ AdvanceTo(p, <<"REPORT_READY">>)
  /\ Goto(p, "failed")
  /\ causes' = causes \cup {"fault"}
  /\ UNCHANGED <<inputs, game, pregame, owner, lines, result, files, network>>

-----------------------------------------------------------------------------
(* The peer server of q = Other(p): one synchronous handler per request.   *)

Answer(p, message) ==
  /\ call' = [call EXCEPT ![p] = None]
  /\ reply' = [reply EXCEPT ![p] = message]
  /\ UNCHANGED deadline

Ok == [kind |-> "ok"]
Error == [kind |-> "error"]

(* `compare_models`: values, rendering and digest, all of our own making.  *)
SameModel(q, m) == m.model = model[q]

(* `SeriesScentFreeze.established`: the first lock freezes its model for   *)
(* the series, a later one may not change it.                              *)
KeepsFreeze(q, m) == freeze[q] \subseteq {m.model}

(* Mutant: evidence is not compared with our own digest of our own config. *)
LockForRound(q, m) == m.game = round[q].game /\ SameModel(q, m)

(* `ConfigLockRuntime.accept` and the series-wide freeze.                  *)
LockMatches(q, m) ==
  /\ m.game = round[q].game
  /\ m.digest = round[q].adopted
  /\ SameModel(q, m)
  /\ KeepsFreeze(q, m)

(* `ConfigNegotiationRuntime.accept`: the round, the proposer rule, one    *)
(* proposal each, the scent model. The configs themselves are not compared *)
(* before the lock.                                                        *)
ProposalMatches(q, m) ==
  /\ m.game = round[q].game
  /\ IF round[q].opening THEN Other(q) = Lower ELSE Other(q) \notin round[q].seen
  /\ SameModel(q, m)

(* `ResultAgreementRuntime.accept`: the proposer's timestamp comes first   *)
(* and is echoed, never chosen again.                                      *)
RequestMatches(q, m) == IF result[q].stamped THEN m.stamped ELSE Other(q) = Lower

(* Whether q's owner admits the request; everything else is refused. Any   *)
(* request but Step-0 needs a session that Step-0 authenticated.           *)
Admits(q, m) ==
  \/ m.kind = "step0" /\ ~peer[q]
  \/ m.kind = "proposal" /\ peer[q] /\ ProposalMatches(q, m)
  \/ m.kind = "lock" /\ peer[q] /\ round[q].adopted # None /\ LockMatches(q, m)
  \/ m.kind = "disclosure" /\ peer[q] /\ owner[q] = [game |-> m.game, audit |-> "PLAYING"]
  \/ m.kind = "result" /\ peer[q] /\ result[q] # None /\ RequestMatches(q, m)

Receive(p, kind) ==
  /\ call[p].kind = kind
  /\ Admits(Other(p), call[p])

AcceptStep0(p) ==
  /\ Receive(p, "step0")
  /\ peer' = [peer EXCEPT ![Other(p)] = TRUE]
  /\ Answer(p, Ok)
  /\ UNCHANGED <<inputs, pc, cursor, round, freeze, owner, lines, result, files, causes>>

AcceptProposal(p) ==
  /\ Receive(p, "proposal")
  /\ round' = [round EXCEPT ![Other(p)].seen = @ \cup {p}, ![Other(p)].opening = FALSE]
  /\ Answer(p, Ok)
  /\ UNCHANGED <<inputs, pc, cursor, peer, freeze, owner, lines, result, files, causes>>

AcceptLock(p) ==
  /\ Receive(p, "lock")
  /\ freeze' = [freeze EXCEPT ![Other(p)] = {call[p].model}]
  /\ round' = [round EXCEPT ![Other(p)].locked = TRUE]
  /\ Answer(p, Ok)
  /\ UNCHANGED <<inputs, pc, cursor, peer, owner, lines, result, files, causes>>

AcceptDisclosure(p) ==
  /\ Receive(p, "disclosure")
  /\ owner' = [owner EXCEPT ![Other(p)].audit = "COMPLETE"]
  /\ Answer(p, Ok)
  /\ UNCHANGED <<inputs, pc, cursor, pregame, lines, result, files, causes>>

(* `accept_peer_request` adopts the timestamp, computes its own digest and *)
(* marks the request handled before it compares: a disagreement is refused *)
(* with all that recorded and without the milestone.                       *)
AcceptResult(p) ==
  LET q == Other(p)
      r == [result[q] EXCEPT !.stamped = TRUE, !.local = Digest(lines[q]), !.handled = TRUE]
  IN /\ Receive(p, "result")
     /\ \/ /\ ~Disagrees(r)
           /\ result' = [result EXCEPT ![q] = [Verified(r) EXCEPT !.requested = TRUE]]
           /\ Answer(p, r.local)
        \/ /\ Disagrees(r)
           /\ result' = [result EXCEPT ![q] = r]
           /\ Answer(p, Error)
     /\ UNCHANGED <<inputs, pc, cursor, pregame, owner, lines, files, causes>>

(* A request no owner admits. The history variable records whether it came *)
(* while the receiver's own driver still had something it could do.        *)
Refuse(p) ==
  /\ call[p] # None
  /\ ~Admits(Other(p), call[p])
  /\ Answer(p, Error)
  /\ causes' = IF Runnable(Other(p)) THEN causes \cup {"overtaken"} ELSE causes
  /\ UNCHANGED <<inputs, pc, cursor, pregame, owner, lines, result, files>>

-----------------------------------------------------------------------------
(* Faults and deadlines.                                                   *)

(* The request, or the answer to a request already served, never arrives.  *)
LoseCall(p) ==
  /\ call[p] # None
  /\ Answer(p, Error)
  /\ causes' = IF pc[Other(p)] = "failed" THEN causes ELSE causes \cup {"fault"}
  /\ UNCHANGED <<inputs, pc, cursor, pregame, owner, lines, result, files>>

LoseReply(p) ==
  /\ reply[p].kind \in {"ok", "digest"}
  /\ reply' = [reply EXCEPT ![p] = Error]
  /\ causes' = IF pc[Other(p)] = "failed" THEN causes ELSE causes \cup {"fault"}
  /\ UNCHANGED <<inputs, pc, cursor, pregame, owner, lines, result, files, call, deadline>>

Waiting(p) == pc[p] \in Suspended

(* `wait_for` gives up on a milestone that is not recorded. It is a fault  *)
(* if something could still have happened: a peer slower than the deadline.*)
(* A wait nobody could ever end is not explained by its deadline.          *)
Timeout(p) ==
  /\ Waiting(p)
  /\ ~Arrived(p)
  /\ Goto(p, "failed")
  /\ causes' = IF pc[Other(p)] # "failed" /\ (Runnable(Other(p)) \/ call[Other(p)] # None)
               THEN causes \cup {"fault"} ELSE causes
  /\ UNCHANGED <<inputs, cursor, pregame, owner, lines, result, files, network>>

(* The process of p dies, or its driver raised; nothing is resumed.        *)
Crash(p) ==
  /\ pc[p] \notin Final
  /\ Goto(p, "failed")
  /\ Answer(p, None)
  /\ causes' = causes \cup {"fault"}
  /\ UNCHANGED <<inputs, cursor, pregame, owner, lines, result, files>>

Finished ==
  /\ \A p \in Group : pc[p] \in Final
  /\ UNCHANGED vars

-----------------------------------------------------------------------------
Drive(p) ==
  \/ SendStep0(p) \/ Begin(p) \/ SendProposal(p) \/ SendLock(p) \/ LockConfig(p)
  \/ SendDisclosure(p) \/ Close(p) \/ BuildResult(p) \/ RefuseResult(p) \/ SendResponse(p)
  \/ Answered(p) \/ DigestReturned(p) \/ Refused(p) \/ Persist(p)

Serve(p) ==
  \/ AcceptStep0(p) \/ AcceptProposal(p) \/ AcceptLock(p) \/ AcceptDisclosure(p)
  \/ AcceptResult(p) \/ Refuse(p)

Fault(p) == LoseCall(p) \/ LoseReply(p) \/ Timeout(p) \/ Crash(p) \/ PersistFails(p)

Next == (\E p \in Group : Drive(p) \/ Serve(p) \/ Fault(p)) \/ Finished

(* A runnable driver is scheduled, a request is answered or its session    *)
(* deadline passes, and a wait that stays unanswered reaches its deadline. *)
Fairness ==
  \A p \in Group : /\ WF_vars(Drive(p) \/ PersistFails(p))
                   /\ WF_vars(Serve(p) \/ LoseCall(p))
                   /\ WF_vars(Timeout(p))

Spec == Init /\ [][Next]_vars /\ Fairness

-----------------------------------------------------------------------------
(* Properties.                                                             *)

(* No sub-game is played on terms the other side does not hold: a side     *)
(* that bound a sub-game and wrote its config holds the config and the     *)
(* model the other was started with, and the other had converged on the    *)
(* same round, although proposals never compare the configs.               *)
AgreedBeforePlay ==
  \A p \in Group :
    /\ owner[p].game # 0 => config[Lower] = config[Higher] /\ model[Lower] = model[Higher]
    /\ round[p].locked => round[Other(p)].game >= round[p].game
    /\ owner[p].game <= round[Other(p)].game

(* An official result follows the facts it reports: when one side holds    *)
(* it, both sides hold every other official document, both audited every   *)
(* sub-game clean, and both computed the very digest the other returned.   *)
ResultFollowsFacts ==
  \A p \in Group :
    Document("result", 0) \in files[p] =>
      \A q \in Group : /\ Official \subseteq files[q]
                       /\ \A k \in Games : lines[q][k] # "tampered"
                       /\ result[q].local = Digest(lines[p])

(* Every request since the first sub-game was bound is bounded by a value  *)
(* both sides hold, in later rounds too, and none before (`PeerDeadline`:  *)
(* "opening the next sub-game's round never drops a running series back    *)
(* onto the pre-lock window").                                             *)
DeadlineIsAgreed ==
  \A p \in Group :
    /\ owner[p].game # 0 /\ pc[p] \in Calling => deadline[p] = "agreed"
    /\ deadline[p] = "agreed" => config[Lower] = config[Higher] /\ model[Lower] = model[Higher]

(* What is agreed before play (`ConfigLockRuntime`) is what it is played   *)
(* under (`PeerDeadline`) and what is reported of it (`ResultExchange`).   *)
AgreedThroughout == AgreedBeforePlay /\ DeadlineIsAgreed /\ ResultFollowsFacts

(* The two sides were started, or finished, with different facts.          *)
Differ ==
  \/ config[Lower] # config[Higher] \/ model[Lower] # model[Higher]
  \/ \E p \in Group : \E k \in 1 .. Len(lines[p]) : lines[p][k] = "tampered"
  \/ \E k \in Games : k <= Len(lines[Lower]) /\ k <= Len(lines[Higher])
                       /\ lines[Lower][k] # lines[Higher][k]

(* Nothing else goes wrong: a driver that failed lost a message, its peer  *)
(* or a write, or was overtaken, or the two sides really differ. A round   *)
(* that both sides wait on for good would fail with no cause at all.       *)
FailureHasCause == (\E p \in Group : pc[p] = "failed") => causes # {} \/ Differ

(* Every wait is bounded: both processes return or raise.                  *)
Termination == <>(\A p \in Group : pc[p] \in Final)

Contract == INSTANCE SeriesContract WITH
  Outcome <- Outcomes, Tampered <- "tampered", recorded <- lines,
  official <- {p \in Group : Document("result", 0) \in files[p]}

(* The protocol keeps the contract of a series (`SeriesContract`), and     *)
(* both its processes come to an end.                                      *)
KeepsContract == Contract!Spec /\ Termination
=============================================================================
