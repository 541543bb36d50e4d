----------------------------- MODULE KitSeries -----------------------------
(***************************************************************************)
(* One alternating series of a group: the gateway that is its only         *)
(* ingress (`KitGroupGateway`, `SeriesHandoff`), the two role backends     *)
(* that play its sub-games in turn (`KitRoleBackend`, `KitBackendBoot`),   *)
(* and the peer, which plays all of them in one process and calls us.      *)
(*                                                                         *)
(* A sub-game is what `KitSubGame` is to its caller: it ends once the      *)
(* peer's turns were taken, so one turn stands for all of them. A call of  *)
(* the peer is on the way to the gateway, or was forwarded to a backend;   *)
(* it may be lost in both places, and it may be served although its answer *)
(* is lost, after which the gateway forwards it once more or the peer      *)
(* makes it again. None outlives the peer's move to its next call.         *)
(***************************************************************************)
EXTENDS Naturals, FiniteSetsExt

CONSTANT SubGames   \* 6 in the code

ASSUME SeriesAssumption == SubGames \in Nat /\ SubGames >= 2

VARIABLES
  cursor,     \* `SeriesHandoff.sub_game`
  ready,      \* whether its phase is READY, else ACTIVE
  collected,  \* rows, entries and documents the gateway was given
  series,     \* the gateway's agreed digest, result agreement and files
  backend,    \* the two role backends
  calls,      \* the peer's calls under way
  peer,       \* the peer
  facts       \* what differs from pairing to pairing: equal rows, who proposes,
              \*   whether a greeting declares its sub-game, whether every
              \*   disclosure is answered, so that none is forwarded twice, and
              \*   whether the peer may call before both our backends are up

gateway == <<cursor, ready, collected, series>>
vars == <<gateway, backend, calls, peer, facts>>

Roles == {"police", "thief"}
SubGame == 1 .. SubGames

(* `role_for`: our side alternates from sub-game to sub-game.              *)
Owner(n) == IF n % 2 = 1 THEN "police" ELSE "thief"

Owned(r) == {n \in SubGame : Owner(n) = r}
PlaysLast(r) == Owner(SubGames) = r

Parts == {"row", "entry", "documents"}
Complete == \A part \in Parts : collected[part] = SubGame

Stages == {"negotiate", "receive_turn", "submit_audit", "settlement", "result"}

(* Where a backend is in `run`: before `play_sub_game` opens its next      *)
(* sub-game, in one of its waits, at one of its reports, or after them.    *)
Reporting == Parts \cup {"settled"}
Ended == {"done", "dead"}
Playing == {"play", "audit"} \cup Reporting

(* A served backend carries sub-game 1 until it opens one of its own. The  *)
(* traffic it holds is tagged with the sub-game it was meant for, 0: none. *)
Fresh == [pc |-> "booting", number |-> 1, greeting |-> 0, turn |-> 0, audit |-> 0,
          settlement |-> FALSE, delivered |-> FALSE]

Init ==
  /\ cursor = 1
  /\ ready = FALSE
  /\ collected = [part \in Parts |-> {}]
  /\ series = [agreed |-> FALSE, sent |-> FALSE, handled |-> FALSE, written |-> FALSE]
  /\ backend = [r \in Roles |-> Fresh]
  /\ calls = {}
  /\ peer = [game |-> 1, stage |-> "negotiate", acked |-> FALSE, heard |-> {}]
  /\ facts \in [sameRows : BOOLEAN, weProposeResult : BOOLEAN, declares : BOOLEAN,
                audited : BOOLEAN, early : BOOLEAN]

(* The calls whose answer may be lost, and that come once more.            *)
Unanswered(call) == call.tool = "submit_audit" => ~facts.audited

-----------------------------------------------------------------------------
(* The peer.                                                               *)

Heard(stage) == <<stage, peer.game>> \in peer.heard

Booted == \A r \in Roles : backend[r].pc # "booting"

(* A call that failed is made again until it is acknowledged. A greeting   *)
(* that an early peer sends to a backend before it opens its first         *)
(* sub-game is acknowledged and forgotten.                                 *)
Send ==
  /\ peer.stage \in Stages
  /\ ~peer.acked /\ calls = {}
  /\ facts.early \/ Booted
  /\ peer.stage = "result" => ~facts.weProposeResult \/ Heard("result")
  /\ calls' = {[tool |-> peer.stage, game |-> peer.game, at |-> "gateway"]}
  /\ UNCHANGED <<gateway, backend, peer, facts>>

(* It greets and discloses in both directions, then settles the series.    *)
Proceed ==
  /\ peer.acked
  /\ peer.stage # "receive_turn" => Heard(peer.stage)
  /\ LET lastGame == peer.game = SubGames
         next == CASE peer.stage = "negotiate" -> "receive_turn"
                   [] peer.stage = "receive_turn" -> "submit_audit"
                   [] peer.stage = "submit_audit" ->
                        IF lastGame THEN "settlement" ELSE "negotiate"
                   [] peer.stage = "settlement" ->
                        IF facts.sameRows THEN "result" ELSE "over"
                   [] OTHER -> "over"
     IN peer' = [peer EXCEPT !.stage = next, !.acked = FALSE,
                             !.game = IF next = "negotiate" THEN @ + 1 ELSE @]
  /\ calls' = {}
  /\ UNCHANGED <<gateway, backend, facts>>

(* It stops: a crash, or a budget of its own that ran out.                 *)
Leave ==
  /\ peer.stage \in Stages
  /\ peer' = [peer EXCEPT !.stage = "gone"]
  /\ UNCHANGED <<gateway, backend, calls, facts>>

Lose(call) ==
  /\ calls' = calls \ {call}
  /\ UNCHANGED <<gateway, backend, peer, facts>>

Acknowledged(call) ==
  [peer EXCEPT !.acked = @ \/ (call.tool = peer.stage /\ call.game = peer.game)]

-----------------------------------------------------------------------------
(* The gateway.                                                            *)

(* A greeting that names no sub-game is taken to be for the live one.      *)
Asked(call) == IF facts.declares THEN call.game ELSE cursor

(* Mutant: the next greeting is assigned while the sub-game is settling.   *)
AssignableEarly(n) == n \in {cursor, cursor + 1}

Assignable(n) == n = cursor \/ (n = cursor + 1 /\ ready)

Forwarded(call, r) == (calls \ {call}) \cup {[call EXCEPT !.at = r]}

(* `negotiate`: held until assignable, then the cursor moves and the       *)
(* greeting is forwarded. A held greeting that times out is refused: Lose. *)
Assign(call) ==
  /\ call.at = "gateway" /\ call.tool = "negotiate"
  /\ LET n == Asked(call)
     IN /\ Assignable(n)
        /\ cursor' = n
        /\ ready' = (ready /\ n = cursor)
        /\ calls' = Forwarded(call, Owner(n))
  /\ UNCHANGED <<collected, series, backend, peer, facts>>

(* `receive_turn` and `submit_audit`: to the live sub-game's backend.      *)
Route(call) ==
  /\ call.at = "gateway" /\ call.tool \in {"receive_turn", "submit_audit", "settlement"}
  /\ calls' = Forwarded(call, Owner(cursor))
  /\ UNCHANGED <<gateway, backend, peer, facts>>

(* `GroupResultAgreement.accept`: answered once our own half is complete.  *)
AcceptResult(call) ==
  /\ call.at = "gateway" /\ call.tool = "result"
  /\ Complete
  /\ series' = [series EXCEPT !.handled = TRUE]
  /\ calls' = calls \ {call}
  /\ peer' = Acknowledged(call) \/ (Unanswered(call) /\ peer' = peer)
  /\ UNCHANGED <<cursor, ready, collected, backend, facts>>

-----------------------------------------------------------------------------
(* What a call does at the backend it was forwarded to.                    *)

Reachable(r) == backend[r].pc \notin Ended

(* `KitSessionContext.accept`: a declared sub-game must be our own.        *)
Admits(r, call) ==
  call.tool = "negotiate" /\ facts.declares => call.game = backend[r].number

(* `record_pairing`, `deliver_turn`, `deliver_audit`.                      *)
Received(r, call) ==
  CASE call.tool = "negotiate" -> [backend[r] EXCEPT !.greeting = call.game]
    [] call.tool = "receive_turn" ->
         [backend[r] EXCEPT !.turn = IF @ = 0 THEN call.game ELSE @]
    [] call.tool = "submit_audit" -> [backend[r] EXCEPT !.audit = call.game]
    [] call.tool = "settlement" -> [backend[r] EXCEPT !.settlement = TRUE]

Answer(call) ==
  /\ calls' = calls \ {call}
  /\ peer' = Acknowledged(call)

(* The answer was lost: the gateway forwards once more, or the peer calls. *)
NoAnswer(call) ==
  /\ Unanswered(call)
  /\ calls' \in {calls, calls \ {call}}
  /\ UNCHANGED peer

Deliver(call) ==
  /\ call.at \in Roles
  /\ Reachable(call.at)
  /\ Admits(call.at, call)
  /\ backend' = [backend EXCEPT ![call.at] = Received(call.at, call)]
  /\ Answer(call) \/ NoAnswer(call)
  /\ UNCHANGED <<gateway, facts>>

-----------------------------------------------------------------------------
(* A role backend: `play_sub_game` and `run`.                              *)

At(r, pc) == backend[r].pc = pc
Steps(r, pc) == backend' = [backend EXCEPT ![r].pc = pc]

(* What we send reaches the peer when it is there; a failed send is Fail.  *)
Says(stage, n) ==
  /\ peer.stage # "gone"
  /\ peer' = [peer EXCEPT !.heard = @ \cup {<<stage, n>>}]

(* Mutant: the turns of the sub-game before are kept.                      *)
OpenedKeepingTurns(r, n) ==
  [backend[r] EXCEPT !.pc = "greet", !.number = n, !.greeting = 0, !.audit = 0]

(* `open_sub_game`: a fresh inbox, audit slot and greeting event. The      *)
(* series settlement is not cleared.                                       *)
Opened(r, n) ==
  [backend[r] EXCEPT !.pc = "greet", !.number = n, !.greeting = 0, !.turn = 0, !.audit = 0]

Open(r) ==
  /\ \/ At(r, "booting") /\ backend' = [backend EXCEPT ![r] = Opened(r, Min(Owned(r)))]
     \/ /\ At(r, "opening")
        /\ LET next == Min({n \in Owned(r) : n > backend[r].number})
           IN backend' = [backend EXCEPT ![r] = Opened(r, next)]
  /\ UNCHANGED <<gateway, calls, peer, facts>>

(* Greeted, it greets the peer in turn and plays.                          *)
Greet(r) ==
  /\ At(r, "greet") /\ backend[r].greeting # 0
  /\ Says("negotiate", backend[r].number)
  /\ Steps(r, "play")
  /\ UNCHANGED <<gateway, calls, facts>>

(* The sub-game was played to its end: our chain is disclosed.             *)
Disclose(r) ==
  /\ At(r, "play") /\ backend[r].turn # 0
  /\ Says("submit_audit", backend[r].number)
  /\ Steps(r, "audit")
  /\ UNCHANGED <<gateway, calls, facts>>

Verify(r) ==
  /\ At(r, "audit") /\ backend[r].audit # 0
  /\ Steps(r, "row")
  /\ UNCHANGED <<gateway, calls, peer, facts>>

AfterPart(part) ==
  CASE part = "row" -> "entry" [] part = "entry" -> "documents" [] OTHER -> "settled"

(* Mutant: the files are written as soon as no document is missing.        *)
WriteUnagreed(s, parts) ==
  [s EXCEPT !.written = @ \/ \A part \in Parts : parts[part] = SubGame]

(* `write_series`: asked after a row or a document, the settlement and the *)
(* agreement, it writes once no part is missing.                           *)
WriteSeries(s, parts) ==
  [s EXCEPT !.written =
     @ \/ (s.agreed /\ s.sent /\ s.handled /\ \A part \in Parts : parts[part] = SubGame)]

(* Each part is contributed once; a second one is refused, and ends in Fail. *)
Contribute(r) ==
  /\ backend[r].pc \in Parts
  /\ LET part == backend[r].pc
         n == backend[r].number
     IN /\ n \notin collected[part]
        /\ collected' = [collected EXCEPT ![part] = @ \cup {n}]
        /\ series' = IF part = "entry" THEN series ELSE WriteSeries(series, collected')
        /\ Steps(r, AfterPart(part))
  /\ UNCHANGED <<cursor, ready, calls, peer, facts>>

AfterLast(r) ==
  IF \E n \in Owned(r) : n > backend[r].number THEN "opening"
  ELSE IF PlaysLast(r) THEN "rows" ELSE "done"

(* `sub_game_settled`: only by the live sub-game's backend, and the next   *)
(* one is READY.                                                           *)
HandBack(r) ==
  /\ At(r, "settled") /\ backend[r].number = cursor
  /\ ready' = TRUE
  /\ Steps(r, AfterLast(r))
  /\ UNCHANGED <<cursor, collected, series, calls, peer, facts>>

(* The last backend needs the whole series, or is refused.                 *)
ReadRows(r) ==
  /\ At(r, "rows") /\ collected["row"] = SubGame
  /\ Steps(r, "settle")
  /\ UNCHANGED <<gateway, calls, peer, facts>>

(* Mutant: the peer's settlement alone settles.                            *)
SettledOneWay(one) == one.settlement

(* Ours was acknowledged and theirs has come.                              *)
SettledBothWays(one) == one.delivered /\ one.settlement

AfterExchange(one) ==
  IF ~SettledBothWays(one) THEN "settle" ELSE IF facts.sameRows THEN "report" ELSE "linger"

(* One turn of `SettlementExchange.settle`: send ours, look for theirs.    *)
Exchange(r, arrives) ==
  /\ At(r, "settle")
  /\ LET one == [backend[r] EXCEPT !.delivered = @ \/ arrives]
     IN backend' = [backend EXCEPT ![r] = [one EXCEPT !.pc = AfterExchange(one)]]
  /\ IF arrives THEN Says("settlement", SubGames) ELSE UNCHANGED peer
  /\ UNCHANGED <<gateway, calls, facts>>

WindowCloses(r) ==
  /\ At(r, "settle")
  /\ Steps(r, "linger")
  /\ UNCHANGED <<gateway, calls, peer, facts>>

(* `series_settled`: the digest licenses the result.                       *)
ReportSeries(r) ==
  /\ At(r, "report")
  /\ series' = WriteSeries([series EXCEPT !.agreed = TRUE], collected)
  /\ Steps(r, "agree")
  /\ UNCHANGED <<cursor, ready, collected, calls, peer, facts>>

(* `agree_result`: the proposer asks first, the other once it was asked.   *)
RequestResult(r) ==
  /\ At(r, "agree") /\ Complete
  /\ ~series.sent
  /\ facts.weProposeResult \/ series.handled
  /\ peer.stage = "result"
  /\ series' = [series EXCEPT !.sent = TRUE]
  /\ Says("result", SubGames)
  /\ UNCHANGED <<cursor, ready, collected, backend, calls, facts>>

AgreeResult(r) ==
  /\ At(r, "agree")
  /\ series.sent /\ series.handled
  /\ series' = WriteSeries(series, collected)
  /\ Steps(r, "linger")
  /\ UNCHANGED <<cursor, ready, collected, calls, peer, facts>>

Finish(r) ==
  /\ At(r, "linger")
  /\ Steps(r, "done")
  /\ UNCHANGED <<gateway, calls, peer, facts>>

(* A missed deadline, a failed call or a crash ends the whole run.         *)
Fail(r) ==
  /\ backend[r].pc \notin Ended
  /\ Steps(r, "dead")
  /\ UNCHANGED <<gateway, calls, peer, facts>>

Run(r) ==
  \/ Open(r) \/ Greet(r) \/ Disclose(r) \/ Verify(r) \/ Contribute(r) \/ HandBack(r)
  \/ ReadRows(r) \/ ReportSeries(r) \/ RequestResult(r) \/ AgreeResult(r) \/ Finish(r)

Next ==
  \/ Send \/ Proceed \/ Leave
  \/ \E call \in calls :
       Lose(call) \/ Assign(call) \/ Route(call) \/ AcceptResult(call) \/ Deliver(call)
  \/ \E r \in Roles :
       \/ Run(r) \/ WindowCloses(r) \/ Fail(r)
       \/ \E arrives \in BOOLEAN : Exchange(r, arrives)

(* Processes run and the peer goes on. A call made again and again gets    *)
(* through and is answered, and so does our settlement. No fairness of a   *)
(* failure, nor of the peer's leaving.                                     *)
Fairness ==
  /\ WF_vars(Send) /\ WF_vars(Proceed)
  /\ SF_vars(\E call \in calls : Assign(call) \/ Route(call))
  /\ SF_vars(\E call \in calls : (AcceptResult(call) \/ Deliver(call)) /\ peer'.acked)
  /\ \A r \in Roles : WF_vars(Run(r)) /\ WF_vars(WindowCloses(r))

Spec == Init /\ [][Next]_vars /\ Fairness

-----------------------------------------------------------------------------
(* Properties.                                                             *)

(* Gameplay does not move on under a backend that still plays or reports:  *)
(* the gateway's cursor stands on its sub-game (`SeriesHandoff`, "gameplay *)
(* must not move on yet"). And "the acknowledgement means **assigned**"    *)
(* (`KitGroupGateway.negotiate`): when the peer's greeting was             *)
(* acknowledged, the backend that plays its sub-game has been greeted for  *)
(* it, or is gone; only the first greeting of an early peer may have come  *)
(* before its backend opened the sub-game, and a series of more than six   *)
(* has room for a turn and a disclosure that were mislaid to play the      *)
(* sub-game out before the peer goes on. Both need greetings that declare  *)
(* their sub-game: what is silent is taken to be for the live one.         *)
NobodyOvertaken ==
  facts.declares =>
    /\ \A r \in Roles : backend[r].pc \in Playing => cursor = backend[r].number /\ ~ready
    /\ peer.stage = "negotiate" /\ peer.acked =>
         LET one == backend[Owner(peer.game)]
         IN \/ one.pc = "dead"
            \/ one.number = peer.game /\ one.greeting = peer.game
            \/ one.number > peer.game
            \/ facts.early /\ peer.game = 1 /\ one.pc \in {"booting", "greet"}

(* A backend is greeted for, and takes turns of, its own sub-game only,    *)
(* although the gateway routes by the live sub-game's role and reads no    *)
(* number (`_forward`) - of a peer that declares. The disclosure it        *)
(* verifies a sub-game with is that sub-game's too ("late traffic from the *)
(* previous game cannot be mistaken for the current one",                  *)
(* `open_sub_game`), unless the gateway forwarded one disclosure twice:    *)
(* the second copy then fills the next sub-game's slot, which so ends too  *)
(* early, and a turn of it may come to the one after it.                   *)
TrafficIsOwn ==
  \A r \in Roles :
    LET one == backend[r]
    IN /\ facts.declares => one.greeting \in {0, one.number}
       /\ facts.declares /\ facts.audited => one.turn \in {0, one.number}
       /\ facts.audited /\ one.pc \in Reporting => one.audit = one.number

(* A result both sides agreed covers the whole series and was settled in   *)
(* both directions: ours reached the peer, theirs reached us, and no       *)
(* process of ours died with a sub-game unreported.                        *)
AgreedIsWholeAndMutual ==
  series.agreed =>
    /\ Complete /\ facts.sameRows
    /\ <<"settlement", SubGames>> \in peer.heard
    /\ \E r \in Roles : PlaysLast(r) /\ backend[r].settlement

(* The held greeting is released, the two backends take turns, and the     *)
(* series comes to its end, unless a process fails or the peer leaves - or *)
(* a silent, doubled or early call mislaid what a sub-game waits for.      *)
SeriesEnds ==
  facts.declares /\ facts.audited /\ ~facts.early =>
  <>(\/ \A r \in Roles : backend[r].pc = "done"
     \/ \E r \in Roles : backend[r].pc = "dead"
     \/ peer.stage = "gone")

HandedOn(n) == n < cursor \/ (n = cursor /\ ready)

Group == INSTANCE GroupSeries WITH
  begun <- Cardinality({n \in SubGame : <<"negotiate", n>> \in peer.heard}),
  settled <- Cardinality({n \in SubGame : HandedOn(n) /\ \A part \in Parts : n \in collected[part]}),
  agreed <- series.agreed,
  written <- series.written

(* Whatever the peer leaves out or says twice, the group keeps the promise *)
(* of one series (`GroupSeries`), and it ends.                             *)
KeepsSeries == Group!Spec /\ SeriesEnds
=============================================================================
