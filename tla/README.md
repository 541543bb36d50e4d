# A verification development of the MaRs-777 police agent

The repository is one of two peer agents that play *Cops and Robbers* on a grid
without a referee: each side seals an action under a hash, shows it only when the
other side is locked in, keeps what it witnessed, and audits the other's records
when a sub-game ends. Six sub-games make a series; the two sides agree a result
and each reports it by mail. There is no shared memory and no trusted third
party, so what must be right is *agreement*: two processes that see different
messages at different times have to end with one board, one end event, one
verdict and one result.

Around this core stand the things that decide whether it is ever reached and what
remains of it: the processes that start, find each other and stop, the public
route, the files a counted series leaves, the viewer of those files, and the
research that chose the strategy.

Paths below are relative to `src/src/mars777_police/` unless they start with `src/`
or with `research/`, which is `src/research/`.

## 1. Inventory

| component | state it keeps | operations | what makes it correct |
|---|---|---|---|
| Game rules (`domain/`) | none (values) | move, place, trapped, capture answer, end event | legality in one place; capture before survival |
| Turn exchange (`app/sub_game_driver.py`, `app/peer_runner.py`, `app/turn_protocol_runtime.py`, `app/outbound_evidence_runtime.py`) | truth, chosen action, the bound turn runtime, sealed records, retained answers | commit, acknowledge, reveal, adopt, open the next round | nobody chooses after looking; both boards and both end events are equal |
| Mutual audit (`app/audit_runtime.py`, `app/semantic_*.py`) | witnesses, phase, disclosure, verdict, finding | observe a turn, take nonces, take a disclosure, replay | honest play is cleared, on both sides |
| Peer transport (`transport/client.py`, `transport/server.py`, `transport/session_hold.py`) | the held session | request, answer, typed refusal, failure | a failure is not a protocol answer; nothing is sent twice |
| Pregame and config lock (`app/pregame_session_runtime.py` and the runtimes it holds) | peer, round, seen proposers, adopted config, lock evidence, frozen scent model | Step-0, propose, lock, open a round | both lock the same config and model, once per sub-game |
| Series and result agreement (`series_driver.py`, `series_runtime.py`, `app/orchestrator.py`, `app/result_exchange.py`) | phase, sub-game cursor, outcome lines, digests | play six sub-games, close, build, agree, persist | no artifact before its fact; both sides agree or neither writes |
| KIT sub-game and delivery (`app/kit_*.py`) | inbox (played, buffered, ready), play state, pending answer | push a half-turn, deduplicate, adjudicate, settle | both settle the same end event; a redelivery changes nothing |
| KIT gateway (`transport/kit_gateway.py`, `app/kit_handoff.py`, `app/kit_settlement.py`) | live sub-game and phase, routes, collected rows and artifacts | route, hand off, collect, write | a message reaches the backend of the sub-game it belongs to |
| Gatekeeper (`app/gatekeeper*.py`) | waiting rooms, windows, tokens, quota, calls in flight | admit, queue, attempt, retry | limits hold for what really goes out |
| Reporting (`compose_report.py`, `app/report_*.py`, `infra/report_evidence.py`) | deliveries, the durable delivery record | report once, record | an agreed result is reported once, by one process |
| Agent lifecycle (`autonomous_boot.py`, `agent_runtime.py`, `app/startup_budget.py`, `transport/session_hold.py`) | runtime state, listener and server task, held session, the peer of Step-0 | serve, dial, remake a session, send and await Step-0, stop | what ended is released; both are in the series or neither; no call is issued twice |
| Public route and readiness (`kit_public_launcher.py`, `kit_serving.py`, `infra/ngrok_*.py`, `app/public_network.py`, `compose_gateway.py`) | served routes, agent process, ingress, endpoint binding, the Step-0 exchange | serve, spawn, discover, judge, declare, consent, close | nobody is told "ready" before it is; consent is to the authenticated endpoint |
| Scent physics and strategies (`domain/scent*.py`, `app/*_strategy.py`, `research/candidates/`, `research/opponents.py`) | belief | emit, fold, rank actions | only lawful actions, in every state; evidence is the other's trail |
| Research protocol (`research/*_main.py`, `research/seeds.py`, `research/freeze.py`, `research/final_evaluation.py`) | rows, evidence, freeze, seal, result on disk | bench, replay, measure, freeze, judge, publish | what is judged is what was frozen; sealed seeds stay unplayed; one verdict |
| Counted record (`compose_series_writer.py`, `app/kit_settlement.py`, `app/kit_result*.py`, `infra/artifact_store.py`) | hand-overs, digest, agreement, official files | collect, settle, agree, store | a result completes its set; an official file is never replaced |
| Sub-game log and viewer (`app/semantic_*.py`, `app/official_log*.py`, `app/replay_session.py`, `replay_main.py`) | one finalized log, rebuilt steps, cursor | review, sanction, write, open, walk, report | honest play replays clean and is not blamed; an altered log is noticed |
| Encodings and proofs (`protocol/`) | none | canonical JSON, digests, keyed proofs | injectivity of what is hashed |
| Live view, GUI, SDK, settings | none of their own | read, render | present facts decided elsewhere |

How they interact: one asyncio loop per process. `SeriesDriver` calls
`SubGameDriver` and `PeerRunner`; those call the peer's server through
`PeerClient`. The peer's requests arrive on our own server and change the same
runtimes (`ActiveRuntimeContext` holds the ones that are bound), so the driver
and the handlers share state and wake each other through `asyncio.Event`
milestones. Nothing of a sub-game is persisted and nothing is retransmitted. On the counted wire
a gateway process stands before two role backends and owns the files; every
operator command (report, replay, research) is one more process over the same
directory.

What is hard: two drivers and two servers interleave at every await; a request
may be served though its caller sees a failure; the faster peer's next message
arrives before the slower one's driver has run; every wait has a deadline; a
process may die anywhere. The list of hazards, each at its line, is in
`PROJECT.json`.

## 2. Modules

| module | role |
|---|---|
| `BoardRules` | the pure rules of `domain/`, used by every other module |
| `LockstepGame` | the abstract specification of a sub-game: both roles act at once |
| `TurnExchange` | two peer processes, the network between them, and the mutual audit |
| `TurnExchange_proofs` | type correctness, the fair exchange, the two copies are one game, honest play is clean, every failure has a cause, the exchange implements the lockstep game, proved |
| `SeriesContract` | the abstract specification of a series: who may close what, and when a result exists |
| `SeriesProtocol` | two peer processes from Step-0 to the official result, one sub-game after another |
| `SeriesProtocol_proofs` | what is agreed before play is what is reported; the protocol implements the contract; every failure has a cause, proved |
| `KitInbox` | the delivery contract of the symmetric-push wire, as operators |
| `TurnStream` | the abstract specification of delivery: each turn once, in order |
| `KitDelivery` | one direction of the wire over several sub-games |
| `AlternatingGame` | the abstract specification of a symmetric-push sub-game |
| `KitSubGame` | both role backends playing one sub-game on that wire |
| `KitSubGame_proofs` | every claim is answered, ends are true, every failure has a cause, the sub-game is the alternating game, the delivery is the stream, proved |
| `GroupSeries` | the abstract specification of a group's series behind one gateway |
| `KitSeries` | the gateway, its two role backends and the peer, over a whole series |
| `KitSeries_proofs` | nobody is overtaken, traffic and agreement are whole, the group keeps one series, proved |
| `Reporting` | the report of an agreed result, over invocations that overlap, fail and die |
| `CountedRecord` | the files of a counted series, composed with `Reporting` |
| `CountedRecord_proofs` | what a delivery record and a duplicate mean; the composition implements the report; a file is written once; a result completes its set, proved |
| `Gatekeeper` | one provider operation under its limits, over time |
| `AgentLifecycle` | two agents that start, meet, play and stop |
| `AgentLifecycle_proofs` | what ended is released, no call is issued twice, play is mutual, proved |
| `PublicRoute` | a group's public route, its readiness and the Step-0 that arrives on it |
| `PublicRoute_proofs` | release, the whole Step-0 and authenticated consent, proved |
| `ScentPhysics` | emission, decay, belief and observation, as operators |
| `Policies`, `Candidates` | every strategy of the program and of the research corpus, as functions of a view |
| `ResearchArena` | one game between two of those policies |
| `ResearchProtocol` | the research commands over one results directory |
| `ResearchProtocol_proofs` | what is judged was frozen, a result is replaced only in a race, sealed seeds are fresh, proved |
| `SubGameLog` | the evidence of a sub-game with one deviation, its review and its log |
| `ReplayViewer` | that log on a disk, altered once, and the viewer |
| `MC...` | the small instance of each for TLC |

### BoardRules

A board is its set of blocked cells over `Rows` x `Cols`, a position a pair, the
index origin 0 (`Board.start_index` only shifts the names of cells). `Destination`,
`LegalMove`, `Placeable` are `domain/rules.py` and `domain/barriers.py`;
`Caught` is the question `answer_for_barrier` answers (a barrier landed on the
answering side, or closed its last way out); `Terminal` is `evaluate_terminal`.
`Lawful` is what `Replay._legal` accepts and what a strategy may choose: it
restricts placement to the police, as the strategies and the replay do
(`LocalTurnService` itself does not look at the role).

### TurnExchange

One behaviour is one sub-game: from the moment the config of the sub-game is
locked to both drivers having returned or raised.

| variable | code |
|---|---|
| `pc` | where the coroutine of `play_sub_game` is suspended |
| `cell`, `blocked`, `step`, `captured` | `SubGameDriver.truth` and `.captured` |
| `chosen` | the action and emission local to `play_round` |
| `turn` | the bound `TurnProtocolRuntime`: cursor, phase, its own live truth, both digests, both answers |
| `sealed`, `told`, `evPhase` | `OutboundEvidenceRuntime` |
| `witnessed`, `auPhase`, `disclosed`, `verdict`, `finding` | `AuditRuntime` |
| `call`, `reply` | the driver's one outstanding request and its answer |
| `causes` | history only: why an honest sub-game may fail |

*Grain.* A coroutine runs without interruption between two awaits and a handler
routes synchronously (`transport/router.py`), so a driver segment and a handler
are one action each. Two segments are modelled a little finer than the code: the
adoption of a round and the commitment of the next are separate actions, and a
wait on a milestone that is already set is a separate wake-up. Both add
interleavings and remove none. A deadline fires only on a milestone that is not
recorded. It is a cause of its own (a peer slower than the deadline) only if the peer
has not failed and could still act, or has a request on its way; a wait that nobody
could ever end is not explained by its deadline, and would violate `FailureHasCause`.

*Faults.* A request, or the answer of a request that was served, is lost
(`LoseCall`, `LoseReply`); a wait reaches its deadline (`Timeout`); a process
dies (`Crash`). A driver that failed no longer acts; its server may still answer
until the peer loses a request to it.

*Data.* A digest is the sealed record itself: the hash is injective and, because
no handler looks inside before the audit, hiding. The emission is kept as an
injective projection of the board and the cell it comes from, so two emissions
that could differ do differ. Nonces, hints, intents, timestamps and identities
travel with the record they belong to; both peers are honest, so a proof or
identity check that only rejects a forger is true.

### LockstepGame

What a sub-game promises to a player who knows nothing of messages: each round
both roles act on the board the round began with, the capture questions are
answered from the cells the round began on, and the effects appear together.
`TurnExchange!ImplementsLockstep` maps the two peers to this game: the abstract
state is that of the peer that has adopted more rounds, and where the other has
not yet adopted, its cell is the one its revealed action leads to.

### SeriesProtocol

One behaviour is one whole series: `AutonomousBoot.run` on both sides. It shares
the grain, the network and the faults of `TurnExchange`, and stands a sub-game
for its last message: from `LockConfig`, which binds the sub-game's owners, the
driver goes to `SendDisclosure`, and everything between is `TurnExchange`.

| variable | code |
|---|---|
| `pc` | where the coroutine of `run` is suspended |
| `phase`, `game` | `LocalOrchestrator`: the phase machine and the sub-game cursor |
| `peer`, `round`, `freeze` | `PregameSessionRuntime`: the verified peer, the open round, the series-wide scent freeze |
| `owner` | the audit bound in `ActiveRuntimeContext`, by sub-game |
| `lines`, `files` | the recorded outcomes, the documents written |
| `result` | the `ResultExchange`: timestamp, both digests, both directions, verified, requested |
| `config`, `model` | boot inputs of each process, which may differ |
| `causes` | history only: why an honest series may fail |

The outbound half is one action per driver segment (`SendProposal`, `SendLock`,
`LockConfig`, `Close`, `BuildResult`, ...), the inbound half one action per
handler (`AcceptProposal`, ...), with the conditions under which an owner admits
a request in one place, `Admits`; any other request is a `Refuse`. Three things
are deliberately wider than the code. What a side records of a sub-game is its
own choice among capture, survival and tampered, so two sides may disagree and
the agreement has something to find; that they do not disagree after honest play
is `TurnExchange`'s result. A deadline may fire on any milestone not recorded.
And the write of the result may fail after the phase moved (`PersistFails`).

`phase` is the `ProtocolMachine` of `app/state_machine.py`: `Successors` is its table of allowed
transitions and `AdvanceTo` a step along it. A step the table forbids raises in
the code; here it is not enabled, so a driver that asked for one would be stuck
and the liveness half of `KeepsContract` would show it. `deadline` is the bound a request
carries (`PeerDeadline`): the pre-lock window until both sides locked a config,
the agreed value from then on, in later rounds too.

The configs are compared only through the lock: each side digests its *own*
candidate and the other compares it with its own. Step-0 admits a group once,
and no request is served before it.

`SeriesContract` is what this adds up to: a group closes sub-games in order and
never runs more than one ahead, and an official result exists only when both
groups recorded the whole series clean and alike. `KeepsContract` maps `lines`
and the result files to it.

### KitInbox and KitDelivery

`KitInbox` is the receiver: `Decide` is the decision table of `kit_delivery.py`,
row by row; `Offer`, `Apply` and `Consumed` are the inbox around it, with the
`asyncio.Event` as the field `arrived`. A turn stands for its commit, so two
turns are equal exactly when their commits are.

`KitDelivery` puts it behind a wire. The pushing side is external: the client of
the pinned kit, which retries what was not acknowledged and is at most `Window`
turns ahead (our own sender, which waits for every acknowledgement, is in
`KitSubGame`). The network is a set of copies: a copy may be delivered any number
of times, in any order, or be lost. `OpenSubGame` is `open_sub_game`, a fresh
inbox once the sub-game before it was taken to its end, with none of its copies
left on the wire. What a late message does to the next sub-game is a question
about the gateway as well, and is asked in `KitSeries`.

### KitSubGame

One behaviour is one sub-game from the first half-turn to both backends having
returned or raised. Grain and faults are those of `TurnExchange`, and a copy of
any turn ever pushed may arrive again (`DeliverCopy`), which is what the
forwarder's retry produces.

| variable | code |
|---|---|
| `pc` | where `KitSubGame.play` and `play_sub_game` are suspended |
| `cell`, `blocked`, `step` | `KitPlayState` |
| `pending` | the answer that rides out with the next half-turn |
| `inbox`, `audit` | `KitFriendlySession` |
| `outcome` | the end event each side settled |
| `pushed` | every turn each side put on the wire |
| `call`, `reply`, `causes` | as in `TurnExchange` |

`VerdictOn` and `OwnVerdict` are `adjudicate` in its order, `Push` is
`KitHalfTurnMaker.take`, `Consume` folds a batch, `SendFinal`, `FinalRefused` and
`SettleSilently` are the three ways through `_settle`. The sealed record behind a
commit is part of the modelled turn so that properties can speak of it; no action
reads it. `_own_turn` does nothing once the step ceiling is reached; the
survival threshold always ends the game before, so `TakeTurn` has the ceiling as
a guard and the deadlock check shows that the guard never stops a player.

`AlternatingGame` is what this promises: thief and police act in turn on one
board, and the police never again after a capture or a survival.
`ImplementsAlternating` maps the two backends to it; the shared board is the
police's.

`KitBoardAssumption` asks for a board of more than one cell; the locked minimum is
7x7 (`MIN_GRID_SIZE`, `domain/config_model.py:28`). On a single cell the thief is
walled in before it has moved.

### KitSeries

One behaviour is one series of a group: from the start of its processes to both
role backends having returned or died. The sub-games are `KitSubGame`'s; here one
of them is what it is to its caller, so a single turn of the peer stands for all.

| variable | code |
|---|---|
| `cursor`, `ready` | `SeriesHandoff`: the live sub-game, and whether it was handed back |
| `collected` | what the gateway holds of each sub-game: its row, its entry, its documents |
| `series` | the gateway's `SeriesResultOwner`, its `GroupResultAgreement`, the files |
| `backend` | `pc`: where `run` and `play_sub_game` stand; `number`: the session context; `greeting`, `turn`, `audit`: what `KitFriendlySession` holds, tagged with the sub-game it was meant for; `settlement`, `delivered`: the two directions of the settlement |
| `calls` | the peer's calls under way, at the gateway or forwarded to a backend |
| `peer` | external: the call it makes, whether it was acknowledged, what it heard of us |
| `facts` | what differs from pairing to pairing: whether both groups computed equal rows, which group proposes the result, whether the peer's greetings declare their sub-game, whether every disclosure is answered (so that none is forwarded twice), and whether the peer may call before both backends opened their first sub-game (`early`) |

The tags are not data of the program: no action looks at them except where the
code itself reads a sub-game's number (`Admits` for a declared greeting, `Asked`
at the gateway). That is what makes `TrafficIsOwn` a question
about the code. A call is forwarded to the live sub-game's backend whatever it is
about (`Route`). Its answer may be lost at every hop: the gateway then forwards
it once more (`KitBackendRoutes`), or the peer makes it again. Both are
`NoAnswer`, and `Unanswered` names the calls to which it may happen. A backend
that runs into a deadline, a refused report or a crash is dead for the series
(`Fail`); nothing restarts it. The wait of a held greeting ends in a refusal, and
so does any other timeout of the peer: its call is `Lose`d and made again.

`Exchange` is one turn of the settlement's loop, `WindowCloses` its end without
agreement, or the disagreement of the two digests where `facts.sameRows` is
false. `WriteSeries` stands wherever the gateway calls `write_series`; it writes
once, and only when rows, documents and the agreement are complete.

`GroupSeries` is the promise: sub-games begin and settle one at a time and in
order, whichever of the two processes plays them, an agreement comes after the
last one and files after the agreement. `KeepsSeries` maps the group to it.

### Reporting

One behaviour is every invocation of `send_game_report` on one stored result: the
gateway's own after it wrote the result, and an operator's with `report_main`.
Each is a process of its own with a gatekeeper of its own, whose windows are
empty and admit its one call at once; of the gatekeeper the attempts remain.
Nothing starts an invocation and nothing prevents a second.

| variable | code |
|---|---|
| `agreed` | whether the stored result carries a mutual agreement; the store refuses to rewrite one, so it never changes |
| `run` | where each invocation stands, its attempts, what it heard, its exit status |
| `record` | the delivery record: absent, torn while it is written, refused or accepted |
| `mailed` | external: how often the provider accepted the report |
| `causes` | history only: why a report may go out twice |

The provider may accept what it answers with a retryable status, or with nothing
(`Post`). `write_evidence` truncates and then writes, so it is two actions with a
crash between them. `reports_for_group` only decides whether the gateway starts
its invocation and is not shown.

### Gatekeeper

One operation of one process under its policy, call after call. `Tick` is the
clock: it ages every stamp, fills the bucket and runs down a sleep, whatever else
is under way. Every mechanism of `AdmissionChain` keeps a list of its own of the
same stamps, trimmed to what it looks back to; `stamps` is one list of ages, the
oldest first. What a mechanism still holds are the positions `Recent(window)`, and
`Count(window)` is how many: the clock is monotonic, so they are the last ones of the
list, and the limit-th last names the wait.

| variable | code |
|---|---|
| `admission`, `watched` | the chain the policy names, with a burst detector or not |
| `stamps` | the times of `RollingWindows`, `DailyQuota` and the detector |
| `tokens` | `TokenBucket`'s level, in shares of a token |
| `locked` | the latch of the detector |
| `caller` | where `Gatekeeper.call` stands, its attempts, its sleep |

Calls are synchronous and no thread makes two, so the waiting room holds one
ticket and the ceiling on calls in flight is never met: both are left out. A
retry waits what the provider asks for within `MaxBackoff`, and is stamped
without being admitted.

### CountedRecord

One behaviour is one series of one group as its gateway records it, over every start
of that gateway on one disk, with every invocation of the report. The gateway
writes the merged declaration, collects four parts of each sub-game, settles
the consensus digest, agrees the result, and then stores the files one by one, the
result last. A `Stage` and a `Replace` are the two halves of a store; a crash, or
a disk that refuses, may come between any two.

| variable | code |
|---|---|
| `attempt`, `facts` | which start of the gateway this is, and what it meets: counted or rehearsed, the declaration's content, the outcomes each side recorded, the commits deployed |
| `held`, `settled`, `mutual` | the collectors, `SeriesResultOwner.agreed`, `GroupResultAgreement.is_agreed` |
| `stage`, `next`, `staged` | where the gateway is; the file being stored and its temporary copy |
| `disk` | the official files by name |

`agreed` of `Reporting` becomes true when a result is on the disk, and the two
modules share nothing else: `RecordImplementsReporting` proves that every
behaviour of the composition is one of `Reporting`. `KitSeries` interleaves the
backends; here the parts come in order of play and what they carry is looked at:
scores, totals, the tie rule, the consensus scope and the approval core.

### AgentLifecycle

Two processes that boot each other: `AutonomousBoot.run` over `AgentRuntime`,
`StartupBudget`, `PeerClient` and `HeldSession`. A process binds, gives its
server one turn of the loop, dials until its budget is spent, sends Step-0, waits
for the other's, makes the calls of its series and stops. It may be cancelled at
any await, killed and started again, lose its server, have a call or its answer
lost, or find that the other retired its session.

| variable | code |
|---|---|
| `pc`, `process` | where `run` is; the launches so far, which name the current process |
| `state`, `held`, `cut` | `AgentRuntime.state`; the listener and server task; a cancellation in the one await of `serve` |
| `session`, `flight` | the `HeldSession` and the call on it: its result, how often it was dispatched, whether the session was remade for it |
| `peer`, `answered` | the process whose Step-0 was taken, and the one that answered ours |
| `left`, `faults`, `late` | ticks of the bounded wait; history |

A tick is the pause between two attempts; everything else takes no time against it,
so `Tick` waits until no process has anything left to do.

### PublicRoute

`KitPublicLauncher` acquires two served surfaces, an agent process and an
endpoint, in that order, and puts them away in reverse; `PublicNetworkService`
holds the endpoint and its binding; `compose_gateway` exchanges Step-0. Any step may
fail or be interrupted, servers and the agent die, and the tunnel may be
established again under another name. The agent, its listing, the name service
and the opponent are the environment. `Declare`, `Rediscover`, `Reestablish` and
`Consent` are operations of the service that no command of the repository calls
yet; they are modelled as its tests call them, over an open route.

### ScentPhysics, Policies, Candidates and ResearchArena

`ScentPhysics` is the decimal recurrence of `domain/scent*.py` in exact integers:
with `Scale = 10^n` the first `n` turns of a field are exact. Its assumption
`ModelAgreed` checks the kernel and the two locked examples. `Policies` is the
shipped police policy, its mover and the geometry both ask for; `Candidates` the
ten candidates and the seven opponent families. A policy is a function of one
view: its ranking is a function from what may be chosen to a tuple, and `Least`
takes the smallest. `random_legal` draws from a hash, so its answer is any lawful
move.

`ResearchArena` is a game of `research/game.py` between two of them: both decide
on the board the round began with, the production rules check the turn, and each
side absorbs the emission of the cell the other decided from.

### ResearchProtocol

The commands `bench_main`, `analyse`, `candidate_main`, `freeze` and `final_main`,
started from shells over one results directory. A command imports its code when it
starts (`Load`), only then digests the source on the disk and checks it
(`StartReplay`, `StartFinal`), plays what it imported and writes at the end; at any
of these points a source may be edited or put back, other commands run, and any die.
`crossed` is history: the candidate was edited between a command's import of it and
its digest. The freeze assesses the records first and digests them afterwards
(`Assess`, `WriteFreeze`). Play is deterministic, so what a
version of the code achieves on a bank is a constant (`Measured`), a digest is the
version it is of, and a bank is its set of scenarios. A version of the candidate is
one of the module its digest is taken of; what it imports (for C4 the shipped mover
it plays behind) is taken to be constant. `Openings`, `ScenarioId` and
the three `SealedSet`s are the enumeration of `research/seeds.py` and
`research/scenario.py`, from which it follows which scenarios two banks share.

### SubGameLog and ReplayViewer

The one place where a peer does not play by the rules: once in a sub-game it may
seal, disclose, rehash, emit, claim or answer something else than it should. What
the rounds of `TurnExchange` leave behind is one record per step and side;
`Review` is `review_sub_game`, `TamperedStep` is `verdict_for`, and `Close` writes
both into the log. `ReplayViewer` reads that log after a hand may have changed one
member of it, rebuilds every step, walks and reports an exit status. The viewer
reads `doc` and nothing else; the properties compare what it shows with what was
played.

## 3. What the runs show

| run | module, config | instance | checks |
|---|---|---|---|
| `turn_exchange` | `MCTurnExchange`, `TurnExchange.cfg` | 1x4 corridor from its two ends, quota 2, three rounds, all interleavings and faults (435 thousand states) | `FairExchange`, `CopiesAgree`, `HonestPlayAuditsClean`, `FailureHasCause`, `ImplementsLockstep` |
| `series` | `MCSeriesProtocol`, `SeriesProtocol.cfg` | two sub-games, two configs, two models, all interleavings and faults (30 thousand) | `AgreedThroughout`, `FailureHasCause`, `KeepsContract` |
| `kit_delivery` | `KitDelivery`, `KitDelivery.cfg` | two sub-games of up to five turns, window 2 (12 thousand) | `HonestTurnAccepted`, `KeepsStream` |
| `kit_sub_game` | `MCKitSubGame`, `KitSubGame.cfg` | 1x4 board, quota 2, four steps, all interleavings, copies and faults (217 thousand) | `EveryClaimAnswered`, `EndsAreTrue`, `FailureHasCause`, `ImplementsAlternating` |
| `kit_series` | `KitSeries`, `KitSeries.cfg` | all six sub-games, peers that declare and that do not, early and late ones, answers that may all be lost (234 thousand) | `NobodyOvertaken`, `TrafficIsOwn`, `AgreedIsWholeAndMutual`, `KeepsSeries` |
| `counted_record` | `MCCountedRecord`, `CountedRecord.cfg` | three sub-games, two starts of the gateway with eight kinds of facts, two report invocations (339 thousand) | `ResultCompletesTheSet`, `DuplicateHasCause`, `DeliveryIsTrue`, `WrittenOnce`, `DeliveryStaysRecorded` |
| `gatekeeper` | `Gatekeeper`, `Gatekeeper.cfg` | a day of eight ticks, both chains, one retry (92 thousand) | `LimitsKept`, `OneSleepIsEnough` |
| `research_arena` | `MCResearchArena`, `ResearchArena.cfg` | 3x4 board, a quota of two walls, four rounds, every opening, two police policies against a random thief, and every policy of the corpus asked in every state (42 thousand) | `PoliciesAreSound`, `EvidenceIsTheTrail` |
| `research_protocol` | `MCResearchProtocol`, `ResearchProtocol.cfg` | two shells (symmetric), four commands on a repository that holds the development and latency records, two edits: a source is changed and put back (410 thousand) | `WhatIsJudgedIsFrozen`, `SealedSeedsAreFresh`, `ReplacedOnlyInARace` |
| `agent_lifecycle` | `MCAgentLifecycle`, `AgentLifecycle.cfg` | two agents, two launches each, budget 2, one call of the series, two faults (277 thousand) | `EndedIsReleased`, `PlayIsMutual`, `NeverIssuedTwice`, `BothMeet` |
| `public_route` | `MCPublicRoute`, `PublicRoute.cfg` | six endpoints, two agents of the tunnel, two polls, two Step-0 calls (26 thousand) | `RouteReleased`, `StepZeroIsWhole`, `ConsentIsAuthenticated` |
| `replay_viewer` | `MCReplayViewer`, `ReplayViewer.cfg` | 2x2 board, two rounds, one deviation or one alteration (550 thousand) | `HonestyStands`, `AlterationIsNoticed`, `ReplayRepeatsReview` |

The exchange and the series:

- `FairExchange`: when a peer's action is in flight or seen, the seer's own
  action of that round is sealed and the other side holds its digest.
- `CopiesAgree`: peers that adopted the same number of rounds hold the same
  barriers and agree on capture; every step was sealed over the same board; the
  quota, which each side checks alone, is kept by the union; nobody seals a round
  after the end the other reached.
- `HonestPlayAuditsClean`: no honest reveal is rejected, no honest disclosure is
  found tampered, and no replay finds a violation.
- `FailureHasCause`: a driver fails only if something was lost or died, a deadline
  ran out on a peer that could still act, a strategy had no lawful action, or a
  message overtook the receiver's driver. Two drivers that wait on each other for
  good would violate it.
- `ImplementsLockstep`: refinement of `LockstepGame`, and both drivers return or
  raise.
- `AgreedThroughout`: who plays a sub-game holds the config and model the other
  was started with, and the two are in the same round; every request since then is
  bounded by a value both hold; a result document implies every other document
  on both sides, clean audits on both sides, and equal digests.
- `FailureHasCause` (series): a series fails only if a message, a process or a
  write was lost, a message overtook its receiver, or the sides really differ.
  A round that both sides wait on for good would violate it.
- `KeepsContract`: refinement of `SeriesContract`, and both processes end.

The symmetric-push wire:

- `HonestTurnAccepted`: no copy of an honest turn is ever refused as a flood or
  as equivocation. `KeepsStream`: refinement of `TurnStream`, and every sealed
  turn is taken.
- `EveryClaimAnswered`: the turn after a claim answers that claim, and truly.
- `EndsAreTrue`: what a side settles is what both sealed chains show, and sides
  that both settle agree, unless walls ended the thief.
- `ImplementsAlternating`: refinement of `AlternatingGame`, and both loops end.
- `NobodyOvertaken`: the gateway's cursor stays on a sub-game until its backend
  has handed it back, and an acknowledged greeting is held by the backend that is to play it, but
  for the first greeting of a peer that calls before that backend opened its sub-game
  and, in a series of more than six, a backend that a mislaid turn and disclosure
  carried past the peer.
- `TrafficIsOwn`: a backend is greeted for, plays and verifies its own sub-game with its
  own traffic, exactly under the two conditions named (a peer that declares; a
  disclosure forwarded once).
- `AgreedIsWholeAndMutual`: an agreed result covers the whole series and was
  settled in both directions.
- `KeepsSeries`: refinement of `GroupSeries`, and both backends return, unless one
  failed or the peer left.

The record, its report and its provider:

- `ResultCompletesTheSet`: a result on the disk finds every other file beside it,
  from the same start of the gateway, with the outcomes of its own rows, of a
  counted run both groups recorded alike; no series settles whose rows differ
  though its totals agree.
- `WrittenOnce`: no official file is ever replaced.
- `DuplicateHasCause`: a report goes out twice only if two invocations
  overlapped, an answer was lost or an invocation died before it had recorded.
- `DeliveryIsTrue`: a recorded delivery, or an exit status 0, is one that
  happened, of an agreed result. `DeliveryStaysRecorded`: only overlapping invocations unrecord a delivery.
- `LimitsKept`: what goes out keeps to the windows, the quota, the bucket and the
  latch, but for the retries of one call, which nobody asks again.
- `OneSleepIsEnough`: the wait a mechanism names is exact.

Processes and routes:

- `EndedIsReleased`: a run that is over holds no socket, server or session, but for
  a cancellation in the one await of `serve`.
- `PlayIsMutual`: an agent in its series and the live process opposite have each
  taken the other's Step-0, unless that process replaced one that did.
- `NeverIssuedTwice`: a request that reached the other's dispatcher is not made
  again, though the session under it may be remade.
- `BothMeet` (liveness): two agents started within one budget, and met by no fault,
  reach their series.
- `RouteReleased`: a route that is over leaves no agent running and no server held,
  unless a server's own exception cut the release short.
- `StepZeroIsWhole`: an opponent told its Step-0 succeeded finds all of it done.
- `ConsentIsAuthenticated`: counted play is consented to only on the endpoint our
  authenticated declaration names, unless a re-established tunnel was never
  looked at again.

Research and replay:

- `PoliciesAreSound`: every policy answers lawfully in every state a game reaches, and is
  never left without an answer; the distances it weighs are walks, and all
  landings of one actor see one region.
- `EvidenceIsTheTrail`: what a side believes lies between the largest and the sum
  of the decayed emissions of the cells the other decided from, never above the
  saturation at 0.9, nothing out of their windows, and full on the last of them.
- `WhatIsJudgedIsFrozen`: a verdict is on the whole sealed set, and it and both
  measurements of a freeze that says validated are by the frozen source, whoever edits
  or overlaps, unless the edit came between a command's import of the candidate and
  its digest. `ReplacedOnlyInARace`: a published
  result is replaced only by an evaluation that had passed every check before it.
- `SealedSeedsAreFresh`: no row of a working bank speaks of a sealed scenario whose
  play depends on its seed.
- `HonestyStands`: the log of honest play replays to the end with the cells and board
  of the play, and the honest side is blamed for nothing the other did, as long as
  the other's disclosure restates what it locked.
- `AlterationIsNoticed`: no change of a sealed member, digest, step or nonce gets a
  clean and complete report.
- `ReplayRepeatsReview`: the viewer shows its first violation at the step the review
  recorded it.

*Bounds.* A corridor of four cells is the smallest board on which a barrier lands on
the thief, closes its last way out, or walls in a police that has caught nobody. Three rounds
give a first round, a middle round (opened by an adoption, closed by another) and a
last one that ends by survival, with capture possible in each but the first; a fourth repeats the
middle one. Quota 2 is reached within three rounds. The alternating game starts with
the players closer and needs a step more, for a way out closed next to the threshold. Five turns are
the fewest on which a turn can lie past the window of a receiver that lost count
of what it released. Two sub-games give a first round (proposed by the lower group
only), a later round (opened by a close), and a last close. The series of the
gateway has all six sub-games of the code: a disclosure forwarded twice shows its effect
only two sub-games on. Two configs and two models let the sides start equal,
differ in one, or in both.

Three sub-games are the fewest in which two different series have the same totals and
the same number of sub-games won; two starts of the gateway give a first and a
repeated one; with two invocations the gateway's report overlaps an operator's. In `Gatekeeper` each limit is
reached, and each window, the day included, is left again while the next stamps are
in it. Two launches of each agent give a restart of either; a budget of two pauses
an attempt that fails, one that succeeds and one too late. The endpoints of
`PublicRoute` are one for each answer of the public check. The research board has
inner cells, edges and corners, its outer columns are out of each other's scent, two
walls can cut off a corner of it and spend the quota while the game is open, and on
it every opening is played; three seeds to a bank are enough for two of them to draw
one opening, and two edits for a source to be changed and put back around a digest. A sub-game of two rounds has a first
step, whose start is known, and a later one, whose start must be replayed. The
locked minimums of the real game (7x7, 35 steps, 14 barriers) are outside TLC's
reach and inside the theorems'.

*Fairness.* `KitDelivery`: a client that was not acknowledged keeps pushing
(`WF(PushAgain)`), the network does not lose every copy of a turn and every
acknowledgement of it (`SF(Accepted)`, an assumption about the world that the
code cannot make true), and a woken loop runs (`WF(Take)`). `KitSeries`:
both processes and the peer go on (`WF(Run)`, `WF(Send)`, `WF(Proceed)`), the
settlement window closes (`WF(WindowCloses)`), and a call that is made again and
again is forwarded and answered in the end (two `SF`, again about the network);
no failure and no leaving is assumed, and `SeriesEnds` allows for both.
`AgentLifecycle`: a running process keeps running, the clock ticks, and an operator
starts each agent once; no fault is ever due. `TurnExchange`,
`SeriesProtocol` and `KitSubGame` assume that no message arrives: an awake coroutine is
run by its loop (`WF(Drive)`), a request is answered or the session deadline ends
it (`WF(Serve or LoseCall)`, `transport/session_deadline.py`), and
`asyncio.wait_for` reaches the locked deadline (`WF(Timeout)`). The other modules
are checked for safety only, and their configs say that the system may stop.

*Mutants.* Each checked property is broken by a plausible bug in the mapped
code, kept next to the original and marked `Mutant`. In the exchange: a reveal that
waits for nothing, a merge that forgets the peer's barrier, an answer from the cell
after the move, a lock that forgets the acknowledgement already received, a move
applied on the merged board; in the series: a lock that compares no digest, a round that is always reopened,
a digest of the last sub-game only; on the symmetric-push wire: a receiver that counts
a released run wrongly or applies what comes, only captures answered, survival read
before the answer, no last message; at the gateway: a greeting assigned too early, a
sub-game opened with the turns of the one before, a settlement heard in one direction,
files that ask for no agreement; of the record and report: a result written before the
last log, a file of another start replaced, everything but a refusal retried, a
delivery assumed, a record not looked up; of the gatekeeper: a window full one late,
the first wait instead of the longest; of the lifecycle: serving and connecting welded
together, a stop that only knows connected runtimes, any failed call taken for one that
never arrived, a series opened on half a Step-0; of the route: an ingress closed only
if it came up, a binding that forgives, a best-effort answer; of research: a target
that is not checked, a trail one move ahead, a seed that ignores its bank, a digest of
the name, a publication without its check; of the log and viewer: a disclosure checked
against itself alone, a log of one side only, an audit that could not be made reported
as a clean one.

*Sentences of the code that do not hold.* The models contain what happens instead;
each was seen as a counterexample of a stronger property before the property was
stated with its exception.

In the exchange and the series:

- `SubGameDriver.open` (`app/sub_game_driver.py:78`): a faster peer "finds our
  runtime already waiting". A race can end the sub-game for both sides without a
  fault: the cause `"overtaken"` of `FailureHasCause`. The same seam exists at the
  first commitment of a sub-game, at the final nonces, and between two sub-games
  (`SeriesDriver.open`, a later round "opens the moment the previous one closes").
- `BaselineStrategy.choose_action` calls an actor without an action "a terminal
  the caller settles": the cause `"cornered"`.

On the symmetric-push wire:

- A thief ended by the walls around it has no way to say so. `KitSubGame._settle`
  exists so that two reports never describe one game differently, but its last
  message carries only the answer to the police's claim, and that is "not caught".
  One step before the threshold that message also claims survival, and the two
  sides return different outcomes; earlier, the police plays on into its timeout;
  on a barrier on its own cell the forced `STAY` is refused and the thief raises.
  `EndsAreTrue` and the cause `"unsaid"` show that this is the only disagreement.
- `KitFriendlySession.open_sub_game`: late traffic "cannot be mistaken" for the
  next sub-game's. A disclosure forwarded twice by the gateway's own retry is: the
  audit slot does not ask which sub-game it is for. The next sub-game is then
  verified with it, may end early, and a turn of it may reach the one after.
- "Omission never refuses": a greeting that names no sub-game is taken for the live
  one, settled or not.
- `KitGroupGateway.negotiate`, "the acknowledgement means **assigned**": a backend
  serves before it opens its first sub-game, and opening discards the greeting it
  acknowledged in between. So the first greeting of an early peer may be
  acknowledged and lost, after which both sides wait for their deadlines: the
  exception of `NobodyOvertaken`, and the reason `SeriesEnds` asks for a peer that is
  not early. It cannot happen to a later greeting.

In the record:

- "Sent once, across restarts too" (`send_game_report`): `DuplicateHasCause` has the three
  exceptions. In an overlap, the invocation that fails last writes over the other's
  delivery, and the next one mails the report again.
- A gateway that failed between two official files can never complete the set: a
  new start has other nonces and another time, and its files are refused.
- The stored result carries the time of writing, not that of the agreed core, and
  leaves out commits and tokens, so that `result_sha256` cannot be recomputed from
  the file and the two groups' files differ.
- A spent quota means that "no further request goes out" (`gatekeeper_quota`): it
  means no further call. The slack of `LimitsKept` is that of the retries.

In the processes:

- A cancellation in the one await of `serve` (`agent_runtime.py:74`) and of
  `serve_http` (`kit_serving.py:51`) leaves a server held by nobody.
- `KitPublicLauncher.close` stops at the first server that raised
  (`kit_public_launcher.py:120`); `NgrokProcess.start` looks at its deadline only
  between two lines of output.
- A Step-0 that was accepted but whose own half could not be sent is refused as
  stale ever after (`compose_gateway.py:161`), so the opponent's retry is in vain.
- A peer restarted after it answered our Step-0 has not authenticated the series we
  open on it (`transport/session_hold.py:126`): the exception of `PlayIsMutual`.

In research and replay:

- "Exactly once, ever" (`research/final_evaluation.py:71`): two evaluations that overlap both
  publish, over one staging name. The candidate's digest in the document is read
  after play, `latency.json` carries none, and the freeze is not asked for.
- "The candidate is checked before it is run" (`research/validation.py:3`) and "against
  **one** frozen candidate" (`research/final_evaluation.py:4`): the module is imported first
  (`validation.py:22`, `final_evaluation.py:77`) and its file digested afterwards
  (`validation.py:112`, `final_evaluation.py:86`), so a source that is put back in
  between is played under the frozen digest: the exception of `WhatIsJudgedIsFrozen`.
- "The digest of the module that defines this candidate's behaviour"
  (`research/candidates/registry.py:38`): C4 plays behind the shipped mover
  (`registry.py:74`), whose file is no part of its digest.
- "No game has been played on it" (`research/seeds.py`): sealed scenarios of
  families whose play ignores the seed are scenarios of the working banks too.
- "Only the lower clamp is locked, so a re-emission may legitimately exceed 0.9"
  (`domain/scent.py:5`): `_advance` takes the least of 0.9 and the sum, and a field
  above it is refused; `EvidenceIsTheTrail` bounds what is believed by 0.9.
- "every shape that is not a log ends in a `ReplayError` [...] rather than in a
  traceback" (`app/replay_log.py:5`): `replay_main` catches only `ReplayError`. A
  commit entry without its action ends in a `KeyError` (`replay_session.py:64`), one
  whose action is not an action in a `MalformedMessageError` (`codec_replay.py:25`),
  and a log whose finding is an illegal placement in an `InvalidBarrierError`.
- The viewer checks a disclosed entry against the digest disclosed with it, so a
  log recorded as tampered may replay "Verified OK"; a truncated tail that leaves a
  step and an edited reveal entry go unnoticed, and the official logs of the counted wire, which carry no review,
  are refused.
- `review_sub_game` judges disclosed actions: if the audit already failed, it may
  blame the honest side for an answer to an action it was never shown.

## 4. What is proved

Each theorem holds for every value of the constants its assumptions admit, under
every interleaving, loss and crash of its module. The states in which a property is
inductive are described by *links*, one conjunct for each thing that is known of two
pieces of state at once.

### The exchange

From `BoardAssumption` alone (a board with at least one cell, a quota, a
survival threshold between one and the step ceiling, two distinct roles that
start on the board):

- `TypeCorrect` (`TurnExchange_proofs`): `Spec => []TypeOK`. `TypeOK` is not
  inductive: that `Adopt` stores a cell of the board needs the chosen action to
  have been lawful on the cell the driver still stands on, that it folds an
  outcome and not a bare receipt needs the reply to belong to a reveal, and that
  no runtime is opened past the threshold needs the step a driver counts to be
  tied to the cursor bound. `TypeInv` adds these as `RoundLink`, `RecordLink`,
  `PhaseLink` and `CallLink`.
- `FairExchangeHolds` (`TurnExchange_proofs`): `Spec => []FairExchange`. `FairInv`
  follows one digest along its round: what we registered is the last record
  sealed (`SealLink`), what is in flight is what was registered (`FlightLink`),
  what the peer stored is what was in flight (`TheirsLink`), an acknowledgement
  names it (`AckLink`), a reveal follows an acknowledgement (`RevealLink`), what
  was seen is a reveal (`SeenLink`), and the hand-over to the audit keeps it
  (`WitnessLink`, `MilestoneLink`). The lemma `QuietFair` dismisses the actions
  that touch none of it, so that the proof of a step is about the four or five
  actions that do.
- `CopiesAlwaysAgree` (`TurnExchange_proofs`): `Spec => []CopiesAgree`. Nothing compares
  the two boards, so the proof compares each with a third thing: the two logs of
  sealed records determine the board before a round, the cell a role begins it on
  and the answer to its capture question (`BoardBefore`, `CellBefore`, `Asked`), and
  `GameInv` (over `FairInv`) reads every copy off them: what each driver holds
  (`TruthLink`), the runtime it bound (`BoundLink`), what it prepared and was
  answered (`PreparedLink`, `AnswerLink`), what it witnessed and was told
  (`ShownLink`, `ToldLink`), and how far one log may run ahead of the other
  (`LogLink`). Two copies at the same round are then the same.
- `HonestPlayIsClean`: `Spec => []HonestPlayAuditsClean`. `AuditInv` adds that a
  disclosure in flight, stored or judged is the log itself (`AuditLink`); that the
  replay of two such logs finds nothing is a lemma about the rules (every round of
  the log is lawful on the board the log determines).
- `FailuresHaveCauses`: `Spec => []FailureHasCause`. `CauseInv` says where each driver
  may stand relative to the other while nothing was lost: what it has
  outstanding (`RequestLink`), how far the two may be apart in a round
  (`PaceLink`) and at the end (`CloseLink`), and that what it was served is recorded
  on the other side (`ServedLink`). A request that comes in its turn is then admitted
  (`PromptAdmits`), and a wait that is not over is for a peer that can act or has a
  request on its way (`PeerStirs`): two drivers that both wait would be in the same
  round, each with the other's messages of that round recorded.
- `PlaysLockstep`: `Spec => Game!Spec`, the safety half of `ImplementsLockstep`. A step
  is a round of the lockstep game exactly when it is the first adoption of that
  round (`Mapped`), and stutters otherwise.

### The series

From `SeriesAssumption` alone (at least one sub-game), for a series of any length,
any configs and any models, equal or not (`SeriesProtocol_proofs`):

- `AgreedThroughoutHolds`: `Spec => []AgreedThroughout`. The
  invariant `SeriesInv` is a chain. The open round is that of the cursor, with this
  side's own config in it (`RoundLink`); evidence in flight is of what its sender was
  started with, for the round it is in (`EvidenceLink`); so whoever is locked shares
  the other's terms and is not ahead of it (`LockLink`), and so does whoever bound a
  sub-game (`OwnerLink`) or is bounded by the agreed deadline (`DeadlineLink`). At the
  end, the lines are complete and nothing more is written once a result is built
  (`LinesLink`, `ResultLink`), a digest in flight or retained is what the other
  computed over its own lines (`DigestLink`), and the files follow the lines
  (`FilesLink`, `AgreedLink`). That a digest covers the whole series is what makes two
  equal digests two equal series.
- `ImplementsContract`: `Spec => Contract!Spec`, the safety half of `KeepsContract`. A
  step of the protocol closes a sub-game that the other has reached (`OwnerLink`), or
  publishes what both recorded (`AgreedFacts`), or leaves the contract alone.
- `FailuresHaveCauses`: `Spec => []FailureHasCause`. `CauseInv` adds to `SeriesInv`
  that two sides without a cause and without a difference are `Orderly`: what one has
  sent for its sub-game (`Offered`, `Committed`, `Disclosed`, `Requested`) is what the
  other has heard of it (`HeardLink`, `AskedLink`), and each stands where what it
  heard allows (`SentLink`, `StageLink`, `OwnLink`, `BoundLink`). From it follow the
  two facts the theorem is about: a request finds an owner that admits it, or a
  driver with a step of its own left (`FindsItsOwner`), and a wait that is not over
  is for a driver that can run or a request on its way (`SomethingStirs`). Neither
  side is ever more than a sub-game ahead, and then only past its disclosure.

### The symmetric-push wire

From `KitBoardAssumption` and `BoardAssumption`, for every reorder window
(`KitSubGame_proofs`), all from one invariant, `SubGameInv`. Its heart is a count: what
one side has pushed, what the other's inbox was offered and what its loop has consumed
differ by one at most, all the way round (`CountLink`). So an inbox never buffers, holds
one turn at most, and refuses nothing an honest peer sends, copies and late arrivals
included (`InboxLink`, `CallLink`). What was pushed then determines what a
loop knows: its own cell and record (`HistoryLink`), the board but for a barrier on its
way (`BoardLink`), the answer it owes and the claim it answers (`AnswerLink`). The two
roles end for different reasons, so each has a link of its own (`PoliceEnd`, `ThiefEnd`),
and once the police stood where the thief stood it does not move again (`MetLink`).

- `EveryClaimIsAnswered`, `EndsAreTrueOnAnyBoard`: the two invariants of the run. The
  answer is computed a half-turn before it is sent, and true of the cell sealed then.
- `EveryFailureHasCause`: no honest turn or disclosure is refused, and where both sides
  wait and nothing is under way, the thief had come to an end it could not say
  (`SilenceHasCause`).
- `PlayedAlternately`: `Spec => Alternating!Spec`, the safety half of
  `ImplementsAlternating`. A push is a half-turn of the
  alternating game; every other step, a copy or a loss included, is a stutter.

From `DeliveryAssumption` and `WindowAssumption`, for any number of sub-games and turns
and an external client up to a window ahead (same module):

- `HonestTurnsAreAccepted`: `DeliverySpec => []HonestTurnAccepted`. What was played lies
  below the expected step, what is buffered above it, and what was acknowledged is one or
  the other (`ReceiverLink`); so the sender's window, counted from what was acknowledged,
  is never ahead of the receiver's, counted from what it expects.
- `DeliveryIsStream`: `DeliverySpec => Stream!Spec`, the safety half of `KeepsStream`. What was taken and what is ready are
  exactly the turns below the expected step, in order (`TakenLink`). That one copy
  releases a whole run of buffered turns, and no more, is the lemma about `Apply`
  (`RunsTo`); the end of the run is the least step that is missing, which exists because
  the order of the natural numbers is well founded.

### The symmetric-push series

From `SeriesAssumption` of `KitSeries` (two sub-games or more), whatever is lost and
whatever the peer omits, repeats or says early (`KitSeries_proofs`), all from one
invariant, `KitInv`. It says
what a call under way is about (`CallLink`, `PeerLink`), which sub-games were handed
back and in which order (`HandedLink`, `CursorLink`, `ReadyLink`), and of each backend
where its greeting, its turn and its disclosure come from (`PathLink`, `GreetLink`,
`HeardLink`, `AckLink`, `AuditLink`, `ReportLink`); `SilentLink` is what remains
true of a peer that does not declare its sub-game. TLC checked it for two, three, five
and eight sub-games.

- `NobodyIsOvertaken`, `TrafficStaysOwn`, `AgreementIsWholeAndMutual`: the three
  invariants of the run. For six sub-games the last exception of `NobodyOvertaken`
  is empty; in a longer series it is not: a turn and a disclosure that were mislaid
  (the disclosure forwarded twice by the gateway's retry) can play out a sub-game at its
  backend before the peer, just acknowledged for it, goes on.
  The attempt to prove the property without it found this.
- `KeepsOneSeries`: `Spec => Group!Spec`, the safety half of `KeepsSeries`.

### The record and its report

From `ReportingAssumption` (a natural number of retries), for any set of
invocations, finite or not (`CountedRecord_proofs`):

- `DeliveryIsTrueHolds`, `DuplicateHasCauseHolds`, `DeliveryStaysRecordedHolds`
  and `TypeCorrect`, all from the invariant `ReportInv`. What
  a process believes of the provider is what the provider did (`BeliefLink`);
  without an overlap one process works at a time and none that sends had found a
  delivery (`AloneLink`); without any cause the report went out at most once, and
  whoever sent it has recorded it or is about to (`OnceLink`). The invocation
  that closes its record is the one place where the last two meet.

And from `RecordAssumption` (at least one sub-game, a number of starts, a
gateway among the invocations):

- `RecordImplementsReporting`: `RecordSpec => Spec`. Every
  step of the gateway is a step of the report (its write of the result is `Publish`,
  its crash is the crash of the report it was making) or leaves the report alone. So
  `RecordDeliveryIsTrue` follows, and the other theorems of the report hold
  of the composition too.
- `WrittenOnceHolds`: `RecordSpec => WrittenOnce`, for any number of sub-games, starts and faults.
  The invariant is `StagedIsFree`: a temporary copy exists only for a name that is
  still free, which is why the replacing step needs no look at the disk.
- `ResultCompletesTheSetHolds`: `RecordSpec => []ResultCompletesTheSet`. `RecordInv`
  follows the set through one start: what the collectors hold is of this start
  (`HeldLink`), a settled series was held whole and agreed (`SettledLink`), a file
  that was passed is on the disk with this start's content (`WritingLink`), and a
  result on the disk keeps its company (`ResultLink`). A file an earlier start left
  with other content stops this one before its result, which is what makes the set of
  one attempt.

### Processes, routes and research

- `EndedIsReleasedHolds` and `NeverIssuedTwiceHolds` (`AgentLifecycle_proofs`), from
  `LifeInv`, whatever the budget, and without a use of there being two agents: a runtime
  is live exactly from its service to its stop (`HoldsLink`), and a call that may still
  be issued was never dispatched (`CallLink`).
- `PlayIsMutualHolds`, from `PairAssumption` (exactly two agents): whoever
  answered our Step-0 took it (`TookStepZero`), and whoever is in its series has that
  answer and a Step-0 of the other (`MutualLink`).
- `RouteReleasedHolds`, `StepZeroIsWholeHolds` and `ConsentIsAuthenticatedHolds`
  (`PublicRoute_proofs`), from no assumption, each with an invariant of its own: the
  agent stops before
  the servers are let go (`ReleaseLink`), the declaration precedes our half and is
  never taken back (`StepZeroLink`), and an endpoint other than the authenticated one
  is marked stale or was never looked at (`BindingLink`).
- `LimitsAreKept` and `OneSleepSuffices` (`PublicRoute_proofs`, whose polls go through
  the gatekeeper), from `PolicyAssumption`, for any limits, windows, retries and backoffs.
  `GateInv` ties what a window counts to where the call is: an admitted call found room
  for one attempt, and each repeated one takes one more (`WindowLink`); no call begins
  once the detector latched, so only the call that latched it overshoots (`LatchLink`).
  The bucket is a potential: its level and what a window's calls took never exceed a full
  bucket and a share a tick (`BucketLink`), for every window at once. A call that sleeps
  waits for stamps that only grow older, and nothing is stamped meanwhile, so its wait is
  never longer than what is left of its sleep (`SleepLink`). That the stamps of a window
  are the last ones of the list is where the monotonic clock is used (`Sorted`).
- `WhatIsJudgedIsFrozenHolds`, `ReplacedOnlyInARaceHolds` and
  `SealedSeedsAreFreshHolds` (`ResearchProtocol_proofs`), from no assumption, for any
  number of commands,
  edits and seeds: what a command imported is what the disk holds until an edit
  crosses it, so what it digests is what it plays, to the end (`JudgedLink`); a
  measurement of the two banks is by the frozen source unless its command was crossed
  (`EvidenceLink`), whoever is past its look at the result when one is published is
  named in it (`RaceLink`), and every row of a bank's file is of that bank
  (`RowsLink`).

Each property was checked for a small instance by TLC first, and so were the
strengthenings that are not read off the code action by action: `FairInv`, `GameInv`,
`AuditInv`, `CauseInv` of both modules, `SubGameInv`, `DeliveryInv`, `GateInv`,
`ReportInv`, `RecordInv`, `MutualInv`, `KitInv`. `TypeOK` of `TurnExchange` and of `Reporting` is proved and
therefore in no run.

### Only model-checked

- `PoliciesAreSound` and `EvidenceIsTheTrail` of `ResearchArena`, and the three
  properties of `ReplayViewer`: they are about what recursive definitions compute (the
  region of a cell, a fold of emissions, the review of a log), which takes an induction
  over data that the prover cannot do.
- Liveness under fairness: `BothMeet`, the termination in `ImplementsLockstep`,
  `KeepsContract` and `ImplementsAlternating`, the delivery in `KeepsStream`, and the
  end of a series in `KeepsSeries`. What the proofs give of it is the safety side: a side
  that gave up had a cause (`FailureHasCause`).

## 5. Not modelled, and why

- Canonical encodings, keyed proofs and the shapes on the wire: pure functions, assumed
  injective and sound. `kit_peer_audit`'s recomputation of a chain is abstracted to
  the tag of the disclosure it verifies.
- The GUI, the live view, the SDK and the settings loader: they present or carry
  facts decided elsewhere and keep no state a property could be about.
- The watchdog of `peer_supervision`: nothing starts it.
- `friendly_merge` and the statistics, charts and notebook of the research, whose output
  no program reads back; the bootstrap intervals are the constant `Measured`.
- The settlement's linger, which nothing but the window ends once a settlement was
  taken, and the wait of `agree_result`, longer than the window it runs in: both
  are one step here (`WindowCloses`).
- A backend that played its last sub-game but not the series' last one returns at
  once, so a retry of its disclosure finds nobody; in `KitSeries` it is the loss of a call.
- A dishonest peer, outside `SubGameLog`: elsewhere the properties are those of two
  correct programs, which is what this code can promise. Code that only rejects a
  forger is a guard that is true.

## 6. Plan

Done: the turn exchange with its audit, the series, the
symmetric-push sub-game with its delivery contract, the group's series behind its
gateway, the report and the counted record, the gatekeeper, the
agents' lifecycle, the public route, the research arena and protocol, and the log with
its viewer. Proved: every safety property of the exchange, the series, the
symmetric-push sub-game and its delivery, the group's series, the report and record, the
gatekeeper, the lifecycle, the route and the research protocol, with the safety
halves of the five refinements and the composition of the report. Next:

1. The recursive definitions of `ResearchArena` and `ReplayViewer`, each stated as a
   relation between a step and the next one, so that their properties need no induction
   over data.
2. The end of the settlement in more detail: its linger, and the deadline of the
   result agreement.
3. The readiness and supervision of the two backends, so that `KitSeries` covers the
   start and the restart of a backend and not only its failure.
