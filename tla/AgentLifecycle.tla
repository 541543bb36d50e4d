--------------------------- MODULE AgentLifecycle ---------------------------
(***************************************************************************)
(* Two autonomous agents that boot each other: `AutonomousBoot.run` over   *)
(* `AgentRuntime`, `StartupBudget`, `PeerClient` and `HeldSession`.        *)
(*                                                                         *)
(* Each is a process started by hand: it binds its socket, serves, dials   *)
(* the other until its budget is spent, sends its Step-0 on the session it *)
(* holds, waits for the other's, plays, and puts everything away. Either   *)
(* may be killed and started again, cancelled at any await, lose a call or *)
(* its answer, or find that the other has retired the session it holds.    *)
(*                                                                         *)
(* A clock tick is the pause between two attempts to connect; a step of a  *)
(* process takes no time against it. What a turn says is not modelled: a   *)
(* call of the series is any call that needs an authenticated session.     *)
(***************************************************************************)
EXTENDS Integers

CONSTANTS
  Peers,          \* the two agents
  Budget,         \* `watchdog_timeout_sec` in pauses: dialling, awaiting Step-0
  SeriesCalls,    \* calls an agent makes in its series
  MaxLaunches,    \* bound: processes per agent
  MaxFaults       \* bound: faults in a behaviour

ASSUME PairAssumption == \E p, q \in Peers : p # q /\ Peers = {p, q}
ASSUME BoundsAssumption ==
  Budget \in Nat \ {0} /\ SeriesCalls \in Nat /\ MaxLaunches \in Nat /\ MaxFaults \in Nat

VARIABLES
  pc,        \* where `AutonomousBoot.run` is, "off" when there is no process
  process,   \* [Peers -> Nat]: launches so far; names the current process
  state,     \* `AgentRuntime.state`
  held,      \* what `serve` acquired: [listener, task]
  session,   \* `HeldSession`
  peer,      \* `PregameSessionRuntime.peer`: the process whose Step-0 was taken
  left,      \* ticks left of the bounded wait the agent is in
  calls,     \* calls of the series already answered
  flight,    \* the call in flight: [result, dispatched, remade]
  answered,  \* the process of the other that answered our Step-0
  cut,       \* the agent was cancelled in the one await of `serve`
  faults,    \* the faults so far
  late       \* a budget was spent before the other was ever started

vars == <<pc, process, state, held, session, peer, left, calls, flight, answered, cut, faults, late>>

Other(p) == CHOOSE o \in Peers : o # p
Nobody == 0

(* The bound socket and the server task over it.                           *)
Nothing == [listener |-> FALSE, task |-> "none"]

(* A session is on one process of the other, which may have retired it;    *)
(* Step-0 binds it to our identity.                                        *)
NoSession == [on |-> Nobody, live |-> FALSE, bound |-> FALSE]
SessionOn(o) == [on |-> process[o], live |-> TRUE, bound |-> FALSE]

Idle == [result |-> "none", dispatched |-> 0, remade |-> FALSE]

(* Mutant: serving and connecting welded together.                         *)
ServingConnected(o) == held[o].listener /\ held[o].task = "running" /\ state[o] = "RUNNING"

(* A process answers from the turn after it bound, connected or not.       *)
Serving(o) == held[o].listener /\ held[o].task = "running" /\ pc[o] # "settle"

Goes(p, where) == pc' = [pc EXCEPT ![p] = where]
Fault == faults < MaxFaults /\ faults' = faults + 1 /\ UNCHANGED late
Expires(p) == late' = (late \/ process[Other(p)] = 0) /\ UNCHANGED faults
NoFault == UNCHANGED <<faults, late>>

Init ==
  /\ pc = [p \in Peers |-> "off"] /\ process = [p \in Peers |-> 0]
  /\ state = [p \in Peers |-> "NEW"] /\ held = [p \in Peers |-> Nothing]
  /\ session = [p \in Peers |-> NoSession] /\ peer = [p \in Peers |-> Nobody]
  /\ left = [p \in Peers |-> 0] /\ calls = [p \in Peers |-> 0]
  /\ flight = [p \in Peers |-> Idle] /\ answered = [p \in Peers |-> Nobody]
  /\ cut = [p \in Peers |-> FALSE] /\ faults = 0 /\ late = FALSE

-----------------------------------------------------------------------------
(* The runtime.                                                            *)

(* Mutant: a runtime that serves but never connected is not stopped.       *)
StoppableRunning(p) == state[p] = "RUNNING"

(* `stop` acts on a live runtime only.                                     *)
Stoppable(p) == state[p] \in {"SERVING", "RUNNING"}

(* `stop`, which every failure reaches: CLOSED before anything is awaited, *)
(* and the session is exited only if the runtime was connected.            *)
Stop(p) ==
  IF Stoppable(p)
    THEN /\ state' = [state EXCEPT ![p] = "CLOSED"]
         /\ Goes(p, IF state[p] = "RUNNING" THEN "closing" ELSE "releasing")
    ELSE Goes(p, "ended") /\ UNCHANGED state

(* A process is started; `_listen` binds, or the address is taken and      *)
(* `run` ends with nothing held.                                           *)
Launch(p) ==
  /\ pc[p] = "off" /\ process[p] < MaxLaunches
  /\ process' = [process EXCEPT ![p] = @ + 1]
  /\ \/ /\ Goes(p, "settle") /\ NoFault
        /\ held' = [held EXCEPT ![p] = [listener |-> TRUE, task |-> "running"]]
     \/ Goes(p, "ended") /\ Fault /\ UNCHANGED held
  /\ UNCHANGED <<state, session, peer, left, calls, flight, answered, cut>>

(* The one turn `serve` gives its server: a server that is already done is *)
(* released and refused.                                                   *)
Settle(p) ==
  /\ pc[p] = "settle" /\ NoFault
  /\ IF held[p].task = "running"
       THEN /\ state' = [state EXCEPT ![p] = "SERVING"] /\ Goes(p, "dial")
            /\ left' = [left EXCEPT ![p] = Budget] /\ UNCHANGED held
       ELSE /\ held' = [held EXCEPT ![p] = Nothing] /\ Goes(p, "ended")
            /\ UNCHANGED <<state, left>>
  /\ UNCHANGED <<process, session, peer, calls, flight, answered, cut>>

(* `_open_session` and `PeerClient.__aenter__`. A connection to a process  *)
(* that is bound but not yet serving waits in the kernel's backlog.        *)
Connect(p) ==
  /\ pc[p] = "dial" /\ Serving(Other(p)) /\ NoFault
  /\ session' = [session EXCEPT ![p] = SessionOn(Other(p))]
  /\ state' = [state EXCEPT ![p] = "RUNNING"] /\ Goes(p, "hello")
  /\ UNCHANGED <<process, held, peer, left, calls, flight, answered, cut>>

(* `keep_trying`: a dial that fails is repeated after a pause, until the   *)
(* budget is spent.                                                        *)
ConnectFails(p) ==
  /\ pc[p] = "dial"
  /\ \/ /\ ~ held[Other(p)].listener
        /\ IF left[p] = 0 THEN Expires(p) ELSE NoFault
     \/ Fault
  /\ IF left[p] = 0 THEN Stop(p) ELSE Goes(p, "pause") /\ UNCHANGED state
  /\ UNCHANGED <<process, held, session, peer, left, calls, flight, answered, cut>>

(* `close_session` returns, tolerates its two endings, or raises; in every *)
(* case `stop` goes on to `release`.                                       *)
CloseSession(p) ==
  /\ pc[p] = "closing" /\ Goes(p, "releasing") /\ NoFault
  /\ session' = [session EXCEPT ![p] = NoSession]
  /\ UNCHANGED <<process, state, held, peer, left, calls, flight, answered, cut>>

(* `release`: the task is cancelled and awaited, the listener closed.      *)
Release(p) ==
  /\ pc[p] = "releasing" /\ Goes(p, "ended") /\ NoFault
  /\ held' = [held EXCEPT ![p] = Nothing]
  /\ UNCHANGED <<process, state, session, peer, left, calls, flight, answered, cut>>

-----------------------------------------------------------------------------
(* A call on the held session: Step-0 in "hello", any other in "play".     *)

Valid(p) == session[p].live /\ session[p].on = process[Other(p)]

(* `PregameSessionRuntime.accept_step0` takes one Step-0; every other      *)
(* operation needs the session that one was bound to.                      *)
Accepted(p) == IF pc[p] = "hello" THEN peer[Other(p)] = Nobody ELSE session[p].bound

Returns(p, result, dispatches) ==
  flight' = [flight EXCEPT ![p].result = result, ![p].dispatched = @ + dispatches]

(* The request and its answer. A server that has no such session answers   *)
(* 404 before any dispatch; a lost answer was dispatched all the same.     *)
Send(p) ==
  /\ \/ pc[p] = "hello"
     \/ pc[p] = "play" /\ calls[p] < SeriesCalls
  /\ flight[p].result = "none"
  /\ \/ /\ ~ Serving(Other(p)) \/ session[p] = NoSession
        /\ Returns(p, "failed", 0) /\ NoFault /\ UNCHANGED <<peer, session>>
     \/ Returns(p, "failed", 0) /\ Fault /\ UNCHANGED <<peer, session>>
     \/ /\ Serving(Other(p)) /\ session[p] # NoSession /\ ~ Valid(p)
        /\ Returns(p, "notFound", 0) /\ NoFault /\ UNCHANGED <<peer, session>>
     \/ /\ Serving(Other(p)) /\ Valid(p) /\ ~ Accepted(p)
        /\ Returns(p, "refused", 1) /\ NoFault /\ UNCHANGED <<peer, session>>
     \/ /\ Serving(Other(p)) /\ Valid(p) /\ Accepted(p)
        /\ \/ Returns(p, "ok", 1) /\ NoFault
           \/ Returns(p, "failed", 1) /\ Fault
        /\ IF pc[p] = "hello"
             THEN /\ peer' = [peer EXCEPT ![Other(p)] = process[p]]
                  /\ session' = [session EXCEPT ![p].bound = TRUE]
             ELSE UNCHANGED <<peer, session>>
  /\ UNCHANGED <<pc, process, state, held, left, calls, answered, cut>>

(* Mutant: any failed call is taken for one the peer never dispatched.     *)
NeverDispatchedAny(result) == result \in {"notFound", "failed"}

(* `session_not_found`.                                                    *)
NeverDispatched(result) == result = "notFound"

(* `HeldSession.run`: on that answer, and once per call, the session is    *)
(* closed and opened again; any other failure ends the run.                *)
Fail(p) ==
  /\ flight[p].result \in {"failed", "notFound", "refused"} /\ NoFault
  /\ IF NeverDispatched(flight[p].result) /\ ~ flight[p].remade
       THEN /\ flight' = [flight EXCEPT ![p].result = "remake", ![p].remade = TRUE]
            /\ session' = [session EXCEPT ![p] = NoSession]
            /\ UNCHANGED <<pc, state>>
       ELSE /\ flight' = [flight EXCEPT ![p].result = "raised"]
            /\ Stop(p) /\ UNCHANGED session
  /\ UNCHANGED <<process, held, peer, left, calls, answered, cut>>

(* `_remake`: the second call travels on a session of its own.             *)
Remake(p) ==
  /\ flight[p].result = "remake"
  /\ \/ /\ Serving(Other(p)) /\ NoFault
        /\ session' = [session EXCEPT ![p] = SessionOn(Other(p))]
        /\ flight' = [flight EXCEPT ![p].result = "none"]
     \/ /\ IF held[Other(p)].listener THEN Fault ELSE NoFault
        /\ flight' = [flight EXCEPT ![p].result = "failed"] /\ UNCHANGED session
  /\ UNCHANGED <<pc, process, state, held, peer, left, calls, answered, cut>>

(* The call answered: Step-0 is sent (`SeriesRuntime.start`), or the       *)
(* series goes on.                                                         *)
Answered(p) ==
  /\ flight[p].result = "ok" /\ NoFault
  /\ flight' = [flight EXCEPT ![p] = Idle]
  /\ IF pc[p] = "hello"
       THEN /\ Goes(p, "await") /\ left' = [left EXCEPT ![p] = Budget]
            /\ answered' = [answered EXCEPT ![p] = session[p].on] /\ UNCHANGED calls
       ELSE /\ calls' = [calls EXCEPT ![p] = @ + 1] /\ UNCHANGED <<pc, left, answered>>
  /\ UNCHANGED <<process, state, held, session, peer, cut>>

-----------------------------------------------------------------------------
(* The series.                                                             *)

(* Mutant: a series opens as soon as our own half of Step-0 was answered.  *)
StepZeroSent(p) == answered[p] # Nobody

(* `milestones.step0_seen`.                                                *)
StepZeroSeen(p) == peer[p] # Nobody

(* `await_peer_step0`, and the driver opens.                               *)
Open(p) ==
  /\ pc[p] = "await" /\ StepZeroSeen(p) /\ Goes(p, "play") /\ NoFault
  /\ UNCHANGED <<process, state, held, session, peer, left, calls, flight, answered, cut>>

AwaitExpires(p) ==
  /\ pc[p] = "await" /\ left[p] = 0 /\ ~ StepZeroSeen(p)
  /\ Stop(p) /\ Expires(p)
  /\ UNCHANGED <<process, held, session, peer, left, calls, flight, answered, cut>>

(* `play_series` returns.                                                  *)
SeriesEnds(p) ==
  /\ pc[p] = "play" /\ calls[p] = SeriesCalls /\ flight[p] = Idle
  /\ Stop(p) /\ NoFault
  /\ UNCHANGED <<process, held, session, peer, left, calls, flight, answered, cut>>

-----------------------------------------------------------------------------
(* Faults and time.                                                        *)

(* A cancellation lands at an await. In `serve` nothing catches it; in     *)
(* `stop` the `finally` still releases.                                    *)
Cancel(p) ==
  /\ pc[p] \in {"settle", "dial", "pause", "hello", "await", "play", "closing"}
  /\ Fault
  /\ \/ pc[p] = "settle" /\ Goes(p, "ended") /\ cut' = [cut EXCEPT ![p] = TRUE]
        /\ UNCHANGED <<state, session>>
     \/ pc[p] = "closing" /\ Goes(p, "releasing")
        /\ session' = [session EXCEPT ![p] = NoSession] /\ UNCHANGED <<state, cut>>
     \/ pc[p] \notin {"settle", "closing"} /\ Stop(p) /\ UNCHANGED <<session, cut>>
  /\ flight' = [flight EXCEPT ![p].result = "raised"]
  /\ UNCHANGED <<process, held, peer, left, calls, answered>>

(* The process dies, and with it everything it held.                       *)
Kill(p) ==
  /\ pc[p] # "off" /\ \/ pc[p] = "ended" /\ NoFault
                      \/ pc[p] # "ended" /\ Fault
  /\ Goes(p, "off") /\ state' = [state EXCEPT ![p] = "NEW"]
  /\ held' = [held EXCEPT ![p] = Nothing] /\ session' = [session EXCEPT ![p] = NoSession]
  /\ peer' = [peer EXCEPT ![p] = Nobody] /\ left' = [left EXCEPT ![p] = 0]
  /\ calls' = [calls EXCEPT ![p] = 0] /\ flight' = [flight EXCEPT ![p] = Idle]
  /\ answered' = [answered EXCEPT ![p] = Nobody] /\ cut' = [cut EXCEPT ![p] = FALSE]
  /\ UNCHANGED process

(* The server of a live process stops by itself, and nobody watches it.    *)
ServerDies(p) ==
  /\ held[p].task = "running" /\ Fault
  /\ held' = [held EXCEPT ![p].task = "done"]
  /\ UNCHANGED <<pc, process, state, session, peer, left, calls, flight, answered, cut>>

(* The other retires the session held on it: idle, or its tunnel remade.   *)
Retire(p) ==
  /\ session[p].live /\ Valid(p) /\ Fault
  /\ session' = [session EXCEPT ![p].live = FALSE]
  /\ UNCHANGED <<pc, process, state, held, peer, left, calls, flight, answered, cut>>

Waiting(p) ==
  \/ pc[p] \in {"off", "ended", "pause"}
  \/ pc[p] = "await" /\ ~ StepZeroSeen(p)

(* One pause goes by, when no process has anything left to do in it.       *)
Tick ==
  /\ \A p \in Peers : Waiting(p)
  /\ \A p \in Peers : pc[p] = "await" => left[p] > 0
  /\ \E p \in Peers : pc[p] \in {"pause", "await"}
  /\ left' = [p \in Peers |-> IF pc[p] \in {"pause", "await"} THEN left[p] - 1 ELSE left[p]]
  /\ pc' = [p \in Peers |-> IF pc[p] = "pause" THEN "dial" ELSE pc[p]]
  /\ NoFault
  /\ UNCHANGED <<process, state, held, session, peer, calls, flight, answered, cut>>

Step(p) ==
  \/ Settle(p) \/ Connect(p) \/ ConnectFails(p) \/ CloseSession(p) \/ Release(p)
  \/ Send(p) \/ Fail(p) \/ Remake(p) \/ Answered(p)
  \/ Open(p) \/ AwaitExpires(p) \/ SeriesEnds(p)

Next ==
  \/ \E p \in Peers : Launch(p) \/ Step(p) \/ Cancel(p) \/ Kill(p) \/ ServerDies(p) \/ Retire(p)
  \/ Tick

(* A process that is running keeps running, and a clock keeps ticking; an  *)
(* operator starts each agent. No fault is ever due: what is fair is what  *)
(* happens without one.                                                    *)
Fairness ==
  /\ \A p \in Peers : /\ WF_vars(Step(p) /\ UNCHANGED faults)
                        /\ WF_vars(process[p] = 0 /\ Launch(p) /\ UNCHANGED faults)
  /\ WF_vars(Tick)

Spec == Init /\ [][Next]_vars
FairSpec == Spec /\ Fairness

-----------------------------------------------------------------------------
(* Properties.                                                             *)

(* A run of an agent that is over holds no socket, no server and no        *)
(* session, whatever ended it and wherever (`AgentRuntime.stop`), but for  *)
(* a cancellation in the one await of `serve`.                             *)
EndedIsReleased ==
  \A p \in Peers : pc[p] = "ended" /\ ~ cut[p] => held[p] = Nothing /\ session[p] = NoSession

(* Step-0 is mutual: an agent in its series and the live process opposite  *)
(* have each taken the other's Step-0, unless that process replaced one    *)
(* that took part and died (`start` and `await_peer_step0` together).      *)
PlayIsMutual ==
  \A p \in Peers : LET o == Other(p) IN
    pc[p] = "play" /\ pc[o] # "off" =>
      \/ peer[p] = process[o] /\ peer[o] = process[p]
      \/ \E q \in {peer[p], answered[p]} \ {Nobody} : q < process[o]

(* A request that reached the other's dispatcher is never issued again,    *)
(* though the session under it may be remade (`HeldSession.run`).          *)
NeverIssuedTwice == \A p \in Peers : flight[p].dispatched <= 1

(* Two agents started by hand, in any order and within one budget, and met *)
(* by no fault, both reach their series: serving comes before connecting,  *)
(* so neither waits for the other's dial.                                  *)
BothMeet == \A p \in Peers : <>(faults > 0 \/ late \/ pc[p] = "play")
=============================================================================
