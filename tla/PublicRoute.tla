---------------------------- MODULE PublicRoute ----------------------------
(***************************************************************************)
(* The group's public route: `KitPublicLauncher` opening and closing it,   *)
(* `PublicNetworkService` and the tunnel provider's agent behind it, and   *)
(* the authenticated Step-0 that arrives on it (`compose_gateway`).        *)
(*                                                                         *)
(* Opening acquires two served tool surfaces, an agent process and an      *)
(* endpoint, in that order; any step may fail or be interrupted, and what  *)
(* was acquired is put away in reverse. The agent, its listing of tunnels, *)
(* the name service and the opponent are the environment.                  *)
(***************************************************************************)
EXTENDS Integers, FiniteSets, Sequences

CONSTANTS
  Endpoints,      \* [secure, bare, mcp: BOOLEAN, host]: what a provider may announce
  LocalNames,     \* `_LOCAL_NAMES`
  Resolves,       \* [host -> set of addresses]
  Global,         \* the addresses that are global
  Declared,       \* the endpoint our own declaration names, or None
  None,
  MaxPolls,       \* polls before `discovery_seconds` are over
  MaxTunnels,     \* bound: agents started in a behaviour
  MaxCalls        \* bound: Step-0 calls of the opponent

ASSUME PublicRouteAssumption ==
  /\ MaxPolls \in Nat /\ MaxTunnels \in Nat /\ MaxCalls \in Nat
  /\ None \notin Endpoints /\ Declared \in Endpoints \cup {None}

VARIABLES
  pc,          \* where `serve(launcher)` is
  served,      \* `_served`: the surfaces whose server and socket are held
  broken,      \* the surfaces whose server task ended with an exception
  stray,       \* a surface cut off inside `serve_http`, held by nobody
  agent,       \* `NgrokProcess.process`: "none", "silent", "up" or "dead"
  tunnels,     \* agents started so far
  polls,
  ingress,     \* `NgrokPublicIngress.endpoint`
  own,         \* `PublicNetworkService.own`
  endpoint,    \* `KitPublicLauncher.endpoint`
  upstream,    \* the surface the chosen tunnel leads to
  binding,     \* `EndpointBinding`: [authenticated, stale]
  consent,     \* counted play was consented to, on this `own`
  unseen,      \* re-established since the endpoint was last compared
  exchange,    \* our side of Step-0: [peer, written, declaration]
  opponent     \* theirs: [calls, open, ok, half]

route == <<pc, served, broken, stray, agent, tunnels, polls, ingress, own, endpoint, upstream>>
network == <<binding, consent, unseen>>
stepZero == <<exchange, opponent>>
vars == <<route, network, stepZero>>

Surfaces == {"tools", "admin"}

-----------------------------------------------------------------------------
(* Endpoints.                                                              *)

(* `is_public_endpoint`: https, no user, query or fragment, the MCP path,  *)
(* and a name every address of which is global.                            *)
IsPublic(e) ==
  /\ e.secure /\ e.bare /\ e.mcp
  /\ e.host \notin LocalNames
  /\ Resolves[e.host] # {} /\ Resolves[e.host] \subseteq Global

(* An entry of the agent's listing: an endpoint and the surface behind it. *)
Listed == [endpoint : Endpoints, port : Surfaces \cup {"elsewhere"}]

(* `select_for`: a secure tunnel to the port of the public tools.          *)
Select(entry) == entry.endpoint.secure /\ entry.port = "tools"

-----------------------------------------------------------------------------
(* Opening.                                                                *)

Init ==
  /\ pc = "tools" /\ served = <<>> /\ broken = {} /\ stray = {}
  /\ agent = "none" /\ tunnels = 0 /\ polls = 0
  /\ ingress = None /\ own = None /\ endpoint = None /\ upstream = None
  /\ binding = [authenticated |-> None, stale |-> FALSE]
  /\ consent = None /\ unseen = FALSE
  /\ exchange = [peer |-> FALSE, written |-> FALSE, declaration |-> FALSE, sending |-> FALSE]
  /\ opponent = [calls |-> 0, ok |-> FALSE, half |-> FALSE]

(* Whatever is raised in `open`, and the end of `serve`, closes.           *)
Raises == pc' = "routes" /\ endpoint' = None

(* `_serve` and `serve_http`: bound and served, or the port is taken; a    *)
(* cancellation in its one await leaves a server nobody holds.             *)
Serve(s) ==
  /\ pc = s
  /\ \/ served' = Append(served, s) /\ pc' = (IF s = "tools" THEN "admin" ELSE "spawn")
        /\ UNCHANGED <<stray, endpoint>>
     \/ Raises /\ UNCHANGED <<served, stray>>
     \/ Raises /\ stray' = stray \cup {s} /\ UNCHANGED served
  /\ UNCHANGED <<broken, agent, tunnels, polls, ingress, own, upstream, network, stepZero>>

(* `NgrokProcess.start`: the agent is spawned, or cannot be.               *)
Spawn ==
  /\ pc = "spawn" /\ tunnels < MaxTunnels
  /\ tunnels' = tunnels + 1 /\ polls' = 0
  /\ \/ agent' = "silent" /\ pc' = "start" /\ UNCHANGED endpoint
     \/ Raises /\ UNCHANGED agent
  /\ UNCHANGED <<served, broken, stray, ingress, own, upstream, network, stepZero>>

(* It reports its API address; or an error, the end of its output or the   *)
(* deadline stops it. An agent that says nothing is waited for.            *)
AgentReports ==
  /\ pc = "start"
  /\ \/ agent' = "up" /\ pc' = "discover" /\ UNCHANGED endpoint
     \/ agent' = "none" /\ Raises
  /\ UNCHANGED <<served, broken, stray, tunnels, polls, ingress, own, upstream, network, stepZero>>

(* `_discover`: the listing is read through the gate until a tunnel to our *)
(* port shows; a deadline or a malformed listing stops the agent, and a    *)
(* refusal of the gate leaves it to `close`.                               *)
Poll ==
  /\ pc = "discover" /\ polls' = polls + 1
  /\ \/ \E entry \in Listed :
          /\ Select(entry)
          /\ ingress' = entry.endpoint /\ upstream' = entry.port
          /\ pc' = "judge" /\ UNCHANGED <<agent, endpoint>>
     \/ polls < MaxPolls /\ UNCHANGED <<pc, agent, endpoint, ingress, upstream>>
     \/ agent' = "none" /\ Raises /\ UNCHANGED <<ingress, upstream>>
     \/ Raises /\ UNCHANGED <<agent, ingress, upstream>>
  /\ UNCHANGED <<served, broken, stray, tunnels, own, network, stepZero>>

(* `establish`: an endpoint unfit for counted play closes the ingress.     *)
Judge ==
  /\ pc = "judge"
  /\ IF IsPublic(ingress)
       THEN own' = ingress /\ pc' = "compare" /\ UNCHANGED <<agent, ingress, endpoint>>
       ELSE agent' = "none" /\ ingress' = None /\ Raises /\ UNCHANGED own
  /\ UNCHANGED <<served, broken, stray, tunnels, polls, upstream, network, stepZero>>

(* `_require_declared`.                                                    *)
Compare ==
  /\ pc = "compare"
  /\ IF Declared \in {None, own} THEN endpoint' = own /\ pc' = "live" ELSE Raises
  /\ UNCHANGED <<served, broken, stray, agent, tunnels, polls, ingress, own, upstream,
                 network, stepZero>>

(* Ctrl-C: at an await, or in the middle of a blocking wait.               *)
Interrupt ==
  /\ pc \in {"spawn", "start", "discover", "judge", "live"} /\ Raises
  /\ UNCHANGED <<served, broken, stray, agent, tunnels, polls, ingress, own, upstream,
                 network, stepZero>>

-----------------------------------------------------------------------------
(* Closing.                                                                *)

(* `close` goes on to the ingress whether the routes close or raise.       *)
CloseRoutes ==
  /\ pc = "routes" /\ pc' = "ingress"
  /\ UNCHANGED <<served, broken, stray, agent, tunnels, polls, ingress, own, endpoint, upstream,
                 network, stepZero>>

(* Mutant: only an ingress that came up is closed.                         *)
StopsOnlyLive(a) == IF ingress = None THEN a ELSE "none"

(* `NgrokPublicIngress.close`: the agent stops, endpoint or not.           *)
Stops(a) == "none"

CloseIngress ==
  /\ pc = "ingress" /\ pc' = "release"
  /\ agent' = Stops(agent) /\ ingress' = None
  /\ UNCHANGED <<served, broken, stray, tunnels, polls, own, endpoint, upstream, network, stepZero>>

(* The servers are released last to first. A server task that ended with   *)
(* an exception raises it from its own release, and those before it are    *)
(* not reached.                                                            *)
Release ==
  /\ pc = "release"
  /\ IF served = <<>>
       THEN pc' = "ended" /\ UNCHANGED served
       ELSE /\ served' = SubSeq(served, 1, Len(served) - 1)
            /\ pc' = IF served[Len(served)] \in broken THEN "ended" ELSE pc
  /\ UNCHANGED <<broken, stray, agent, tunnels, polls, ingress, own, endpoint, upstream,
                 network, stepZero>>

ServerBreaks(s) ==
  /\ \E i \in DOMAIN served : served[i] = s
  /\ s \notin broken /\ broken' = broken \cup {s}
  /\ UNCHANGED <<pc, served, stray, agent, tunnels, polls, ingress, own, endpoint, upstream,
                 network, stepZero>>

(* The agent dies by itself; `is_running` says so to whoever asks.         *)
AgentDies ==
  /\ pc = "live" /\ agent = "up" /\ agent' = "dead"
  /\ UNCHANGED <<pc, served, broken, stray, tunnels, polls, ingress, own, endpoint, upstream,
                 network, stepZero>>

-----------------------------------------------------------------------------
(* Readiness. No command of the repository declares, rediscovers or asks   *)
(* for consent: these are the operations of the service as its tests call  *)
(* them, over a route that is open.                                        *)

Live == agent = "up" /\ ingress # None                        \* `is_live`

(* `declare`: an authenticated endpoint is never rebound in place.         *)
Declare ==
  /\ pc = "live" /\ own # None /\ binding.authenticated \in {None, own}
  /\ binding' = [binding EXCEPT !.authenticated = own]
  /\ UNCHANGED <<route, consent, unseen, stepZero>>

(* Mutant: a different endpoint is remembered and not held against us.     *)
ObservedForgiving(b, e) == b

(* `EndpointBinding.observe`.                                              *)
Observed(b, e) ==
  IF b.authenticated = None THEN b ELSE [b EXCEPT !.stale = b.authenticated # e]

(* `rediscover`: nothing is compared while the agent is down.              *)
Rediscover ==
  /\ pc = "live" /\ Live
  /\ own' = ingress /\ binding' = Observed(binding, ingress) /\ unseen' = FALSE
  /\ UNCHANGED <<pc, served, broken, stray, agent, tunnels, polls, ingress, endpoint, upstream,
                 consent, stepZero>>

(* `establish` once more, after the agent died; the launcher keeps the     *)
(* endpoint it opened with.                                                *)
Reestablish ==
  /\ pc = "live" /\ agent # "up" /\ tunnels < MaxTunnels
  /\ tunnels' = tunnels + 1
  /\ \E entry \in Listed :
       /\ Select(entry) /\ upstream' = entry.port
       /\ IF IsPublic(entry.endpoint)
            THEN agent' = "up" /\ ingress' = entry.endpoint /\ own' = entry.endpoint
                 /\ unseen' = TRUE
            ELSE agent' = "none" /\ ingress' = None /\ UNCHANGED <<own, unseen>>
  /\ UNCHANGED <<pc, served, broken, stray, polls, endpoint, binding, consent, stepZero>>

(* `evaluate`: the ten checks. Of the facts a caller brings, Step-0 is ours *)
(* and what was proven of the opponent is that our half reached it.        *)
Ready ==
  /\ Live
  /\ own # None /\ IsPublic(own) /\ ~ binding.stale
  /\ exchange.declaration /\ opponent.half

(* `require_counted_play`.                                                 *)
Consent ==
  /\ pc = "live" /\ Ready /\ consent' = own
  /\ UNCHANGED <<route, binding, unseen, stepZero>>

-----------------------------------------------------------------------------
(* Step-0 on the public route.                                             *)

Reachable == pc = "live" /\ agent = "up" /\ "tools" \notin broken

(* What an exchange can be wrong in, in the order `Step0Runtime.accept`    *)
(* looks: our own subtree, another game, another start, another budget, a  *)
(* proof that does not verify, slots out of order or claimed twice.        *)
Defects == <<"ours", "game", "start", "budget", "proof", "slots">>
Refused(defects) == \E i \in DOMAIN Defects : Defects[i] \in defects

(* `accept_step0`, once; then the merged declaration is written, the       *)
(* gateway given it, and our own half sent. A raise at any step goes back  *)
(* to the opponent, and what was done stays done.                          *)
Receive(defects) ==
  /\ Reachable /\ opponent.calls < MaxCalls
  /\ IF exchange.peer \/ Refused(defects)
       THEN UNCHANGED exchange
       ELSE \/ exchange' = [exchange EXCEPT !.peer = TRUE]          \* the store fails
            \/ exchange' = [peer |-> TRUE, written |-> TRUE, declaration |-> TRUE,
                            sending |-> TRUE]
  /\ opponent' = [opponent EXCEPT !.calls = @ + 1]
  /\ UNCHANGED <<route, network>>

(* Mutant: the send is best-effort, as `send_settlement` is.               *)
AnswersOkAnyway(sent) == TRUE

(* The opponent is told its Step-0 was taken only if our half arrived.     *)
AnswersOk(sent) == sent

(* `send_step0` opens a session of its own; the other's answer, or ours,   *)
(* may be lost.                                                            *)
SendHalf ==
  /\ exchange.sending
  /\ exchange' = [exchange EXCEPT !.sending = FALSE]
  /\ \E arrives, answered, heard \in BOOLEAN :
       opponent' = [opponent EXCEPT
         !.half = @ \/ arrives,
         !.ok = @ \/ (AnswersOk(arrives /\ answered) /\ heard /\ pc = "live")]
  /\ UNCHANGED <<route, network>>

Next ==
  \/ \E s \in Surfaces : Serve(s) \/ ServerBreaks(s)
  \/ Spawn \/ AgentReports \/ Poll \/ Judge \/ Compare \/ Interrupt
  \/ CloseRoutes \/ CloseIngress \/ Release \/ AgentDies
  \/ Declare \/ Rediscover \/ Reestablish \/ Consent
  \/ \E defects \in SUBSET {"proof", "ours"} : Receive(defects)
  \/ SendHalf

Spec == Init /\ [][Next]_vars

-----------------------------------------------------------------------------
(* Properties.                                                             *)

(* A route that is over, wherever opening it failed and whatever ended it, *)
(* leaves no agent running and no server held, unless a server's own       *)
(* exception cut the release short (`KitPublicLauncher.open`, `close`).    *)
RouteReleased ==
  pc = "ended" => agent # "up" /\ agent # "silent" /\ (broken = {} => served = <<>>)

(* Counted play is consented to only on the endpoint our authenticated     *)
(* declaration committed to, unless a re-established tunnel was never      *)
(* looked at again (`require_counted_play`, `rediscover`).                 *)
ConsentIsAuthenticated ==
  [][consent' # consent /\ binding.authenticated # None =>
       own = binding.authenticated \/ unseen]_vars

(* An opponent that was told its Step-0 succeeded finds the whole of it    *)
(* done: merged, written before anything was disclosed, and our own half   *)
(* with it (`_step0_receiver`).                                            *)
StepZeroIsWhole ==
  /\ opponent.ok => exchange.declaration /\ opponent.half
  /\ opponent.half => exchange.written
=============================================================================
