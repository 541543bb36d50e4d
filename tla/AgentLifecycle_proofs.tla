------------------------ MODULE AgentLifecycle_proofs ------------------------
(***************************************************************************)
(* For any budget, series and number of processes and faults: an agent     *)
(* whose run is over holds nothing, no call reaches the other's dispatcher *)
(* twice, and the two agents' Step-0 is mutual.                            *)
(***************************************************************************)
EXTENDS AgentLifecycle, TLAPS

(* The variables are functions of the agents, and a call in flight is a    *)
(* record: what makes an update of one of them an update of nothing else.  *)
PerAgent ==
  /\ pc = [q \in Peers |-> pc[q]] /\ state = [q \in Peers |-> state[q]]
  /\ held = [q \in Peers |-> held[q]] /\ session = [q \in Peers |-> session[q]]
  /\ flight = [q \in Peers |-> flight[q]] /\ cut = [q \in Peers |-> cut[q]]

-----------------------------------------------------------------------------
(* What an agent holds.                                                    *)

(* A runtime is live exactly from its service to its stop; a session is    *)
(* held while it is connected or closing, what `serve` acquired until it   *)
(* is released.                                                            *)
HoldsLink ==
  \A q \in Peers :
    /\ pc[q] \in {"off", "settle"} => session[q] = NoSession
    /\ pc[q] \in {"dial", "pause"} => session[q] = NoSession /\ state[q] = "SERVING"
    /\ pc[q] \in {"hello", "await", "play"} => state[q] = "RUNNING"
    /\ pc[q] = "releasing" => session[q] = NoSession
    /\ pc[q] = "ended" => session[q] = NoSession /\ (held[q] = Nothing \/ cut[q] = TRUE)
    /\ pc[q] = "off" => held[q] = Nothing

(* A call is in flight only while the agent meets the other or plays, and  *)
(* one that may still be issued was never dispatched.                      *)
CallRecord ==
  \A q \in Peers :
    flight[q] = [result |-> flight[q].result, dispatched |-> flight[q].dispatched,
                 remade |-> flight[q].remade]

CallLink ==
  \A q \in Peers :
    /\ flight[q].dispatched = 0 \/ flight[q].dispatched = 1
    /\ flight[q].result \in {"none", "remake", "notFound"} => flight[q].dispatched = 0
    /\ flight[q].result \notin {"none", "raised"} => pc[q] \in {"hello", "play"}

LifeInv == PerAgent /\ HoldsLink /\ CallRecord /\ CallLink

LEMMA KeepsLifeInv == LifeInv /\ [Next]_vars => LifeInv'
<1> SUFFICES ASSUME LifeInv, [Next]_vars  PROVE LifeInv'
  OBVIOUS
<1> USE DEF LifeInv
<1>1. ASSUME NEW p \in Peers, Launch(p)  PROVE LifeInv'
  <2>1. PerAgent'
    BY <1>1 DEF PerAgent, Launch, Goes, NoFault
  <2>2. HoldsLink'
    BY <1>1 DEF PerAgent, HoldsLink, CallLink, Launch, Goes, NoFault
  <2>3. CallRecord'
    BY <1>1 DEF PerAgent, CallRecord, Launch, Goes, NoFault
  <2>4. CallLink'
    BY <1>1 DEF PerAgent, CallLink, Launch, Goes, NoFault
  <2> QED  BY <2>1, <2>2, <2>3, <2>4
<1>2. ASSUME NEW p \in Peers, Settle(p)  PROVE LifeInv'
  <2>1. PerAgent'
    BY <1>2 DEF PerAgent, Settle, Goes
  <2>2. HoldsLink'
    BY <1>2 DEF PerAgent, HoldsLink, CallLink, Settle, Goes
  <2>3. CallRecord'
    BY <1>2 DEF PerAgent, CallRecord, Settle, Goes
  <2>4. CallLink'
    BY <1>2 DEF PerAgent, CallLink, Settle, Goes
  <2> QED  BY <2>1, <2>2, <2>3, <2>4
<1>3. ASSUME NEW p \in Peers, Connect(p)  PROVE LifeInv'
  <2>1. PerAgent'
    BY <1>3 DEF PerAgent, Connect, Goes, SessionOn, NoSession
  <2>2. HoldsLink'
    BY <1>3 DEF PerAgent, HoldsLink, CallLink, Connect, Goes, SessionOn, NoSession
  <2>3. CallRecord'
    BY <1>3 DEF PerAgent, CallRecord, Connect, Goes, SessionOn, NoSession
  <2>4. CallLink'
    BY <1>3 DEF PerAgent, CallLink, Connect, Goes, SessionOn, NoSession
  <2> QED  BY <2>1, <2>2, <2>3, <2>4
<1>4. ASSUME NEW p \in Peers, ConnectFails(p)  PROVE LifeInv'
  <2>1. PerAgent'
    BY <1>4 DEF PerAgent, ConnectFails, Goes, Stop, Stoppable
  <2>2. HoldsLink'
    BY <1>4 DEF PerAgent, HoldsLink, CallLink, ConnectFails, Goes, Stop, Stoppable
  <2>3. CallRecord'
    BY <1>4 DEF PerAgent, CallRecord, ConnectFails, Goes, Stop, Stoppable
  <2>4. CallLink'
    BY <1>4 DEF PerAgent, CallLink, ConnectFails, Goes, Stop, Stoppable
  <2> QED  BY <2>1, <2>2, <2>3, <2>4
<1>5. ASSUME NEW p \in Peers, CloseSession(p)  PROVE LifeInv'
  <2>1. PerAgent'
    BY <1>5 DEF PerAgent, CloseSession, Goes
  <2>2. HoldsLink'
    BY <1>5 DEF PerAgent, HoldsLink, CallLink, CloseSession, Goes
  <2>3. CallRecord'
    BY <1>5 DEF PerAgent, CallRecord, CloseSession, Goes
  <2>4. CallLink'
    BY <1>5 DEF PerAgent, CallLink, CloseSession, Goes
  <2> QED  BY <2>1, <2>2, <2>3, <2>4
<1>6. ASSUME NEW p \in Peers, Release(p)  PROVE LifeInv'
  <2>1. PerAgent'
    BY <1>6 DEF PerAgent, Release, Goes
  <2>2. HoldsLink'
    BY <1>6 DEF PerAgent, HoldsLink, CallLink, Release, Goes
  <2>3. CallRecord'
    BY <1>6 DEF PerAgent, CallRecord, Release, Goes
  <2>4. CallLink'
    BY <1>6 DEF PerAgent, CallLink, Release, Goes
  <2> QED  BY <2>1, <2>2, <2>3, <2>4
<1>7. ASSUME NEW p \in Peers, Send(p)  PROVE LifeInv'
  <2>1. PerAgent'
    BY <1>7 DEF PerAgent, Send, Returns
  <2>2. HoldsLink'
    BY <1>7 DEF PerAgent, HoldsLink, CallLink, Send, Returns
  <2>3. CallRecord'
    BY <1>7 DEF PerAgent, CallRecord, Send, Returns
  <2>4. CallLink'
    BY <1>7 DEF PerAgent, CallLink, CallRecord, Send, Returns
  <2> QED  BY <2>1, <2>2, <2>3, <2>4
<1>8. ASSUME NEW p \in Peers, Fail(p)  PROVE LifeInv'
  <2>1. PerAgent'
    BY <1>8 DEF PerAgent, Fail, Goes, Stop, Stoppable, NeverDispatched
  <2>2. HoldsLink'
    BY <1>8 DEF PerAgent, HoldsLink, CallLink, Fail, Goes, Stop, Stoppable, NeverDispatched
  <2>3. CASE flight' = [flight EXCEPT ![p].result = "remake", ![p].remade = TRUE]
    <3>1. CallRecord'
      BY <2>3 DEF PerAgent, CallRecord
    <3>2. CallLink'
      BY <1>8, <2>3 DEF PerAgent, CallRecord, CallLink, Fail, Goes, Stop, Stoppable, NeverDispatched
    <3> QED  BY <2>1, <2>2, <3>1, <3>2
  <2>4. CASE flight' = [flight EXCEPT ![p].result = "raised"]
    <3>1. CallRecord'
      BY <2>4 DEF PerAgent, CallRecord
    <3>2. CallLink'
      BY <1>8, <2>4 DEF PerAgent, CallRecord, CallLink, Fail, Goes, Stop, Stoppable, NeverDispatched
    <3> QED  BY <2>1, <2>2, <3>1, <3>2
  <2> QED  BY <1>8, <2>3, <2>4 DEF Fail
<1>9. ASSUME NEW p \in Peers, Remake(p)  PROVE LifeInv'
  <2>1. PerAgent'
    BY <1>9 DEF PerAgent, Remake
  <2>2. HoldsLink'
    BY <1>9 DEF PerAgent, HoldsLink, CallLink, Remake
  <2>3. CASE flight' = [flight EXCEPT ![p].result = "none"]
    <3>1. CallRecord'
      BY <2>3 DEF PerAgent, CallRecord
    <3>2. CallLink'
      BY <1>9, <2>3 DEF PerAgent, CallRecord, CallLink, Remake
    <3> QED  BY <2>1, <2>2, <3>1, <3>2
  <2>4. CASE flight' = [flight EXCEPT ![p].result = "failed"]
    <3>1. CallRecord'
      BY <2>4 DEF PerAgent, CallRecord
    <3>2. CallLink'
      BY <1>9, <2>4 DEF PerAgent, CallRecord, CallLink, Remake
    <3> QED  BY <2>1, <2>2, <3>1, <3>2
  <2> QED  BY <1>9, <2>3, <2>4 DEF Remake
<1>10. ASSUME NEW p \in Peers, Answered(p)  PROVE LifeInv'
  <2>1. PerAgent'
    BY <1>10 DEF PerAgent, Answered, Goes, Idle
  <2>2. HoldsLink'
    BY <1>10 DEF PerAgent, HoldsLink, CallLink, Answered, Goes, Idle
  <2>3. CallRecord'
    BY <1>10 DEF PerAgent, CallRecord, Answered, Goes, Idle
  <2>4. CallLink'
    BY <1>10 DEF PerAgent, CallLink, CallRecord, Answered, Goes, Idle
  <2> QED  BY <2>1, <2>2, <2>3, <2>4
<1>11. ASSUME NEW p \in Peers, Open(p)  PROVE LifeInv'
  <2>1. PerAgent'
    BY <1>11 DEF PerAgent, Open, Goes
  <2>2. HoldsLink'
    BY <1>11 DEF PerAgent, HoldsLink, CallLink, Open, Goes
  <2>3. CallRecord'
    BY <1>11 DEF PerAgent, CallRecord, Open, Goes
  <2>4. CallLink'
    BY <1>11 DEF PerAgent, CallLink, Open, Goes
  <2> QED  BY <2>1, <2>2, <2>3, <2>4
<1>12. ASSUME NEW p \in Peers, AwaitExpires(p)  PROVE LifeInv'
  <2>1. PerAgent'
    BY <1>12 DEF PerAgent, AwaitExpires, Goes, Stop, Stoppable
  <2>2. HoldsLink'
    BY <1>12 DEF PerAgent, HoldsLink, CallLink, AwaitExpires, Goes, Stop, Stoppable
  <2>3. CallRecord'
    BY <1>12 DEF PerAgent, CallRecord, AwaitExpires, Goes, Stop, Stoppable
  <2>4. CallLink'
    BY <1>12 DEF PerAgent, CallLink, AwaitExpires, Goes, Stop, Stoppable
  <2> QED  BY <2>1, <2>2, <2>3, <2>4
<1>13. ASSUME NEW p \in Peers, SeriesEnds(p)  PROVE LifeInv'
  <2>1. PerAgent'
    BY <1>13 DEF PerAgent, SeriesEnds, Goes, Stop, Stoppable
  <2>2. HoldsLink'
    BY <1>13 DEF PerAgent, HoldsLink, CallLink, SeriesEnds, Goes, Stop, Stoppable
  <2>3. CallRecord'
    BY <1>13 DEF PerAgent, CallRecord, SeriesEnds, Goes, Stop, Stoppable
  <2>4. CallLink'
    BY <1>13 DEF PerAgent, CallLink, SeriesEnds, Goes, Stop, Stoppable, Idle
  <2> QED  BY <2>1, <2>2, <2>3, <2>4
<1>14. ASSUME NEW p \in Peers, Cancel(p)  PROVE LifeInv'
  <2>1. PerAgent'
    BY <1>14 DEF PerAgent, Cancel, Goes, Stop, Stoppable
  <2>2. HoldsLink'
    BY <1>14 DEF PerAgent, HoldsLink, CallLink, Cancel, Goes, Stop, Stoppable
  <2>3. CallRecord'
    BY <1>14 DEF PerAgent, CallRecord, Cancel, Goes, Stop, Stoppable
  <2>4. CallLink'
    <3>1. /\ pc[p] \in {"settle", "dial", "pause", "hello", "await", "play", "closing"}
          /\ \A q \in Peers : q # p => pc'[q] = pc[q]
      BY <1>14 DEF PerAgent, Cancel, Goes, Stop
    <3>2. flight' = [flight EXCEPT ![p].result = "raised"]
      BY <1>14 DEF Cancel
    <3>3. \A q \in Peers : q # p => flight'[q] = flight[q]
      BY <3>2 DEF PerAgent
    <3>4. flight'[p].dispatched = flight[p].dispatched /\ flight'[p].result = "raised"
      BY <3>2 DEF PerAgent, CallRecord
    <3> QED  BY <3>1, <3>3, <3>4 DEF CallLink
  <2> QED  BY <2>1, <2>2, <2>3, <2>4
<1>15. ASSUME NEW p \in Peers, Kill(p)  PROVE LifeInv'
  <2>1. PerAgent'
    BY <1>15 DEF PerAgent, Kill, Goes, Idle, NoSession
  <2>2. HoldsLink'
    BY <1>15 DEF PerAgent, HoldsLink, CallLink, Kill, Goes, Idle, NoSession
  <2>3. CallRecord'
    BY <1>15 DEF PerAgent, CallRecord, Kill, Goes, Idle, NoSession
  <2>4. CallLink'
    BY <1>15 DEF PerAgent, CallLink, CallRecord, Kill, Goes, Idle, NoSession
  <2> QED  BY <2>1, <2>2, <2>3, <2>4
<1>16. ASSUME NEW p \in Peers, ServerDies(p)  PROVE LifeInv'
  <2>1. PerAgent'
    BY <1>16 DEF PerAgent, ServerDies
  <2>2. held[p] # Nothing
    BY <1>16 DEF Nothing, ServerDies
  <2>3. HoldsLink'
    BY <2>2, <1>16 DEF PerAgent, HoldsLink, CallLink, ServerDies
  <2>4. CallRecord'
    BY <1>16 DEF PerAgent, CallRecord, ServerDies
  <2>5. CallLink'
    BY <1>16 DEF PerAgent, CallLink, ServerDies
  <2> QED  BY <2>1, <2>3, <2>4, <2>5
<1>17. ASSUME NEW p \in Peers, Retire(p)  PROVE LifeInv'
  <2>1. PerAgent'
    BY <1>17 DEF PerAgent, Retire
  <2>2. session[p] # NoSession
    BY <1>17 DEF NoSession, Retire
  <2>3. HoldsLink'
    BY <2>2, <1>17 DEF PerAgent, HoldsLink, CallLink, Retire
  <2>4. CallRecord'
    BY <1>17 DEF PerAgent, CallRecord, Retire
  <2>5. CallLink'
    BY <1>17 DEF PerAgent, CallLink, Retire
  <2> QED  BY <2>1, <2>3, <2>4, <2>5
<1>18. CASE Tick
  BY <1>18 DEF Tick, PerAgent, HoldsLink, CallRecord, CallLink
<1>19. CASE UNCHANGED vars
  BY <1>19 DEF vars, PerAgent, HoldsLink, CallRecord, CallLink
<1> QED
  BY <1>1, <1>2, <1>3, <1>4, <1>5, <1>6, <1>7, <1>8, <1>9, <1>10, <1>11, <1>12, <1>13, <1>14, <1>15, <1>16, <1>17, <1>18, <1>19 DEF Next, Step

LEMMA InitLifeInv == Init => LifeInv
  BY DEF Init, LifeInv, PerAgent, HoldsLink, CallLink, CallRecord, Idle

-----------------------------------------------------------------------------
(* A run that is over holds no socket, server or session, but for a        *)
(* cancellation in the one await of `serve` (`AgentRuntime.stop`).         *)
THEOREM EndedIsReleasedHolds == Spec => []EndedIsReleased
<1>1. LifeInv => EndedIsReleased
  BY DEF LifeInv, HoldsLink, EndedIsReleased
<1> QED  BY <1>1, InitLifeInv, KeepsLifeInv, PTL DEF Spec

(* A request that reached the other's dispatcher is never issued again,    *)
(* on the session it was issued on or on a new one (`HeldSession.run`).    *)
THEOREM NeverIssuedTwiceHolds == Spec => []NeverIssuedTwice
<1>1. LifeInv => NeverIssuedTwice
  BY DEF LifeInv, CallLink, NeverIssuedTwice
<1> QED  BY <1>1, InitLifeInv, KeepsLifeInv, PTL DEF Spec

-----------------------------------------------------------------------------
(* Step-0 is mutual.                                                       *)

(* The process q of o is no longer the live one, or has taken p's Step-0.  *)
TookStepZero(o, q, p) ==
  /\ q \in 1 .. process[o]
  /\ q = process[o] /\ pc[o] # "off" => peer[o] = process[p]

(* What p knows of the processes of its opposite o.                        *)
MutualLink(p, o) ==
  /\ process[p] \in Nat /\ (pc[p] # "off" => process[p] # 0)
  /\ peer[p] \in 0 .. process[o]
  /\ pc[p] = "off" => answered[p] = Nobody
  /\ answered[p] # Nobody => TookStepZero(o, answered[p], p)
  /\ pc[p] = "hello" /\ flight[p].result = "ok" => TookStepZero(o, session[p].on, p)
  /\ pc[p] \in {"await", "play"} => answered[p] # Nobody
  /\ pc[p] = "play" => peer[p] # Nobody

MutualRecord ==
  process = [q \in Peers |-> process[q]] /\ peer = [q \in Peers |-> peer[q]]
    /\ answered = [q \in Peers |-> answered[q]]

MutualInv == LifeInv /\ MutualRecord /\ \A p \in Peers : MutualLink(p, Other(p))

(* There are two agents.                                                   *)
LEMMA OtherFacts ==
  ASSUME NEW p \in Peers
  PROVE  /\ Other(p) \in Peers /\ Other(p) # p /\ Other(Other(p)) = p
         /\ \A r \in Peers : r = p \/ r = Other(p)
  BY PairAssumption DEF Other

(* A step that leaves alone what the agents know of each other.            *)
SameMutual(r) ==
  /\ process'[r] = process[r] /\ peer'[r] = peer[r] /\ answered'[r] = answered[r]
  /\ pc'[r] = "off" <=> pc[r] = "off"
  /\ pc'[r] \in {"await", "play"} => pc[r] \in {"await", "play"}
  /\ pc'[r] = "play" => pc[r] = "play" \/ peer[r] # Nobody
  /\ pc'[r] = "hello" /\ flight'[r].result = "ok" =>
       pc[r] = "hello" /\ flight[r].result = "ok" /\ session'[r].on = session[r].on

LEMMA QuietMutual ==
  ASSUME NEW p \in Peers, NEW o \in Peers, MutualLink(p, o), SameMutual(p), SameMutual(o)
  PROVE  MutualLink(p, o)'
  BY DEF MutualLink, SameMutual, TookStepZero

LEMMA MutualFacts ==
  ASSUME MutualInv, NEW p \in Peers
  PROVE  /\ PerAgent /\ HoldsLink /\ CallRecord /\ CallLink /\ MutualRecord
         /\ MutualLink(p, Other(p)) /\ MutualLink(Other(p), p)
         /\ Other(p) \in Peers /\ Other(p) # p /\ Other(Other(p)) = p
         /\ \A r \in Peers : r = p \/ r = Other(p)
  BY OtherFacts DEF MutualInv, LifeInv

(* Most steps do.                                                          *)
LEMMA QuietStep ==
  ASSUME MutualInv, NEW p \in Peers, NEW r \in Peers,
         \/ Settle(p) \/ Connect(p) \/ ConnectFails(p) \/ CloseSession(p) \/ Release(p)
         \/ Fail(p) \/ Remake(p) \/ Open(p) \/ AwaitExpires(p) \/ SeriesEnds(p) \/ Cancel(p)
         \/ ServerDies(p) \/ Retire(p)
  PROVE  SameMutual(r)
<1>t. PerAgent /\ HoldsLink /\ CallRecord /\ CallLink /\ MutualRecord
  BY MutualFacts
<1> USE DEF SameMutual, Goes
<1>1. CASE Settle(p) \/ Connect(p) \/ CloseSession(p) \/ Release(p)
  BY <1>1, <1>t DEF Settle, Connect, CloseSession, Release, PerAgent, CallLink
<1>2. CASE ConnectFails(p) \/ AwaitExpires(p) \/ SeriesEnds(p)
  BY <1>2, <1>t DEF ConnectFails, AwaitExpires, SeriesEnds, Stop, PerAgent, CallLink
<1>3. CASE Fail(p)
  BY <1>3, <1>t DEF Fail, Stop, PerAgent, CallRecord, CallLink
<1>4. CASE Remake(p)
  BY <1>4, <1>t DEF Remake, PerAgent, CallRecord, CallLink
<1>5. CASE Open(p)
  BY <1>5, <1>t DEF Open, StepZeroSeen, PerAgent, CallLink
<1>6. CASE Cancel(p)
  <2>1. flight'[r].result = "ok" => r # p /\ flight'[r] = flight[r]
    BY <1>6, <1>t DEF Cancel, PerAgent, CallRecord
  <2>2. r # p => session'[r] = session[r] /\ pc'[r] = pc[r]
    BY <1>6, <1>t DEF Cancel, Stop, PerAgent
  <2>3. r = p => pc[r] # "off" /\ pc'[r] \in {"ended", "closing", "releasing"}
    BY <1>6, <1>t DEF Cancel, Stop, PerAgent
  <2>4. UNCHANGED <<process, peer, answered>>
    BY <1>6 DEF Cancel
  <2> QED
    BY <2>1, <2>2, <2>3, <2>4
<1>7. CASE ServerDies(p)
  BY <1>7, <1>t DEF ServerDies, PerAgent
<1>8. CASE Retire(p)
  <2>1. session'[r].on = session[r].on
    BY <1>8, <1>t DEF Retire, PerAgent
  <2> QED
    BY <1>8, <2>1 DEF Retire
<1> QED
  BY <1>1, <1>2, <1>3, <1>4, <1>5, <1>6, <1>7, <1>8

(* Starting a process: whatever was known of the other is of an earlier    *)
(* one.                                                                    *)
LEMMA LaunchMutual ==
  ASSUME MutualInv, NEW p \in Peers, Launch(p), NEW o \in Peers, o = Other(p)
  PROVE  MutualLink(p, o)' /\ MutualLink(o, p)'
<1>t. PerAgent /\ CallLink /\ MutualRecord /\ MutualLink(p, o) /\ MutualLink(o, p) /\ o # p
  BY MutualFacts
<1>1. /\ pc[p] = "off" /\ process'[p] = process[p] + 1 /\ process'[o] = process[o]
      /\ pc'[p] \in {"settle", "ended"} /\ pc'[o] = pc[o]
      /\ UNCHANGED <<peer, flight, session, answered>>
  BY <1>t DEF Launch, Goes, PerAgent, MutualRecord
<1>2. process[p] \in Nat /\ process[o] \in Nat
  BY <1>t DEF MutualLink
<1>3. MutualLink(p, o)'
  BY <1>1, <1>2, <1>t DEF MutualLink, TookStepZero
<1>4. MutualLink(o, p)'
  <2>1. ASSUME NEW q, TookStepZero(p, q, o) PROVE TookStepZero(p, q, o)'
    BY <2>1, <1>1, <1>2 DEF TookStepZero
  <2> QED
    BY <1>1, <1>2, <2>1, <1>t DEF MutualLink, TookStepZero
<1> QED
  BY <1>3, <1>4

(* Killing one: nothing is asked of a process that is gone.                *)
LEMMA KillMutual ==
  ASSUME MutualInv, NEW p \in Peers, Kill(p), NEW o \in Peers, o = Other(p)
  PROVE  MutualLink(p, o)' /\ MutualLink(o, p)'
<1>t. PerAgent /\ MutualRecord /\ MutualLink(p, o) /\ MutualLink(o, p) /\ o # p
  BY MutualFacts
<1>1. /\ pc'[p] = "off" /\ pc'[o] = pc[o] /\ UNCHANGED process
      /\ peer'[p] = Nobody /\ peer'[o] = peer[o] /\ answered'[p] = Nobody
      /\ answered'[o] = answered[o] /\ flight'[o] = flight[o] /\ session'[o] = session[o]
  BY <1>t DEF Kill, Goes, PerAgent, MutualRecord
<1>2. process[p] \in Nat /\ process[o] \in Nat
  BY <1>t DEF MutualLink
<1>3. MutualLink(p, o)'
  BY <1>1, <1>2, <1>t DEF MutualLink, Nobody
<1>4. MutualLink(o, p)'
  BY <1>1, <1>2, <1>t DEF MutualLink, TookStepZero
<1> QED
  BY <1>3, <1>4

(* A call: the Step-0 that is answered was taken by the live process.      *)
LEMMA SendMutual ==
  ASSUME MutualInv, NEW p \in Peers, Send(p), NEW o \in Peers, o = Other(p)
  PROVE  MutualLink(p, o)' /\ MutualLink(o, p)'
<1>t. /\ PerAgent /\ CallRecord /\ HoldsLink /\ MutualRecord /\ MutualLink(p, o)
      /\ MutualLink(o, p) /\ o # p
  BY MutualFacts
<1>0. process[p] \in Nat /\ process[o] \in Nat
  BY <1>t DEF MutualLink
<1> DEFINE Taken == /\ Serving(o) /\ Valid(p) /\ Accepted(p) /\ pc[p] = "hello"
                    /\ peer' = [peer EXCEPT ![o] = process[p]]
                    /\ session' = [session EXCEPT ![p].bound = TRUE]
<1>1. UNCHANGED <<pc, process, answered>> /\ flight'[o] = flight[o] /\ pc[p] \in {"hello", "play"}
  BY <1>t DEF Send, Returns, PerAgent
<1>2. CASE Taken
  <2>1. peer[o] = Nobody /\ session[p].on = process[o] /\ pc[o] # "off"
    BY <1>2, <1>t DEF Accepted, Valid, Serving, HoldsLink, Nothing
  <2>2. peer'[o] = process[p] /\ peer'[p] = peer[p] /\ session'[p].on = session[p].on
          /\ session'[o] = session[o]
    <3>1. peer'[o] = process[p] /\ peer'[p] = peer[p]
      BY <1>2, <1>t DEF MutualRecord
    <3>2. session'[o] = session[o] /\ session'[p] = [session[p] EXCEPT !.bound = TRUE]
      BY <1>2, <1>t DEF PerAgent
    <3>3. session'[p].on = session[p].on
      BY <3>2
    <3> QED
      BY <3>1, <3>2, <3>3
  <2>3. process[o] \in 1 .. process[o] /\ process[p] # 0
    BY <1>0, <1>1, <2>1, <1>t DEF MutualLink
  <2>4. MutualLink(p, o)'
    BY <1>0, <1>1, <2>1, <2>2, <2>3, <1>t DEF MutualLink, TookStepZero
  <2>5. MutualLink(o, p)'
    BY <1>0, <1>1, <2>1, <2>2, <2>3, <1>t DEF MutualLink, TookStepZero, Nobody
  <2> QED
    BY <2>4, <2>5
<1>3. CASE ~Taken
  <2>1. UNCHANGED <<peer, session>>
    BY <1>3 DEF Send
  <2>2. \/ pc[p] # "hello"
        \/ \E n : \E result \in {"failed", "notFound", "refused"} : Returns(p, result, n)
    BY <1>3 DEF Send
  <2>3. pc[p] = "hello" => flight'[p].result # "ok"
    BY <2>2, <1>t DEF Returns, PerAgent, CallRecord
  <2> QED
    BY <1>0, <1>1, <2>1, <2>3, <1>t DEF MutualLink, TookStepZero
<1> QED
  BY <1>2, <1>3 DEF Send

(* The call answered: what the session is on is what answered.             *)
LEMMA AnsweredMutual ==
  ASSUME MutualInv, NEW p \in Peers, Answered(p), NEW o \in Peers, o = Other(p)
  PROVE  MutualLink(p, o)' /\ MutualLink(o, p)'
<1>t. /\ PerAgent /\ CallLink /\ MutualRecord /\ MutualLink(p, o) /\ MutualLink(o, p) /\ o # p
  BY MutualFacts
<1>0. process[p] \in Nat /\ process[o] \in Nat
  BY <1>t DEF MutualLink
<1>1. /\ UNCHANGED <<process, peer, session>> /\ flight[p].result = "ok"
      /\ flight'[o] = flight[o] /\ pc'[o] = pc[o] /\ answered'[o] = answered[o]
      /\ flight'[p].result = "none"
  BY <1>t DEF Answered, Goes, PerAgent, MutualRecord, Idle
<1>2. CASE pc[p] = "hello"
  <2>1. pc'[p] = "await" /\ answered'[p] = session[p].on /\ TookStepZero(o, session[p].on, p)
    BY <1>1, <1>2, <1>t DEF Answered, Goes, PerAgent, MutualRecord, MutualLink
  <2>2. session[p].on # Nobody
    BY <1>0, <2>1 DEF TookStepZero, Nobody
  <2>3. MutualLink(p, o)'
    BY <1>0, <1>1, <1>2, <2>1, <2>2, <1>t DEF MutualLink, TookStepZero
  <2>4. MutualLink(o, p)'
    BY <1>0, <1>1, <1>2, <2>1, <1>t DEF MutualLink, TookStepZero
  <2> QED
    BY <2>3, <2>4
<1>3. CASE pc[p] # "hello"
  <2>1. pc' = pc /\ answered' = answered
    BY <1>3 DEF Answered
  <2> QED
    BY <1>0, <1>1, <2>1, <1>t DEF MutualLink, TookStepZero
<1> QED
  BY <1>2, <1>3

LEMMA KeepsMutual == MutualInv /\ [Next]_vars => MutualInv'
<1> SUFFICES ASSUME MutualInv, [Next]_vars PROVE MutualInv'
  OBVIOUS
<1>1. LifeInv'
  BY KeepsLifeInv DEF MutualInv
<1>2. MutualRecord'
  <2>1. ASSUME NEW p \in Peers, Launch(p) \/ Cancel(p) \/ Kill(p) \/ ServerDies(p) \/ Retire(p)
        PROVE  MutualRecord'
    BY <2>1 DEF MutualInv, MutualRecord, Launch, Cancel, Kill, ServerDies, Retire
  <2>2. ASSUME NEW p \in Peers, Settle(p) \/ Connect(p) \/ ConnectFails(p) \/ CloseSession(p)
                                \/ Release(p) \/ Open(p) \/ AwaitExpires(p) \/ SeriesEnds(p)
        PROVE  MutualRecord'
    BY <2>2 DEF MutualInv, MutualRecord, Settle, Connect, ConnectFails, CloseSession, Release,
       Open, AwaitExpires, SeriesEnds
  <2>3. ASSUME NEW p \in Peers, Send(p) \/ Fail(p) \/ Remake(p) \/ Answered(p)
        PROVE  MutualRecord'
    BY <2>3 DEF MutualInv, MutualRecord, Send, Fail, Remake, Answered
  <2>4. CASE Tick \/ UNCHANGED vars
    BY <2>4 DEF MutualInv, MutualRecord, Tick, vars
  <2> QED  BY <2>1, <2>2, <2>3, <2>4 DEF Next, Step
<1>3. ASSUME NEW p \in Peers, Launch(p) \/ Step(p) \/ Cancel(p) \/ Kill(p) \/ ServerDies(p)
                                \/ Retire(p),
             NEW r \in Peers
      PROVE  MutualLink(r, Other(r))'
  <2>0. /\ Other(p) \in Peers /\ Other(Other(p)) = p /\ (r = p \/ r = Other(p))
        /\ Other(r) \in Peers /\ MutualLink(r, Other(r))
    BY OtherFacts DEF MutualInv
  <2>1. CASE Launch(p)
    BY <2>0, <2>1, LaunchMutual
  <2>2. CASE Kill(p)
    BY <2>0, <2>2, KillMutual
  <2>3. CASE Send(p)
    BY <2>0, <2>3, SendMutual
  <2>4. CASE Answered(p)
    BY <2>0, <2>4, AnsweredMutual
  <2>5. CASE \/ Settle(p) \/ Connect(p) \/ ConnectFails(p) \/ CloseSession(p) \/ Release(p)
             \/ Fail(p) \/ Remake(p) \/ Open(p) \/ AwaitExpires(p) \/ SeriesEnds(p) \/ Cancel(p)
             \/ ServerDies(p) \/ Retire(p)
    <3>1. SameMutual(r) /\ SameMutual(Other(r))
      BY <2>0, <2>5, QuietStep
    <3> QED
      BY <2>0, <3>1, QuietMutual
  <2> QED
    BY <1>3, <2>1, <2>2, <2>3, <2>4, <2>5 DEF Step
<1>4. ASSUME Tick \/ UNCHANGED vars, NEW r \in Peers PROVE MutualLink(r, Other(r))'
  <2>0. Other(r) \in Peers /\ MutualLink(r, Other(r)) /\ PerAgent
    BY OtherFacts DEF MutualInv, LifeInv
  <2>1. ASSUME NEW s \in Peers PROVE SameMutual(s)
    BY <1>4, <2>0, <2>1 DEF Tick, vars, SameMutual, PerAgent
  <2> QED
    BY <2>0, <2>1, QuietMutual
<1> QED
  BY <1>1, <1>2, <1>3, <1>4 DEF MutualInv, Next

(* Step-0 is mutual: an agent in its series and the live process opposite  *)
(* have each taken the other's Step-0, unless that process replaced one    *)
(* that took part and died (`SeriesRuntime.start`, `await_peer_step0`).    *)
THEOREM PlayIsMutualHolds == Spec => []PlayIsMutual
<1>1. Init => MutualInv
  <2> SUFFICES ASSUME Init PROVE MutualInv
    OBVIOUS
  <2>1. ASSUME NEW p \in Peers PROVE MutualLink(p, Other(p))
    BY OtherFacts DEF Init, MutualLink, Nobody
  <2>2. MutualRecord
    BY DEF Init, MutualRecord
  <2> QED
    BY <2>1, <2>2, InitLifeInv DEF MutualInv
<1>2. MutualInv => PlayIsMutual
  <2> SUFFICES ASSUME MutualInv, NEW p \in Peers, NEW o, o = Other(p), pc[p] = "play",
                      pc[o] # "off"
               PROVE  \/ peer[p] = process[o] /\ peer[o] = process[p]
                      \/ \E q \in {peer[p], answered[p]} \ {Nobody} : q < process[o]
    BY DEF PlayIsMutual
  <2>1. MutualLink(p, o) /\ MutualLink(o, p)
    BY MutualFacts
  <2>2. /\ answered[p] \in 1 .. process[o] /\ answered[p] # Nobody
        /\ answered[p] = process[o] => peer[o] = process[p]
        /\ peer[p] \in 0 .. process[o] /\ peer[p] # Nobody /\ process[o] \in Nat
    BY <2>1 DEF MutualLink, TookStepZero
  <2> QED
    BY <2>2
<1> QED
  BY <1>1, <1>2, KeepsMutual, PTL DEF Spec
=============================================================================
