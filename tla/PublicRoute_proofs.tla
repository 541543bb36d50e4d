------------------------- MODULE PublicRoute_proofs -------------------------
(***************************************************************************)
(* For any endpoints, names and addresses, and any number of polls, agents *)
(* and calls: what a route acquired is released, a Step-0 that was told to *)
(* have succeeded was done whole, and consent is authenticated. And for    *)
(* any policy of the gatekeeper that the route's polls and every other     *)
(* provider call pass: its limits are kept, and one sleep is enough.       *)
(***************************************************************************)
EXTENDS PublicRoute, Gatekeeper, FiniteSetTheorems, SequenceTheorems, TLAPS

Opening == {"tools", "admin", "spawn", "start", "discover", "judge", "compare"}
Closing == {"routes", "ingress", "release", "ended"}

-----------------------------------------------------------------------------
(* The release of what was acquired.                                       *)

(* The agent is stopped before the servers are released, and the servers   *)
(* are given up on only after an exception of one of them.                 *)
ReleaseLink ==
  /\ pc \in {"release", "ended"} => agent = "none"
  /\ pc = "ended" /\ broken = {} => served = <<>>

LEMMA KeepsReleaseLink == ReleaseLink /\ [Next]_vars => ReleaseLink'
<1> SUFFICES ASSUME ReleaseLink, [Next]_vars  PROVE ReleaseLink'
  OBVIOUS
<1> USE DEF ReleaseLink, Raises, Surfaces
<1>1. ASSUME NEW s \in Surfaces, Serve(s)  PROVE ReleaseLink'
  BY <1>1 DEF Serve
<1>2. ASSUME NEW s \in Surfaces, ServerBreaks(s)  PROVE ReleaseLink'
  BY <1>2 DEF ServerBreaks
<1>3. CASE Spawn \/ AgentReports \/ Poll \/ Judge \/ Compare \/ Interrupt
  BY <1>3 DEF Spawn, AgentReports, Poll, Judge, Compare, Interrupt
<1>4. CASE CloseRoutes \/ CloseIngress
  BY <1>4 DEF CloseRoutes, CloseIngress, Stops
<1>5. CASE Release
  BY <1>5 DEF Release
<1>6. CASE AgentDies \/ Reestablish
  BY <1>6 DEF AgentDies, Reestablish
<1>7. CASE Declare \/ Rediscover \/ Consent
  BY <1>7 DEF Declare, Rediscover, Consent, route
<1>8. ASSUME NEW defects \in SUBSET {"proof", "ours"}, Receive(defects)
      PROVE  ReleaseLink'
  BY <1>8 DEF Receive, route
<1>9. CASE SendHalf \/ UNCHANGED vars
  BY <1>9 DEF SendHalf, route, vars
<1> QED  BY <1>1, <1>2, <1>3, <1>4, <1>5, <1>6, <1>7, <1>8, <1>9 DEF Next

(* A route that is over leaves no agent, and no server that another one's  *)
(* exception did not cut off (`KitPublicLauncher.open`, `close`).          *)
THEOREM RouteReleasedHolds == Spec => []RouteReleased
<1>1. Init => ReleaseLink
  BY DEF Init, ReleaseLink
<1>2. ReleaseLink => RouteReleased
  BY DEF ReleaseLink, RouteReleased
<1> QED  BY <1>1, <1>2, KeepsReleaseLink, PTL DEF Spec

-----------------------------------------------------------------------------
(* The exchange of Step-0.                                                 *)

(* The declaration is written and given to the gateway before our half is  *)
(* sent, and neither is ever taken back.                                   *)
StepZeroLink ==
  /\ exchange \in [peer : BOOLEAN, written : BOOLEAN, declaration : BOOLEAN, sending : BOOLEAN]
  /\ opponent \in [calls : Nat, ok : BOOLEAN, half : BOOLEAN]
  /\ exchange.sending => exchange.written /\ exchange.declaration
  /\ StepZeroIsWhole

LEMMA KeepsStepZeroLink == StepZeroLink /\ [Next]_vars => StepZeroLink'
<1> SUFFICES ASSUME StepZeroLink, [Next]_vars  PROVE StepZeroLink'
  OBVIOUS
<1>1. ASSUME NEW defects \in SUBSET {"proof", "ours"}, Receive(defects)
      PROVE  StepZeroLink'
  <2>1. opponent'.half = opponent.half /\ opponent'.ok = opponent.ok
        /\ opponent' \in [calls : Nat, ok : BOOLEAN, half : BOOLEAN]
    BY <1>1 DEF Receive, StepZeroLink
  <2>2. CASE UNCHANGED exchange
    BY <2>1, <2>2 DEF StepZeroLink, StepZeroIsWhole
  <2>3. CASE exchange' = [exchange EXCEPT !.peer = TRUE]
    BY <2>1, <2>3 DEF StepZeroLink, StepZeroIsWhole
  <2>4. CASE exchange' = [peer |-> TRUE, written |-> TRUE, declaration |-> TRUE,
                          sending |-> TRUE]
    BY <2>1, <2>4 DEF StepZeroLink, StepZeroIsWhole
  <2> QED  BY <1>1, <2>2, <2>3, <2>4 DEF Receive
<1>2. CASE SendHalf
  <2>1. PICK arrives, answered, heard \in BOOLEAN :
          opponent' = [opponent EXCEPT
            !.half = @ \/ arrives,
            !.ok = @ \/ (AnswersOk(arrives /\ answered) /\ heard /\ pc = "live")]
    BY <1>2 DEF SendHalf
  <2>2. exchange.sending /\ exchange' = [exchange EXCEPT !.sending = FALSE]
    BY <1>2 DEF SendHalf
  <2> QED  BY <2>1, <2>2 DEF StepZeroLink, StepZeroIsWhole, AnswersOk
<1>3. CASE UNCHANGED stepZero
  BY <1>3 DEF stepZero, StepZeroLink, StepZeroIsWhole
<1>4. ASSUME NEW s \in Surfaces, Serve(s) \/ ServerBreaks(s)  PROVE UNCHANGED stepZero
  BY <1>4 DEF Serve, ServerBreaks, stepZero
<1>5. Spawn \/ AgentReports \/ Poll \/ Judge \/ Compare \/ Interrupt => UNCHANGED stepZero
  BY DEF Spawn, AgentReports, Poll, Judge, Compare, Interrupt, stepZero
<1>6. CloseRoutes \/ CloseIngress \/ Release \/ AgentDies => UNCHANGED stepZero
  BY DEF CloseRoutes, CloseIngress, Release, AgentDies, stepZero
<1>7. Declare \/ Rediscover \/ Reestablish \/ Consent \/ UNCHANGED vars => UNCHANGED stepZero
  BY DEF Declare, Rediscover, Reestablish, Consent, stepZero, vars
<1> QED  BY <1>1, <1>2, <1>3, <1>4, <1>5, <1>6, <1>7 DEF Next

(* An opponent that was told its Step-0 succeeded finds it done whole, and *)
(* our half is disclosed only after it was written (`_step0_receiver`).    *)
THEOREM StepZeroIsWholeHolds == Spec => []StepZeroIsWhole
<1>1. Init => StepZeroLink
  BY DEF Init, StepZeroLink, StepZeroIsWhole
<1>2. StepZeroLink => StepZeroIsWhole
  BY DEF StepZeroLink
<1> QED  BY <1>1, <1>2, KeepsStepZeroLink, PTL DEF Spec

-----------------------------------------------------------------------------
(* Consent.                                                                *)

(* Nothing is authenticated while the route opens; later, whatever departs *)
(* from what was authenticated is stale or was not looked at.              *)
BindingLink ==
  /\ binding = [authenticated |-> binding.authenticated, stale |-> binding.stale]
  /\ pc \in Opening => binding.authenticated = None
  /\ binding.authenticated # None =>
       own = binding.authenticated \/ unseen \/ binding.stale = TRUE

LEMMA KeepsBindingLink == BindingLink /\ [Next]_vars => BindingLink'
<1> SUFFICES ASSUME BindingLink, [Next]_vars  PROVE BindingLink'
  OBVIOUS
<1> USE DEF Opening, Raises, Surfaces
<1>1. ASSUME NEW s \in Surfaces, Serve(s)  PROVE BindingLink'
  BY <1>1 DEF Serve, network, BindingLink
<1>2. ASSUME NEW s \in Surfaces, ServerBreaks(s)  PROVE BindingLink'
  BY <1>2 DEF ServerBreaks, network, BindingLink
<1>3. CASE Spawn \/ AgentReports \/ Poll \/ Judge \/ Compare \/ Interrupt
  BY <1>3 DEF Spawn, AgentReports, Poll, Judge, Compare, Interrupt, network, BindingLink
<1>4. CASE CloseRoutes \/ CloseIngress \/ Release \/ AgentDies
  BY <1>4 DEF CloseRoutes, CloseIngress, Release, AgentDies, network, BindingLink
<1>5. CASE Declare
  BY <1>5 DEF Declare, route, BindingLink
<1>6. CASE Rediscover
  BY <1>6 DEF Rediscover, Observed, BindingLink
<1>7. CASE Reestablish
  BY <1>7 DEF Reestablish, BindingLink
<1>8. ASSUME NEW defects \in SUBSET {"proof", "ours"}, Receive(defects)
      PROVE  BindingLink'
  BY <1>8 DEF Receive, route, network, BindingLink
<1>9. CASE Consent \/ SendHalf \/ UNCHANGED vars
  BY <1>9 DEF Consent, SendHalf, route, network, vars, BindingLink
<1> QED  BY <1>1, <1>2, <1>3, <1>4, <1>5, <1>6, <1>7, <1>8, <1>9 DEF Next

(* A step that consents finds nothing stale.                               *)
LEMMA ConsentLooks == [Next]_vars /\ consent' # consent => ~binding.stale
<1> SUFFICES ASSUME [Next]_vars, consent' # consent  PROVE ~binding.stale
  OBVIOUS
<1>1. ASSUME NEW s \in Surfaces, Serve(s) \/ ServerBreaks(s)  PROVE FALSE
  BY <1>1 DEF Serve, ServerBreaks, network
<1>2. ~(Spawn \/ AgentReports \/ Poll \/ Judge \/ Compare \/ Interrupt)
  BY DEF Spawn, AgentReports, Poll, Judge, Compare, Interrupt, network
<1>3. ~(CloseRoutes \/ CloseIngress \/ Release \/ AgentDies)
  BY DEF CloseRoutes, CloseIngress, Release, AgentDies, network
<1>4. ~(Declare \/ Rediscover \/ Reestablish \/ SendHalf \/ UNCHANGED vars)
  BY DEF Declare, Rediscover, Reestablish, SendHalf, network, vars
<1>5. ASSUME NEW defects \in SUBSET {"proof", "ours"}, Receive(defects)  PROVE FALSE
  BY <1>5 DEF Receive, network
<1>6. Consent => ~binding.stale
  BY DEF Consent, Ready
<1> QED  BY <1>1, <1>2, <1>3, <1>4, <1>5, <1>6 DEF Next

(* Counted play is consented to on the authenticated endpoint only, or on  *)
(* a tunnel nobody looked at again (`require_counted_play`).               *)
THEOREM ConsentIsAuthenticatedHolds == Spec => ConsentIsAuthenticated
<1> DEFINE Authenticated ==
      consent' # consent /\ binding.authenticated # None =>
        own = binding.authenticated \/ unseen
<1>1. Init => BindingLink
  BY DEF Init, BindingLink, Opening
<1>2. BindingLink /\ [Next]_vars => [Authenticated]_vars
  BY ConsentLooks DEF BindingLink
<1> QED  BY <1>1, <1>2, KeepsBindingLink, PTL DEF Spec, ConsentIsAuthenticated

-----------------------------------------------------------------------------
(* The gatekeeper: what the list of stamps says of a window.               *)

Stamps == [age : Nat, first : BOOLEAN]
Callers ==
  [pc : {"idle", "admit", "attempt", "flight"}, attempts : Nat, sleep : Nat,
   slept : BOOLEAN]

GateShape ==
  /\ admission \in {"rolling_window", "token_bucket"}
  /\ watched \in BOOLEAN
  /\ watched => admission = "token_bucket"
  /\ stamps \in Seq(Stamps)
  /\ tokens \in 0 .. Full
  /\ locked \in BOOLEAN
  /\ caller \in Callers

(* The clock is monotonic: the oldest stamp is the first, and none is of   *)
(* an earlier day.                                                         *)
Sorted ==
  /\ \A j, k \in 1 .. Len(stamps) : j <= k => stamps[j].age >= stamps[k].age
  /\ \A k \in 1 .. Len(stamps) : stamps[k].age < Day

Firsts(window) == {k \in Recent(window) : stamps[k].first}

LEMMA RecentFacts ==
  ASSUME GateShape, NEW w
  PROVE  /\ Len(stamps) \in Nat /\ DOMAIN stamps = 1 .. Len(stamps)
         /\ \A k \in 1 .. Len(stamps) : stamps[k] \in Stamps
         /\ IsFiniteSet(Recent(w)) /\ Count(w) \in Nat
         /\ IsFiniteSet(Firsts(w)) /\ Cardinality(Firsts(w)) \in Nat
         /\ Cardinality(Firsts(w)) <= Count(w)
<1>1. /\ Len(stamps) \in Nat /\ DOMAIN stamps = 1 .. Len(stamps)
      /\ \A k \in 1 .. Len(stamps) : stamps[k] \in Stamps
  BY DEF GateShape
<1>2. IsFiniteSet(1 .. Len(stamps))
  BY <1>1, FS_Interval
<1>3. Recent(w) \in SUBSET (1 .. Len(stamps))
  BY <1>1 DEF Recent
<1>4. IsFiniteSet(Recent(w)) /\ Count(w) \in Nat
  BY <1>2, <1>3, FS_Subset, FS_CardinalityType DEF Count
<1>5. Firsts(w) \in SUBSET Recent(w)
  BY DEF Firsts
<1>6. /\ IsFiniteSet(Firsts(w)) /\ Cardinality(Firsts(w)) \in Nat
      /\ Cardinality(Firsts(w)) <= Count(w)
  BY <1>4, <1>5, FS_Subset, FS_CardinalityType DEF Count
<1> QED BY <1>1, <1>4, <1>6

Aged(s, w) == {k \in DOMAIN s : s[k].age < w}
InOrder(s) == \A j, k \in 1 .. Len(s) : j <= k => s[j].age >= s[k].age

(* In a list in order, what a window holds are the last ones: when they    *)
(* are as many as the limit, the limit-th last is one of them.             *)
LEMMA FullRun ==
  ASSUME NEW s \in Seq(Stamps), InOrder(s), NEW w \in Nat,
         NEW limit \in Nat \ {0}, Cardinality(Aged(s, w)) >= limit
  PROVE  /\ Len(s) - limit + 1 \in 1 .. Len(s)
         /\ s[Len(s) - limit + 1].age \in Nat
         /\ s[Len(s) - limit + 1].age < w
<1> DEFINE n == Len(s)
           j == n - limit + 1
           some == Cardinality(Aged(s, w))
<1>1. n \in Nat /\ DOMAIN s = 1 .. n /\ \A k \in 1 .. n : s[k].age \in Nat
  <2>1. n \in Nat /\ DOMAIN s = 1 .. n /\ \A k \in 1 .. n : s[k] \in Stamps
    OBVIOUS
  <2> QED BY <2>1 DEF Stamps
<1>2. limit <= n /\ some \in Nat
  <2>1. Aged(s, w) \in SUBSET (1 .. n)
    BY <1>1 DEF Aged
  <2>2. /\ IsFiniteSet(1 .. n)
        /\ Cardinality(1 .. n) = IF 1 > n THEN 0 ELSE n - 1 + 1
    <3>1. 1 \in Int /\ n \in Int
      BY <1>1
    <3> HIDE DEF n
    <3> QED BY <3>1, FS_Interval
  <2>3. IsFiniteSet(Aged(s, w)) /\ some <= Cardinality(1 .. n)
    BY <2>1, <2>2, FS_Subset
  <2>4. some \in Nat
    BY <2>3, FS_CardinalityType
  <2> QED BY <1>1, <2>2, <2>3, <2>4
<1>3. j \in 1 .. n
  BY <1>1, <1>2
<1>4. ASSUME s[j].age >= w
      PROVE  FALSE
  <2>1. ASSUME NEW k \in Aged(s, w)
        PROVE  k \in j + 1 .. n
    <3>1. k \in 1 .. n /\ s[k].age < w /\ s[k].age \in Nat /\ s[j].age \in Nat
      BY <1>1, <1>3, <2>1 DEF Aged
    <3>2. k <= j => s[k].age >= s[j].age
      BY <1>3, <3>1 DEF InOrder
    <3>3. ~(k <= j)
      BY <1>4, <3>1, <3>2
    <3> QED BY <1>1, <1>3, <3>1, <3>3
  <2>2. /\ IsFiniteSet(j + 1 .. n)
        /\ Cardinality(j + 1 .. n) = IF j + 1 > n THEN 0 ELSE n - (j + 1) + 1
    <3>1. j + 1 \in Int /\ n \in Int
      BY <1>1, <1>3
    <3> HIDE DEF j, n
    <3> QED BY <3>1, FS_Interval
  <2>3. some <= Cardinality(j + 1 .. n)
    <3>1. Aged(s, w) \in SUBSET (j + 1 .. n)
      BY <2>1
    <3> HIDE DEF j, n
    <3> QED BY <2>2, <3>1, FS_Subset
  <2>4. Cardinality(j + 1 .. n) = limit - 1
    BY <1>1, <1>3, <2>2
  <2> QED BY <1>2, <2>3, <2>4
<1> QED BY <1>1, <1>3, <1>4

LEMMA FullWindow ==
  ASSUME GateShape, Sorted, NEW w \in Nat, NEW limit \in Nat \ {0},
         Count(w) >= limit
  PROVE  /\ Len(stamps) - limit + 1 \in 1 .. Len(stamps)
         /\ stamps[Len(stamps) - limit + 1].age \in Nat
         /\ stamps[Len(stamps) - limit + 1].age < w
<1>1. stamps \in Seq(Stamps)
  BY DEF GateShape
<1>2. InOrder(stamps)
  BY DEF Sorted, InOrder
<1>3. Cardinality(Aged(stamps, w)) >= limit
  BY DEF Count, Recent, Aged
<1> QED BY <1>1, <1>2, <1>3, FullRun

(* One tick: the stamps that stay, each one older.                         *)
LEMMA TickStamps ==
  ASSUME GateShape, Sorted, Tick
  PROVE  LET kept == Count(Day - 1)
             gone == Len(stamps) - kept
         IN /\ kept \in Nat /\ gone \in Nat
            /\ stamps' \in Seq(Stamps) /\ Len(stamps') = kept
            /\ \A k \in 1 .. kept :
                 /\ gone + k \in 1 .. Len(stamps)
                 /\ stamps'[k].age = stamps[gone + k].age + 1
                 /\ stamps'[k].first = stamps[gone + k].first
            /\ Sorted'
<1> DEFINE n == Len(stamps)
           kept == Count(Day - 1)
           gone == n - kept
           older == [k \in 1 .. kept |-> [stamps[n - kept + k] EXCEPT !.age = @ + 1]]
<1>1. n \in Nat /\ kept \in Nat /\ DOMAIN stamps = 1 .. n
      /\ \A k \in 1 .. n : stamps[k] \in Stamps
  BY RecentFacts
<1>2. Day \in Nat \ {0} /\ Day - 1 \in Nat
  BY PolicyAssumption
<1>3. kept <= n /\ (kept > 0 => stamps[gone + 1].age < Day - 1)
  <2>1. CASE kept = 0
    BY <1>1, <2>1
  <2>2. CASE kept > 0
    <3>1. kept \in Nat \ {0} /\ Count(Day - 1) >= kept
      BY <1>1, <2>2
    <3>2. n - kept + 1 \in 1 .. n /\ stamps[n - kept + 1].age < Day - 1
      <4> HIDE DEF kept
      <4> QED BY <1>2, <3>1, FullWindow
    <3> QED BY <1>1, <3>1, <3>2
  <2> QED BY <1>1, <2>1, <2>2
<1>4. stamps' = older
  BY DEF Tick, Older
<1>5. \A k \in 1 .. kept : gone + k \in 1 .. n
  BY <1>1, <1>3
<1>6. \A k \in 1 .. kept :
        /\ older[k] \in Stamps
        /\ older[k].age = stamps[gone + k].age + 1
        /\ older[k].first = stamps[gone + k].first
  <2> SUFFICES ASSUME NEW k \in 1 .. kept
               PROVE  /\ older[k] \in Stamps
                      /\ older[k].age = stamps[gone + k].age + 1
                      /\ older[k].first = stamps[gone + k].first
    OBVIOUS
  <2>1. stamps[gone + k] \in Stamps
    BY <1>1, <1>5
  <2>2. older[k] = [stamps[gone + k] EXCEPT !.age = @ + 1]
    OBVIOUS
  <2> HIDE DEF older, gone
  <2> QED BY <2>1, <2>2 DEF Stamps
<1>7. older \in Seq(Stamps) /\ Len(older) = kept
  <2>1. older = [k \in 1 .. kept |-> older[k]]
    OBVIOUS
  <2>2. \A k \in 1 .. kept : older[k] \in Stamps
    BY <1>6
  <2> HIDE DEF older, kept
  <2>3. older \in [1 .. kept -> Stamps]
    BY <2>1, <2>2
  <2> QED BY <1>1, <2>3
<1>8. Sorted'
  <2>1. Len(stamps') = kept
    BY <1>4, <1>7
  <2>2. \A k \in 1 .. n : stamps[k].age \in Nat
    BY <1>1 DEF Stamps
  <2> HIDE DEF older, kept
  <2>3. ASSUME NEW j \in 1 .. kept, NEW k \in 1 .. kept, j <= k
        PROVE  stamps'[j].age >= stamps'[k].age
    <3>1. gone + j \in 1 .. n /\ gone + k \in 1 .. n /\ gone + j <= gone + k
      BY <1>1, <1>5, <2>3
    <3>2. stamps[gone + j].age >= stamps[gone + k].age
      BY <3>1 DEF Sorted
    <3> HIDE DEF gone
    <3> QED BY <1>4, <1>6, <2>2, <3>1, <3>2
  <2>4. ASSUME NEW k \in 1 .. kept
        PROVE  stamps'[k].age < Day
    <3>1. gone + 1 \in 1 .. n /\ gone + k \in 1 .. n /\ gone + 1 <= gone + k
      BY <1>1, <1>5, <2>4
    <3>2. stamps[gone + 1].age >= stamps[gone + k].age
      BY <3>1 DEF Sorted
    <3>3. stamps[gone + 1].age < Day - 1
      BY <1>1, <1>3, <2>4
    <3> HIDE DEF gone
    <3> QED BY <1>2, <1>4, <1>6, <2>2, <3>1, <3>2, <3>3
  <2> QED BY <2>1, <2>3, <2>4 DEF Sorted
<1> HIDE DEF older
<1> QED BY <1>1, <1>3, <1>4, <1>5, <1>6, <1>7, <1>8

(* A shorter window holds no more.                                         *)
LEMMA CountGrows ==
  ASSUME GateShape, NEW v \in Nat, NEW w \in Nat, v <= w
  PROVE  Count(v) <= Count(w)
<1>1. Recent(v) \in SUBSET Recent(w)
  <2>1. ASSUME NEW k \in Recent(v)
        PROVE  k \in Recent(w)
    <3>1. k \in DOMAIN stamps /\ stamps[k].age < v /\ stamps[k].age \in Nat
      BY <2>1, RecentFacts DEF Recent, Stamps
    <3> QED BY <3>1 DEF Recent
  <2> QED BY <2>1
<1>2. IsFiniteSet(Recent(w))
  BY RecentFacts
<1> QED BY <1>1, <1>2, FS_Subset DEF Count

(* A tick later a window holds what a window one shorter held, at most.    *)
LEMMA TickCounts ==
  ASSUME GateShape, Sorted, Tick, GateShape', NEW w \in Nat \ {0}
  PROVE  /\ Count(w)' <= Count(w - 1)
         /\ Cardinality(Firsts(w)') <= Cardinality(Firsts(w - 1))
         /\ Count(w)' <= Count(w)
         /\ Count(w)' \in Nat /\ Cardinality(Firsts(w)') \in Nat
<1> DEFINE kept == Count(Day - 1)
           gone == Len(stamps) - kept
           shift == [k \in Recent(w)' |-> gone + k]
           shifted == [k \in Firsts(w)' |-> gone + k]
<1>1. /\ kept \in Nat /\ gone \in Nat /\ Len(stamps') = kept
      /\ \A k \in 1 .. kept :
           /\ gone + k \in 1 .. Len(stamps)
           /\ stamps'[k].age = stamps[gone + k].age + 1
           /\ stamps'[k].first = stamps[gone + k].first
  BY TickStamps
<1>2. /\ DOMAIN stamps = 1 .. Len(stamps) /\ DOMAIN stamps' = 1 .. kept
      /\ \A k \in 1 .. Len(stamps) : stamps[k].age \in Nat
      /\ IsFiniteSet(Recent(w - 1)) /\ IsFiniteSet(Firsts(w - 1))
  <2>1. DOMAIN stamps' = 1 .. Len(stamps')
    BY DEF GateShape
  <2> HIDE DEF kept
  <2> QED BY <1>1, <2>1, RecentFacts DEF Stamps
<1> HIDE DEF kept, gone
<1>3. \A k \in Recent(w)' : k \in 1 .. kept /\ gone + k \in Recent(w - 1)
  <2>1. ASSUME NEW k \in Recent(w)'
        PROVE  k \in 1 .. kept /\ gone + k \in Recent(w - 1)
    <3>1. k \in 1 .. kept /\ stamps'[k].age < w
      BY <1>2, <2>1 DEF Recent
    <3>2. gone + k \in DOMAIN stamps /\ stamps[gone + k].age < w - 1
      BY <1>1, <1>2, <3>1
    <3> QED BY <3>1, <3>2 DEF Recent
  <2> QED BY <2>1
<1>4. \A k \in Firsts(w)' : k \in Recent(w)' /\ gone + k \in Firsts(w - 1)
  <2>1. ASSUME NEW k \in Firsts(w)'
        PROVE  k \in Recent(w)' /\ gone + k \in Firsts(w - 1)
    <3>1. k \in Recent(w)' /\ stamps'[k].first
      BY <2>1 DEF Firsts
    <3>2. stamps[gone + k].first
      BY <1>1, <1>3, <3>1
    <3> QED BY <1>3, <3>1, <3>2 DEF Firsts
  <2> QED BY <2>1
<1>5. shift \in Injection(Recent(w)', Recent(w - 1))
  <2>1. shift \in [Recent(w)' -> Recent(w - 1)]
    BY <1>3
  <2>2. \A j, k \in Recent(w)' : shift[j] = shift[k] => j = k
    <3>1. \A j, k \in Recent(w)' : gone + j = gone + k => j = k
      BY <1>1, <1>3
    <3> QED BY <3>1
  <2> HIDE DEF shift
  <2> QED BY <2>1, <2>2 DEF Injection, IsInjective
<1>6. shifted \in Injection(Firsts(w)', Firsts(w - 1))
  <2>1. shifted \in [Firsts(w)' -> Firsts(w - 1)]
    BY <1>4
  <2>2. \A j, k \in Firsts(w)' : shifted[j] = shifted[k] => j = k
    <3>1. \A j, k \in Firsts(w)' : gone + j = gone + k => j = k
      BY <1>1, <1>3, <1>4
    <3> QED BY <3>1
  <2> HIDE DEF shifted
  <2> QED BY <2>1, <2>2 DEF Injection, IsInjective
<1>7. Count(w)' <= Count(w - 1)
  <2> HIDE DEF shift
  <2>1. Cardinality(Recent(w)') <= Cardinality(Recent(w - 1))
    BY <1>2, <1>5, FS_Injection
  <2> QED BY <2>1 DEF Count
<1>8. Cardinality(Firsts(w)') <= Cardinality(Firsts(w - 1))
  <2> HIDE DEF shifted
  <2> QED BY <1>2, <1>6, FS_Injection
<1>10. Count(w)' \in Nat /\ Cardinality(Firsts(w)') \in Nat
  <2>1. IsFiniteSet(Recent(w)')
    <3> HIDE DEF shift
    <3> QED BY <1>2, <1>5, FS_Injection
  <2>2. IsFiniteSet(Firsts(w)')
    <3> HIDE DEF shifted
    <3> QED BY <1>2, <1>6, FS_Injection
  <2> QED BY <2>1, <2>2, FS_CardinalityType DEF Count
<1>9. Count(w)' <= Count(w)
  <2>1. w - 1 \in Nat /\ w \in Nat /\ w - 1 <= w
    OBVIOUS
  <2>2. Count(w - 1) <= Count(w)
    BY <2>1, CountGrows
  <2>4. Count(w - 1) \in Nat /\ Count(w) \in Nat
    BY RecentFacts
  <2> QED BY <1>7, <1>10, <2>2, <2>4
<1> QED BY <1>7, <1>8, <1>9, <1>10

(* An attempt is one stamp more in every window.                           *)
LEMMA AttemptCounts ==
  ASSUME GateShape, Sorted, Attempt
  PROVE  /\ stamps' \in Seq(Stamps)
         /\ Sorted'
         /\ \A w \in Nat \ {0} :
              /\ Count(w)' = Count(w) + 1
              /\ Cardinality(Firsts(w)') =
                   Cardinality(Firsts(w)) + (IF caller.attempts = 0 THEN 1 ELSE 0)
<1> DEFINE n == Len(stamps)
           now == [age |-> 0, first |-> caller.attempts = 0]
<1>1. n \in Nat /\ DOMAIN stamps = 1 .. n /\ stamps \in Seq(Stamps)
      /\ \A k \in 1 .. n : stamps[k] \in Stamps
  BY RecentFacts DEF GateShape
<1>2. now \in Stamps /\ now.age = 0 /\ now.first = (caller.attempts = 0)
  BY DEF Stamps
<1>3. stamps' = Append(stamps, now)
  BY DEF Attempt
<1>4. /\ stamps' \in Seq(Stamps) /\ Len(stamps') = n + 1 /\ DOMAIN stamps' = 1 .. n + 1
      /\ \A k \in 1 .. n : stamps'[k] = stamps[k]
      /\ stamps'[n + 1] = now
  <2> HIDE DEF now
  <2> QED BY <1>1, <1>2, <1>3
<1>5. Sorted'
  <2>1. Day \in Nat \ {0}
    BY PolicyAssumption
  <2>2. \A k \in 1 .. n : stamps[k].age \in Nat
    BY <1>1 DEF Stamps
  <2>3. ASSUME NEW j \in 1 .. n + 1, NEW k \in 1 .. n + 1, j <= k
        PROVE  stamps'[j].age >= stamps'[k].age
    <3> HIDE DEF n, now
    <3>1. CASE k = n + 1
      <4>1. stamps'[k].age = 0
        BY <1>2, <1>4, <3>1
      <4>2. stamps'[j].age \in Nat
        <5>1. CASE j = n + 1
          BY <1>2, <1>4, <5>1
        <5>2. CASE j # n + 1
          <6>1. j \in 1 .. n
            BY <1>1, <5>2
          <6> QED BY <1>4, <2>2, <6>1
        <5> QED BY <5>1, <5>2
      <4> QED BY <4>1, <4>2
    <3>2. CASE k # n + 1
      <4>1. j \in 1 .. n /\ k \in 1 .. n
        BY <1>1, <2>3, <3>2
      <4> QED BY <1>4, <2>3, <4>1 DEF Sorted, n
    <3> QED BY <3>1, <3>2
  <2>4. ASSUME NEW k \in 1 .. n + 1
        PROVE  stamps'[k].age < Day
    <3> HIDE DEF now
    <3>1. CASE k = n + 1
      BY <1>2, <1>4, <2>1, <3>1
    <3>2. CASE k # n + 1
      BY <1>1, <1>4, <3>2 DEF Sorted
    <3> QED BY <3>1, <3>2
  <2> HIDE DEF n
  <2> QED BY <1>4, <2>3, <2>4 DEF Sorted
<1>6. ASSUME NEW w \in Nat \ {0}
      PROVE  /\ Count(w)' = Count(w) + 1
             /\ Cardinality(Firsts(w)') =
                  Cardinality(Firsts(w)) + (IF caller.attempts = 0 THEN 1 ELSE 0)
  <2> HIDE DEF now
  <2>1. /\ IsFiniteSet(Recent(w)) /\ IsFiniteSet(Firsts(w))
        /\ n + 1 \notin Recent(w) /\ n + 1 \notin Firsts(w)
    <3>1. n + 1 \notin DOMAIN stamps
      BY <1>1
    <3>2. n + 1 \notin Recent(w)
      BY <3>1 DEF Recent
    <3>3. n + 1 \notin Firsts(w)
      BY <3>2 DEF Firsts
    <3> QED BY <3>2, <3>3, RecentFacts
  <2>2. Recent(w)' = Recent(w) \cup {n + 1}
    <3>1. ASSUME NEW k
          PROVE  k \in Recent(w)' <=> k \in Recent(w) \cup {n + 1}
      <4>1. CASE k = n + 1
        <5>1. n + 1 \in 1 .. n + 1 /\ stamps'[n + 1].age < w
          BY <1>1, <1>2, <1>4
        <5> QED BY <1>4, <4>1, <5>1 DEF Recent
      <4>2. CASE k # n + 1
        <5>1. k \in 1 .. n + 1 <=> k \in 1 .. n
          BY <1>1, <4>2
        <5> QED BY <1>1, <1>4, <4>2, <5>1 DEF Recent
      <4> QED BY <4>1, <4>2
    <3> QED BY <3>1
  <2>3. Firsts(w)' = IF caller.attempts = 0 THEN Firsts(w) \cup {n + 1} ELSE Firsts(w)
    <3>1. ASSUME NEW k
          PROVE  k \in Firsts(w)' <=> (k \in Firsts(w) \/ (k = n + 1 /\ caller.attempts = 0))
      <4>1. CASE k = n + 1
        BY <1>2, <1>4, <2>1, <2>2, <4>1 DEF Firsts
      <4>2. CASE k # n + 1
        <5>1. k \in Recent(w) => k \in 1 .. n
          BY <1>1 DEF Recent
        <5> QED BY <1>4, <2>2, <4>2, <5>1 DEF Firsts
      <4> QED BY <4>1, <4>2
    <3> QED BY <3>1
  <2> HIDE DEF n
  <2>4. Cardinality(Recent(w) \cup {n + 1}) = Cardinality(Recent(w)) + 1
    BY <2>1, FS_AddElement
  <2>5. Cardinality(Firsts(w) \cup {n + 1}) = Cardinality(Firsts(w)) + 1
    BY <2>1, FS_AddElement
  <2>6. Cardinality(Firsts(w)) \in Nat
    BY RecentFacts
  <2> QED BY <2>2, <2>3, <2>4, <2>5, <2>6 DEF Count
<1> QED BY <1>4, <1>5, <1>6

(* The policy's numbers.                                                   *)
LEMMA PolicyFacts ==
  /\ PerMinute \in Nat \ {0} /\ PerHour \in Nat \ {0} /\ Quota \in Nat \ {0}
  /\ Minute \in Nat \ {0} /\ Hour \in Nat \ {0} /\ Day \in Nat \ {0}
  /\ Minute <= Day /\ Hour <= Day
  /\ Capacity \in Nat \ {0} /\ Refill \in Nat \ {0}
  /\ BurstLimit \in Nat \ {0} /\ BurstWindow \in Nat \ {0}
  /\ MaxRetries \in Nat /\ MaxBackoff \in Nat \ {0}
  BY PolicyAssumption

LEMMA TimesFacts ==
  ASSUME NEW r \in Nat, NEW a \in Nat, NEW b \in Nat, a <= b
  PROVE  /\ r * a \in Nat
         /\ r * a <= r * b
         /\ r * (a + 1) = r * a + r
<1>1. r * a \in Nat /\ r * b \in Nat
  OBVIOUS
<1>2. b - a \in Nat /\ b = a + (b - a)
  OBVIOUS
<1>3. r * (b - a) \in Nat
  BY <1>2
<1>4. r * b = r * a + r * (b - a)
  BY <1>2
<1> QED BY <1>1, <1>3, <1>4

LEMMA FullFacts == Full \in Nat /\ Full >= Refill
<1>1. Capacity \in Nat /\ Capacity >= 1 /\ Refill \in Nat
  BY PolicyFacts
<1>2. Refill * 1 <= Refill * Capacity
  BY <1>1, TimesFacts
<1>3. Full = Refill * Capacity /\ Refill * 1 = Refill
  BY <1>1 DEF Full
<1> QED BY <1>1, <1>2, <1>3

-----------------------------------------------------------------------------
(* The gatekeeper's invariant.                                             *)

(* Only a call that may still be repeated is between two attempts.         *)
CallLink ==
  /\ caller.pc \in {"idle", "admit"} => caller.attempts = 0
  /\ caller.pc = "attempt" => caller.attempts <= MaxRetries
  /\ caller.pc = "flight" => caller.attempts \in 1 .. MaxRetries + 1

(* A call found room for one attempt, and each repeated one takes one more.*)
WithinLimit(limit, window) ==
  /\ Count(window) <= limit + MaxRetries
  /\ caller.pc = "attempt" => Count(window) < limit + caller.attempts
  /\ caller.pc = "flight" => Count(window) < limit + caller.attempts

WindowLink ==
  /\ admission = "rolling_window" =>
       WithinLimit(PerMinute, Minute) /\ WithinLimit(PerHour, Hour)
  /\ admission = "token_bucket" =>
       /\ WithinLimit(Quota, Day)
       /\ caller.pc = "admit" => Count(Day) < Quota

(* No call begins once the detector latched.                               *)
LatchLink ==
  watched =>
    /\ Count(BurstWindow) <= BurstLimit + 1 + MaxRetries
    /\ ~locked => Count(BurstWindow) <= BurstLimit
    /\ caller.pc = "admit" => ~locked
    /\ caller.pc = "attempt" => Count(BurstWindow) <= BurstLimit + caller.attempts
    /\ caller.pc = "flight" => Count(BurstWindow) <= BurstLimit + caller.attempts

(* What a window's calls took and what the bucket holds came out of a full *)
(* bucket and of one share a tick.                                         *)
BucketLink ==
  admission = "token_bucket" =>
    /\ \A w \in 1 .. Day :
         tokens + Refill * Cardinality(Firsts(w)) <= Full + (w - 1)
    /\ caller.pc = "attempt" /\ caller.attempts = 0 => tokens >= Refill

(* What a sleeping call waits for comes no later than its sleep ends.      *)
SleepLink == caller.pc = "admit" /\ caller.slept => WaitSeconds <= caller.sleep

GateInv ==
  GateShape /\ Sorted /\ CallLink /\ WindowLink /\ LatchLink /\ BucketLink /\ SleepLink

LEMMA GateStarts == GateInit => GateInv
<1> SUFFICES ASSUME GateInit
             PROVE  GateInv
  OBVIOUS
<1>1. GateShape
  <2>1. Idle \in Callers
    BY DEF Idle, Callers
  <2>2. /\ admission \in {"rolling_window", "token_bucket"}
        /\ watched \in BOOLEAN /\ (watched => admission = "token_bucket")
    BY DEF GateInit
  <2>3. stamps \in Seq(Stamps) /\ tokens \in 0 .. Full /\ locked \in BOOLEAN
    <3>1. stamps = <<>> /\ tokens = Full /\ locked = FALSE
      BY DEF GateInit
    <3>2. <<>> \in Seq(Stamps)
      OBVIOUS
    <3>3. Full \in 0 .. Full
      BY FullFacts
    <3> QED BY <3>1, <3>2, <3>3
  <2> QED BY <2>1, <2>2, <2>3 DEF GateInit, GateShape
<1>2. Sorted
  BY DEF GateInit, Sorted
<1>3. \A w : Recent(w) = {} /\ Count(w) = 0 /\ Cardinality(Firsts(w)) = 0
  <2>1. \A w : Recent(w) = {} /\ Firsts(w) = {}
    BY DEF GateInit, Recent, Firsts
  <2>2. Cardinality({}) = 0
    BY FS_EmptySet
  <2> QED BY <2>1, <2>2 DEF Count
<1>4. caller.pc = "idle" /\ caller.attempts = 0
  BY DEF GateInit, Idle
<1>5. CallLink /\ SleepLink
  BY <1>4 DEF CallLink, SleepLink
<1>6. WindowLink
  BY <1>3, <1>4, PolicyFacts DEF WindowLink, WithinLimit
<1>7. LatchLink
  BY <1>3, <1>4, PolicyFacts DEF LatchLink
<1>8. BucketLink
  <2>1. Refill * 0 = 0 /\ tokens = Full /\ Full \in Nat
    BY PolicyFacts, FullFacts DEF GateInit
  <2> QED BY <1>3, <1>4, <2>1, PolicyFacts DEF BucketLink
<1> QED BY <1>1, <1>2, <1>5, <1>6, <1>7, <1>8 DEF GateInv

(* The wait for a window: none exactly when the window has room.           *)
LEMMA WaitFacts ==
  ASSUME GateShape, Sorted, NEW limit \in Nat \ {0}, NEW w \in Nat \ {0}
  PROVE  /\ WindowWait(limit, w) \in Nat
         /\ WindowWait(limit, w) = 0 => Count(w) < limit
<1>1. Count(w) \in Nat
  BY RecentFacts
<1>2. CASE Count(w) < limit
  BY <1>1, <1>2 DEF WindowWait
<1>3. CASE Count(w) >= limit
  <2>1. /\ stamps[Len(stamps) - limit + 1].age \in Nat
        /\ stamps[Len(stamps) - limit + 1].age < w
    BY <1>3, FullWindow
  <2>2. WindowWait(limit, w) = w - stamps[Len(stamps) - limit + 1].age
    BY <1>3 DEF WindowWait
  <2> QED BY <2>1, <2>2
<1> QED BY <1>1, <1>2, <1>3

(* A tick takes one off the wait for a window, or there was none.          *)
LEMMA TickWait ==
  ASSUME GateShape, Sorted, Tick, GateShape', NEW limit \in Nat \ {0},
         NEW w \in Nat \ {0}
  PROVE  /\ WindowWait(limit, w)' \in Nat
         /\ WindowWait(limit, w) = 0 => WindowWait(limit, w)' = 0
         /\ WindowWait(limit, w) > 0 => WindowWait(limit, w)' <= WindowWait(limit, w) - 1
<1> DEFINE kept == Count(Day - 1)
           gone == Len(stamps) - kept
<1>1. /\ kept \in Nat /\ gone \in Nat /\ Len(stamps') = kept
      /\ \A k \in 1 .. kept :
           /\ gone + k \in 1 .. Len(stamps)
           /\ stamps'[k].age = stamps[gone + k].age + 1
      /\ Sorted'
  BY TickStamps
<1>2. Count(w) \in Nat /\ Count(w)' \in Nat /\ Count(w)' <= Count(w)
      /\ Len(stamps) \in Nat
  BY RecentFacts, TickCounts
<1>3. CASE Count(w)' < limit
  <2>1. WindowWait(limit, w)' = 0
    BY <1>2, <1>3 DEF WindowWait
  <2>2. WindowWait(limit, w) \in Nat
    BY WaitFacts
  <2> QED BY <2>1, <2>2
<1>4. CASE Count(w)' >= limit
  <2>1. /\ (Len(stamps) - limit + 1)' \in 1 .. Len(stamps)'
        /\ (stamps[Len(stamps) - limit + 1].age)' \in Nat
        /\ (stamps[Len(stamps) - limit + 1].age)' < w
    <3>1. stamps' \in Seq(Stamps)
      BY DEF GateShape
    <3>2. InOrder(stamps')
      BY <1>1 DEF Sorted, InOrder
    <3>3. Cardinality(Aged(stamps', w)) >= limit
      BY <1>4 DEF Count, Recent, Aged
    <3> QED BY <3>1, <3>2, <3>3, FullRun
  <2>2. kept - limit + 1 \in 1 .. kept
        /\ stamps'[kept - limit + 1].age < w
        /\ stamps'[kept - limit + 1].age \in Nat
    BY <1>1, <2>1
  <2>3. gone + (kept - limit + 1) = Len(stamps) - limit + 1
    BY <1>1, <1>2
  <2>4. stamps'[kept - limit + 1].age = stamps[Len(stamps) - limit + 1].age + 1
    <3> HIDE DEF kept, gone
    <3> QED BY <1>1, <2>2, <2>3
  <2>5. WindowWait(limit, w)' = w - stamps'[kept - limit + 1].age
    BY <1>1, <1>4 DEF WindowWait
  <2>6. Count(w) >= limit
    BY <1>2, <1>4
  <2>7. stamps[Len(stamps) - limit + 1].age \in Nat
    BY <2>6, FullWindow
  <2>8. WindowWait(limit, w) = w - stamps[Len(stamps) - limit + 1].age
    BY <2>6 DEF WindowWait
  <2> DEFINE young == stamps[Len(stamps) - limit + 1].age
  <2>9. /\ WindowWait(limit, w)' = w - (young + 1) /\ WindowWait(limit, w) = w - young
        /\ young \in Nat /\ young + 1 < w /\ w \in Nat
    BY <2>2, <2>4, <2>5, <2>7, <2>8
  <2>10. /\ w - (young + 1) \in Nat /\ w - young # 0
         /\ w - (young + 1) <= (w - young) - 1
    <3> HIDE DEF young
    <3> QED BY <2>9
  <2> HIDE DEF kept, gone, young
  <2> QED BY <2>9, <2>10
<1> QED BY <1>2, <1>3, <1>4

-----------------------------------------------------------------------------
(* What each step of the gatekeeper keeps.                                 *)

LEMMA ShapeStays == GateShape /\ Sorted /\ [GateNext]_gate => GateShape'
<1> SUFFICES ASSUME GateShape, Sorted, [GateNext]_gate
             PROVE  GateShape'
  OBVIOUS
<1>1. CASE Tick
  <2>1. stamps' \in Seq(Stamps)
    BY <1>1, TickStamps
  <2>2. tokens' \in 0 .. Full
    BY <1>1, FullFacts DEF Tick, Refilled, GateShape
  <2>3. caller' \in Callers
    <3>1. CASE caller.sleep > 0
      BY <1>1, <3>1 DEF Tick, GateShape, Callers
    <3>2. CASE ~(caller.sleep > 0)
      BY <1>1, <3>2 DEF Tick, GateShape
    <3> QED BY <3>1, <3>2
  <2>4. UNCHANGED <<admission, watched, locked>>
    BY <1>1 DEF Tick
  <2> QED BY <2>1, <2>2, <2>3, <2>4 DEF GateShape
<1>2. CASE Call
  BY <1>2 DEF Call, Idle, GateShape, Callers
<1>3. CASE Admit
  <2>1. WaitSeconds = 0 \/ WaitSeconds \in Nat
    <3>1. BucketWait \in Nat
      BY PolicyFacts, FullFacts DEF BucketWait, GateShape
    <3>2. WindowWait(PerMinute, Minute) \in Nat /\ WindowWait(PerHour, Hour) \in Nat
      BY WaitFacts, PolicyFacts
    <3> QED BY <3>1, <3>2 DEF WaitSeconds
  <2>2. caller' \in Callers
    <3>1. caller \in Callers
      BY DEF GateShape
    <3>2. /\ caller.attempts \in Nat /\ caller.sleep \in Nat /\ caller.slept \in BOOLEAN
          /\ caller.pc \in {"idle", "admit", "attempt", "flight"}
      BY <3>1 DEF Callers
    <3>3. CASE WaitSeconds = 0
      <4>1. caller' = [pc |-> "attempt", attempts |-> caller.attempts,
                       sleep |-> caller.sleep, slept |-> FALSE]
        BY <1>3, <3>1, <3>3 DEF Admit, Callers
      <4> QED BY <3>2, <4>1 DEF Callers
    <3>4. CASE WaitSeconds # 0
      <4>1. caller' = [pc |-> caller.pc, attempts |-> caller.attempts,
                       sleep |-> WaitSeconds, slept |-> TRUE]
        BY <1>3, <3>1, <3>4 DEF Admit, Callers
      <4>2. WaitSeconds \in Nat
        BY <2>1
      <4> QED BY <3>2, <4>1, <4>2 DEF Callers
    <3> QED BY <3>3, <3>4
  <2> QED BY <1>3, <2>2 DEF Admit, GateShape
<1>4. CASE Attempt
  <2>1. stamps' \in Seq(Stamps)
    BY <1>4, AttemptCounts
  <2>2. tokens' \in 0 .. Full
    BY <1>4, PolicyFacts, FullFacts DEF Attempt, Spent, GateShape
  <2>3. caller' \in Callers
    <3>1. caller \in Callers
      BY DEF GateShape
    <3>2. caller' = [pc |-> "flight", attempts |-> caller.attempts + 1,
                     sleep |-> caller.sleep, slept |-> caller.slept]
      BY <1>4, <3>1 DEF Attempt, Callers
    <3>3. caller.attempts \in Nat /\ caller.sleep \in Nat /\ caller.slept \in BOOLEAN
      BY <3>1 DEF Callers
    <3> QED BY <3>2, <3>3 DEF Callers
  <2>4. locked' \in BOOLEAN
    BY <1>4 DEF Attempt, Latches, GateShape
  <2>5. UNCHANGED <<admission, watched>>
    BY <1>4 DEF Attempt
  <2> QED BY <2>1, <2>2, <2>3, <2>4, <2>5 DEF GateShape
<1>5. CASE Finish
  BY <1>5 DEF Finish, Idle, GateShape, Callers
<1>6. CASE Retry
  <2>1. caller' \in Callers
    <3>1. PICK wait \in 1 .. MaxBackoff :
            caller' = [caller EXCEPT !.pc = "attempt", !.sleep = wait]
      BY <1>6 DEF Retry
    <3>2. wait \in Nat
      BY PolicyFacts
    <3>3. caller \in Callers
      BY DEF GateShape
    <3>4. caller' = [pc |-> "attempt", attempts |-> caller.attempts, sleep |-> wait,
                     slept |-> caller.slept]
      BY <3>1, <3>3 DEF Callers
    <3>5. caller.attempts \in Nat /\ caller.slept \in BOOLEAN
      BY <3>3 DEF Callers
    <3> QED BY <3>2, <3>4, <3>5 DEF Callers
  <2> QED BY <1>6, <2>1 DEF Retry, GateShape
<1>7. CASE UNCHANGED gate
  BY <1>7 DEF gate, GateShape
<1> QED BY <1>1, <1>2, <1>3, <1>4, <1>5, <1>6, <1>7 DEF GateNext

LEMMA OneShareATick ==
  ASSUME NEW t \in Nat, NEW u \in Nat, NEW x \in Nat, NEW y \in Nat, NEW f \in Nat,
         NEW w \in Nat, w > 0, u <= t + 1, x <= y, t + y <= f + ((w - 1) - 1)
  PROVE  u + x <= f + (w - 1)
  OBVIOUS

LEMMA KeepsTick ==
  ASSUME GateInv, Tick
  PROVE  GateInv'
<1>1. GateShape /\ Sorted
  BY DEF GateInv
<1>2. GateShape'
  BY <1>1, ShapeStays DEF GateNext
<1>3. Sorted'
  BY <1>1, TickStamps
<1>4. \A w \in Nat \ {0} :
        /\ Count(w)' <= Count(w) /\ Count(w)' \in Nat /\ Count(w) \in Nat
        /\ Cardinality(Firsts(w)') <= Cardinality(Firsts(w - 1))
        /\ Cardinality(Firsts(w)') \in Nat /\ Cardinality(Firsts(w - 1)) \in Nat
  BY <1>1, <1>2, TickCounts, RecentFacts
<1>5. /\ admission' = admission /\ watched' = watched /\ locked' = locked
      /\ tokens' = Refilled
      /\ caller'.pc = caller.pc /\ caller'.attempts = caller.attempts
      /\ caller'.slept = caller.slept
      /\ caller'.sleep = IF caller.sleep > 0 THEN caller.sleep - 1 ELSE caller.sleep
  <2>1. caller \in Callers
    BY <1>1 DEF GateShape
  <2>2. CASE caller.sleep > 0
    <3>1. caller' = [caller EXCEPT !.sleep = @ - 1]
      BY <2>2 DEF Tick
    <3> QED BY <2>1, <2>2, <3>1 DEF Tick, Callers
  <2>3. CASE ~(caller.sleep > 0)
    BY <2>3 DEF Tick
  <2> QED BY <2>2, <2>3
<1>6. caller.attempts \in Nat /\ caller.sleep \in Nat /\ tokens \in Nat
      /\ admission \in {"rolling_window", "token_bucket"}
  BY <1>1, FullFacts DEF GateShape, Callers
<1>7. CallLink'
  BY <1>5 DEF GateInv, CallLink
<1>8. \A limit \in Nat, w \in Nat \ {0} : WithinLimit(limit, w) => WithinLimit(limit, w)'
  <2>1. ASSUME NEW limit \in Nat, NEW w \in Nat \ {0}, WithinLimit(limit, w)
        PROVE  WithinLimit(limit, w)'
    <3>1. Count(w)' <= Count(w) /\ Count(w)' \in Nat /\ Count(w) \in Nat
      BY <1>4
    <3>2. MaxRetries \in Nat
      BY PolicyFacts
    <3> QED BY <1>5, <1>6, <2>1, <3>1, <3>2 DEF WithinLimit
  <2> QED BY <2>1
<1>9. WindowLink'
  <2>1. CASE admission = "rolling_window"
    <3>1. WithinLimit(PerMinute, Minute)' /\ WithinLimit(PerHour, Hour)'
      BY <1>8, <2>1, PolicyFacts DEF GateInv, WindowLink
    <3> QED BY <1>5, <2>1, <3>1 DEF WindowLink
  <2>2. CASE admission = "token_bucket"
    <3>1. WithinLimit(Quota, Day)'
      BY <1>8, <2>2, PolicyFacts DEF GateInv, WindowLink
    <3>2. caller.pc = "admit" => Count(Day)' < Quota
      BY <1>4, <2>2, PolicyFacts DEF GateInv, WindowLink
    <3> QED BY <1>5, <2>2, <3>1, <3>2 DEF WindowLink
  <2> QED BY <1>6, <2>1, <2>2
<1>10. LatchLink'
  <2>1. Count(BurstWindow)' <= Count(BurstWindow) /\ Count(BurstWindow)' \in Nat
        /\ Count(BurstWindow) \in Nat
    BY <1>4, PolicyFacts
  <2> QED BY <1>5, <1>6, <2>1, PolicyFacts DEF GateInv, LatchLink
<1>11. BucketLink'
  <2> SUFFICES ASSUME admission = "token_bucket"
               PROVE  /\ \A w \in 1 .. Day :
                           tokens' + Refill * Cardinality(Firsts(w)') <= Full + (w - 1)
                      /\ caller.pc = "attempt" /\ caller.attempts = 0 => tokens' >= Refill
    BY <1>5 DEF BucketLink
  <2>1. tokens' \in Nat /\ tokens' <= tokens + 1 /\ tokens' >= tokens /\ tokens' <= Full
    BY <1>1, <1>5, FullFacts DEF Refilled, GateShape
  <2>2. ASSUME NEW w \in 1 .. Day
        PROVE  tokens' + Refill * Cardinality(Firsts(w)') <= Full + (w - 1)
    <3> DEFINE now == Cardinality(Firsts(w)')
               before == Cardinality(Firsts(w - 1))
    <3>1. now \in Nat /\ before \in Nat /\ now <= before /\ w \in Nat /\ w > 0
      BY <1>4, PolicyFacts
    <3>2. Refill * now \in Nat /\ Refill * before \in Nat /\ Refill * now <= Refill * before
      <4> HIDE DEF now, before
      <4> QED BY <3>1, TimesFacts, PolicyFacts
    <3>3. CASE w = 1
      <4>1. Firsts(0) = {}
        <5>1. \A k \in DOMAIN stamps : stamps[k].age \in Nat
          BY <1>1, RecentFacts DEF Stamps
        <5> QED BY <5>1 DEF Firsts, Recent
      <4>2. before = 0
        BY <3>3, <4>1, FS_EmptySet
      <4>3. Refill * before = 0
        BY <4>2, PolicyFacts
      <4> HIDE DEF now, before
      <4>4. Refill * now = 0
        BY <3>2, <4>3
      <4> QED BY <2>1, <3>3, <4>4, FullFacts DEF now
    <3>4. CASE w # 1
      <4>1. w - 1 \in 1 .. Day
        BY <3>1, <3>4, PolicyFacts
      <4>2. tokens + Refill * before <= Full + ((w - 1) - 1)
        BY <4>1 DEF GateInv, BucketLink
      <4> DEFINE x == Refill * now
                 y == Refill * before
      <4>3. x \in Nat /\ y \in Nat /\ x <= y
        BY <3>2
      <4>4. tokens + y <= Full + ((w - 1) - 1)
        BY <4>2
      <4> HIDE DEF x, y
      <4>5. tokens' + x <= Full + (w - 1)
        BY <1>6, <2>1, <3>1, <4>3, <4>4, FullFacts, OneShareATick
      <4> QED BY <4>5 DEF x
    <3> QED BY <3>3, <3>4
  <2>3. caller.pc = "attempt" /\ caller.attempts = 0 => tokens' >= Refill
    <3>1. caller.pc = "attempt" /\ caller.attempts = 0 => tokens >= Refill
      BY DEF GateInv, BucketLink
    <3> QED BY <1>6, <2>1, <3>1, PolicyFacts
  <2> QED BY <2>2, <2>3
<1>12. SleepLink'
  <2> SUFFICES ASSUME caller.pc = "admit", caller.slept
               PROVE  WaitSeconds' <= caller'.sleep
    BY <1>5 DEF SleepLink
  <2>1. WaitSeconds <= caller.sleep
    BY DEF GateInv, SleepLink
  <2>2. CASE admission = "token_bucket"
    <3>1. WaitSeconds = BucketWait /\ WaitSeconds' = BucketWait'
      BY <1>5, <2>2 DEF WaitSeconds
    <3>2. BucketWait' = IF tokens' >= Refill THEN 0 ELSE Refill - tokens'
      BY DEF BucketWait
    <3>3. tokens' = IF tokens < Full THEN tokens + 1 ELSE Full
      BY <1>5 DEF Refilled
    <3>4. tokens <= Full
      BY <1>1, FullFacts DEF GateShape
    <3> QED BY <1>5, <1>6, <2>1, <3>1, <3>2, <3>3, <3>4, PolicyFacts, FullFacts
            DEF BucketWait
  <2>3. CASE admission = "rolling_window"
    <3> DEFINE a == WindowWait(PerMinute, Minute)
               b == WindowWait(PerHour, Hour)
    <3>1. /\ a \in Nat /\ b \in Nat /\ a' \in Nat /\ b' \in Nat
          /\ (a = 0 => a' = 0) /\ (a > 0 => a' <= a - 1)
          /\ (b = 0 => b' = 0) /\ (b > 0 => b' <= b - 1)
      BY <1>1, <1>2, TickWait, WaitFacts, PolicyFacts
    <3>2. /\ WaitSeconds = IF a > b THEN a ELSE b
          /\ WaitSeconds' = IF a' > b' THEN a' ELSE b'
      BY <1>5, <2>3 DEF WaitSeconds
    <3> HIDE DEF a, b
    <3> QED BY <1>5, <1>6, <2>1, <3>1, <3>2
  <2> QED BY <1>6, <2>2, <2>3
<1> QED BY <1>2, <1>3, <1>7, <1>9, <1>10, <1>11, <1>12 DEF GateInv

(* Between attempts nothing is counted.                                    *)
LEMMA SameStamps ==
  ASSUME GateInv, UNCHANGED <<admission, watched, stamps, tokens, locked>>
  PROVE  /\ admission' = admission /\ watched' = watched /\ locked' = locked
         /\ tokens' = tokens
         /\ \A w : Count(w)' = Count(w) /\ Firsts(w)' = Firsts(w)
         /\ Sorted'
         /\ WaitSeconds' = WaitSeconds
<1>1. \A w : Recent(w)' = Recent(w)
  BY DEF Recent
<1>2. \A w : Count(w)' = Count(w) /\ Firsts(w)' = Firsts(w)
  BY <1>1 DEF Count, Firsts
<1>3. Sorted'
  BY DEF GateInv, Sorted
<1>4. \A limit, w : WindowWait(limit, w)' = WindowWait(limit, w)
  BY <1>2 DEF WindowWait
<1>5. WaitSeconds' = WaitSeconds
  BY <1>4 DEF WaitSeconds, BucketWait
<1> QED BY <1>2, <1>3, <1>5

(* The caller moves and nothing is counted: what is left to show.          *)
LEMMA KeepsCaller ==
  ASSUME GateInv, UNCHANGED <<admission, watched, stamps, tokens, locked>>,
         GateShape', CallLink',
         caller'.pc \in {"attempt", "flight"} =>
           \/ caller.pc \in {"attempt", "flight"} /\ caller'.attempts = caller.attempts
              /\ (caller'.pc = "attempt" /\ caller'.attempts = 0 => caller.pc = "attempt")
           \/ caller.pc = "admit" /\ WaitSeconds = 0 /\ caller'.attempts = 0,
         caller'.pc = "admit" => caller.pc = "admit" \/ ~Refuses,
         SleepLink'
  PROVE  GateInv'
<1>1. /\ admission' = admission /\ watched' = watched /\ locked' = locked
      /\ tokens' = tokens
      /\ \A w : Count(w)' = Count(w) /\ Firsts(w)' = Firsts(w)
      /\ Sorted'
  BY SameStamps
<1>2. GateShape /\ Sorted
  BY DEF GateInv
<1>3. \A w : Count(w) \in Nat
  BY <1>2, RecentFacts
<1>4. caller.attempts \in Nat /\ caller'.attempts \in Nat
      /\ admission \in {"rolling_window", "token_bucket"}
  BY <1>2 DEF GateShape, Callers
<1>5. ASSUME NEW limit \in Nat \ {0}, NEW w \in Nat \ {0}, WithinLimit(limit, w),
             caller.pc = "admit" /\ WaitSeconds = 0 => Count(w) < limit
      PROVE  WithinLimit(limit, w)'
  <2>1. Count(w)' = Count(w) /\ Count(w) \in Nat
    BY <1>1, <1>3
  <2>2. Count(w) <= limit + MaxRetries
    BY <1>5 DEF WithinLimit
  <2>3. caller'.pc \in {"attempt", "flight"} => Count(w) < limit + caller'.attempts
    <3>1. CASE caller.pc \in {"attempt", "flight"} /\ caller'.attempts = caller.attempts
      BY <1>5, <3>1 DEF WithinLimit
    <3>2. CASE caller.pc = "admit" /\ WaitSeconds = 0 /\ caller'.attempts = 0
      BY <1>5, <2>1, <3>2
    <3> QED BY <3>1, <3>2
  <2> QED BY <2>1, <2>2, <2>3 DEF WithinLimit
<1>6. WindowLink'
  <2>1. CASE admission = "rolling_window"
    <3>1. WindowWait(PerMinute, Minute) \in Nat /\ WindowWait(PerHour, Hour) \in Nat
          /\ (WindowWait(PerMinute, Minute) = 0 => Count(Minute) < PerMinute)
          /\ (WindowWait(PerHour, Hour) = 0 => Count(Hour) < PerHour)
      BY <1>2, WaitFacts, PolicyFacts
    <3>2. WaitSeconds = 0 => Count(Minute) < PerMinute /\ Count(Hour) < PerHour
      BY <2>1, <3>1 DEF WaitSeconds
    <3>3. WithinLimit(PerMinute, Minute) /\ WithinLimit(PerHour, Hour)
      BY <2>1 DEF GateInv, WindowLink
    <3>4. WithinLimit(PerMinute, Minute)' /\ WithinLimit(PerHour, Hour)'
      BY <1>5, <3>2, <3>3, PolicyFacts
    <3> QED BY <1>1, <2>1, <3>4 DEF WindowLink
  <2>2. CASE admission = "token_bucket"
    <3>1. WithinLimit(Quota, Day) /\ (caller.pc = "admit" => Count(Day) < Quota)
      BY <2>2 DEF GateInv, WindowLink
    <3>2. WithinLimit(Quota, Day)'
      BY <1>5, <3>1, PolicyFacts
    <3>3. caller'.pc = "admit" => Count(Day) < Quota
      BY <1>3, <2>2, <3>1, PolicyFacts DEF Refuses
    <3> QED BY <1>1, <2>2, <3>2, <3>3 DEF WindowLink
  <2> QED BY <1>4, <2>1, <2>2
<1>7. LatchLink'
  <2> SUFFICES ASSUME watched
               PROVE  LatchLink'
    BY <1>1 DEF LatchLink
  <2>1. admission = "token_bucket"
    BY <1>2 DEF GateShape
  <2>2. /\ Count(BurstWindow)' = Count(BurstWindow) /\ Count(BurstWindow) \in Nat
        /\ Count(BurstWindow) <= BurstLimit + 1 + MaxRetries
        /\ ~locked => Count(BurstWindow) <= BurstLimit
        /\ caller.pc = "admit" => ~locked
        /\ caller.pc = "attempt" => Count(BurstWindow) <= BurstLimit + caller.attempts
        /\ caller.pc = "flight" => Count(BurstWindow) <= BurstLimit + caller.attempts
    BY <1>1, <1>3 DEF GateInv, LatchLink
  <2>3. caller'.pc = "admit" => ~locked
    BY <2>1, <2>2 DEF Refuses
  <2>4. caller'.pc \in {"attempt", "flight"} =>
          Count(BurstWindow) <= BurstLimit + caller'.attempts
    BY <1>4, <2>2, PolicyFacts
  <2> QED BY <1>1, <2>2, <2>3, <2>4 DEF LatchLink
<1>8. BucketLink'
  <2> SUFFICES ASSUME admission = "token_bucket"
               PROVE  BucketLink'
    BY <1>1 DEF BucketLink
  <2>1. \A w \in 1 .. Day :
          tokens' + Refill * Cardinality(Firsts(w)') <= Full + (w - 1)
    BY <1>1 DEF GateInv, BucketLink
  <2>2. ASSUME caller'.pc = "attempt", caller'.attempts = 0
        PROVE  tokens' >= Refill
    <3>1. CASE caller.pc = "admit" /\ WaitSeconds = 0
      <4>1. BucketWait = 0
        BY <3>1 DEF WaitSeconds
      <4>2. tokens \in Nat
        BY <1>2, FullFacts DEF GateShape
      <4> QED BY <1>1, <4>1, <4>2, PolicyFacts DEF BucketWait
    <3>2. CASE caller.pc = "attempt" /\ caller.attempts = 0
      BY <1>1, <3>2 DEF GateInv, BucketLink
    <3> QED BY <2>2, <3>1, <3>2
  <2> QED BY <2>1, <2>2 DEF BucketLink
<1> QED BY <1>1, <1>6, <1>7, <1>8 DEF GateInv

LEMMA KeepsCall ==
  ASSUME GateInv, Call
  PROVE  GateInv'
<1>1. GateShape'
  BY ShapeStays DEF GateInv, GateNext
<1>2. caller'.pc = "admit" /\ caller'.attempts = 0 /\ caller'.slept = FALSE
  BY DEF Call, Idle
<1>3. CallLink' /\ SleepLink'
  BY <1>2 DEF CallLink, SleepLink
<1>4. UNCHANGED <<admission, watched, stamps, tokens, locked>> /\ ~Refuses
  BY DEF Call
<1> QED BY <1>1, <1>2, <1>3, <1>4, KeepsCaller

LEMMA KeepsAdmit ==
  ASSUME GateInv, Admit
  PROVE  GateInv'
<1>1. GateShape'
  BY ShapeStays DEF GateInv, GateNext
<1>2. caller \in Callers /\ caller.pc = "admit" /\ caller.sleep = 0
      /\ caller.attempts = 0
  BY DEF GateInv, GateShape, CallLink, Admit
<1>3. UNCHANGED <<admission, watched, stamps, tokens, locked>>
  BY DEF Admit
<1>4. WaitSeconds' = WaitSeconds
  BY <1>3, SameStamps
<1>5. CASE WaitSeconds = 0
  <2>1. caller' = [caller EXCEPT !.pc = "attempt", !.slept = FALSE]
    BY <1>5 DEF Admit
  <2>2. caller'.pc = "attempt" /\ caller'.attempts = 0
    BY <1>2, <2>1 DEF Callers
  <2>3. CallLink' /\ SleepLink'
    BY <2>2, PolicyFacts DEF CallLink, SleepLink
  <2> QED BY <1>1, <1>2, <1>3, <1>5, <2>2, <2>3, KeepsCaller
<1>6. CASE WaitSeconds # 0
  <2>1. caller' = [caller EXCEPT !.sleep = WaitSeconds, !.slept = TRUE]
    BY <1>6 DEF Admit
  <2>2. caller'.pc = "admit" /\ caller'.attempts = 0 /\ caller'.sleep = WaitSeconds
    BY <1>2, <2>1 DEF Callers
  <2>3. CallLink'
    BY <2>2 DEF CallLink
  <2>4. WaitSeconds \in Nat
    BY <1>1, <2>2 DEF GateShape, Callers
  <2>5. SleepLink'
    BY <1>4, <2>2, <2>4 DEF SleepLink
  <2> QED BY <1>1, <1>2, <1>3, <2>2, <2>3, <2>5, KeepsCaller
<1> QED BY <1>5, <1>6

LEMMA KeepsFinish ==
  ASSUME GateInv, Finish
  PROVE  GateInv'
<1>1. GateShape'
  BY ShapeStays DEF GateInv, GateNext
<1>2. caller'.pc = "idle" /\ caller'.attempts = 0
  BY DEF Finish, Idle
<1>3. CallLink' /\ SleepLink'
  BY <1>2 DEF CallLink, SleepLink
<1>4. UNCHANGED <<admission, watched, stamps, tokens, locked>>
  BY DEF Finish
<1> QED BY <1>1, <1>2, <1>3, <1>4, KeepsCaller

LEMMA KeepsRetry ==
  ASSUME GateInv, Retry
  PROVE  GateInv'
<1>1. GateShape'
  BY ShapeStays DEF GateInv, GateNext
<1>2. caller \in Callers /\ caller.pc = "flight" /\ caller.attempts \in 1 .. MaxRetries + 1
      /\ caller.attempts <= MaxRetries
  BY DEF GateInv, GateShape, CallLink, Retry, MayRetry
<1>3. UNCHANGED <<admission, watched, stamps, tokens, locked>>
  BY DEF Retry
<1>4. caller'.pc = "attempt" /\ caller'.attempts = caller.attempts
  <2>1. PICK wait \in 1 .. MaxBackoff :
          caller' = [caller EXCEPT !.pc = "attempt", !.sleep = wait]
    BY DEF Retry
  <2> QED BY <1>2, <2>1 DEF Callers
<1>5. CallLink' /\ SleepLink'
  BY <1>2, <1>4 DEF CallLink, SleepLink
<1>6. caller'.attempts # 0
  BY <1>2, <1>4, PolicyFacts
<1> QED BY <1>1, <1>2, <1>3, <1>4, <1>5, <1>6, KeepsCaller

LEMMA KeepsAttempt ==
  ASSUME GateInv, Attempt
  PROVE  GateInv'
<1>1. GateShape /\ Sorted
  BY DEF GateInv
<1>2. GateShape'
  BY <1>1, ShapeStays DEF GateNext
<1>3. /\ Sorted'
      /\ \A w \in Nat \ {0} :
           /\ Count(w)' = Count(w) + 1 /\ Count(w) \in Nat
           /\ Cardinality(Firsts(w)) \in Nat
           /\ Cardinality(Firsts(w)') =
                Cardinality(Firsts(w)) + (IF caller.attempts = 0 THEN 1 ELSE 0)
  BY <1>1, AttemptCounts, RecentFacts
<1>4. /\ admission' = admission /\ watched' = watched /\ tokens' = Spent
      /\ locked' = (locked \/ Latches)
      /\ caller.pc = "attempt" /\ caller'.pc = "flight"
      /\ caller'.attempts = caller.attempts + 1
      /\ caller.attempts \in Nat /\ caller.attempts <= MaxRetries
  BY <1>1 DEF GateInv, CallLink, Attempt, GateShape, Callers
<1>5. admission \in {"rolling_window", "token_bucket"} /\ tokens \in Nat
  BY <1>1, FullFacts DEF GateShape
<1>6. CallLink' /\ SleepLink'
  BY <1>4, PolicyFacts DEF CallLink, SleepLink
<1>7. \A limit \in Nat, w \in Nat \ {0} : WithinLimit(limit, w) => WithinLimit(limit, w)'
  <2>1. ASSUME NEW limit \in Nat, NEW w \in Nat \ {0}, WithinLimit(limit, w)
        PROVE  WithinLimit(limit, w)'
    <3>1. Count(w)' = Count(w) + 1 /\ Count(w) \in Nat /\ MaxRetries \in Nat
      BY <1>3, PolicyFacts
    <3>2. Count(w) < limit + caller.attempts
      BY <1>4, <2>1 DEF WithinLimit
    <3> QED BY <1>4, <3>1, <3>2 DEF WithinLimit
  <2> QED BY <2>1
<1>8. WindowLink'
  <2>1. CASE admission = "rolling_window"
    <3>1. WithinLimit(PerMinute, Minute)' /\ WithinLimit(PerHour, Hour)'
      BY <1>7, <2>1, PolicyFacts DEF GateInv, WindowLink
    <3> QED BY <1>4, <2>1, <3>1 DEF WindowLink
  <2>2. CASE admission = "token_bucket"
    <3>1. WithinLimit(Quota, Day)'
      BY <1>7, <2>2, PolicyFacts DEF GateInv, WindowLink
    <3> QED BY <1>4, <2>2, <3>1 DEF WindowLink
  <2> QED BY <1>5, <2>1, <2>2
<1>9. LatchLink'
  <2> SUFFICES ASSUME watched
               PROVE  LatchLink'
    BY <1>4 DEF LatchLink
  <2> DEFINE burst == Count(BurstWindow)
  <2>1. Count(BurstWindow)' = burst + 1 /\ burst \in Nat
    BY <1>3, PolicyFacts
  <2>2. burst <= BurstLimit + caller.attempts
    BY <1>4 DEF GateInv, LatchLink
  <2>3. ~locked' => burst < BurstLimit
    <3>1. ~locked' => ~Latches
      BY <1>4, Zenon
    <3>2. ~Latches => ~(burst >= BurstLimit)
      BY DEF Latches
    <3> HIDE DEF burst
    <3>3. ~(burst >= BurstLimit) => burst < BurstLimit
      BY <2>1, PolicyFacts
    <3> QED BY <3>1, <3>2, <3>3
  <2> HIDE DEF burst
  <2>4. /\ Count(BurstWindow)' <= BurstLimit + 1 + MaxRetries
        /\ ~locked' => Count(BurstWindow)' <= BurstLimit
        /\ Count(BurstWindow)' <= BurstLimit + caller'.attempts
    BY <1>4, <2>1, <2>2, <2>3, PolicyFacts
  <2> QED BY <1>4, <2>4 DEF LatchLink
<1>10. BucketLink'
  <2> SUFFICES ASSUME admission = "token_bucket"
               PROVE  \A w \in 1 .. Day :
                        tokens' + Refill * Cardinality(Firsts(w)') <= Full + (w - 1)
    BY <1>4 DEF BucketLink
  <2> SUFFICES ASSUME NEW w \in 1 .. Day
               PROVE  tokens' + Refill * Cardinality(Firsts(w)') <= Full + (w - 1)
    OBVIOUS
  <2> DEFINE f == Cardinality(Firsts(w))
             share == Refill * f
  <2>1. f \in Nat /\ share \in Nat /\ w \in Nat \ {0}
        /\ Cardinality(Firsts(w)') = f + (IF caller.attempts = 0 THEN 1 ELSE 0)
    BY <1>3, PolicyFacts
  <2>2. tokens + share <= Full + (w - 1)
    BY DEF GateInv, BucketLink
  <2>3. Refill * (f + 1) = share + Refill
    <3> HIDE DEF f
    <3> QED BY <2>1, TimesFacts, PolicyFacts DEF share
  <2>4. CASE caller.attempts = 0
    <3>1. tokens >= Refill /\ tokens' = tokens - Refill
      BY <1>4, <2>4 DEF GateInv, BucketLink, Spent
    <3>2. Refill * Cardinality(Firsts(w)') = share + Refill
      BY <2>1, <2>3, <2>4
    <3> HIDE DEF share, f
    <3> QED BY <1>5, <2>1, <2>2, <3>1, <3>2, PolicyFacts, FullFacts
  <2>5. CASE caller.attempts # 0
    <3>1. tokens' <= tokens /\ tokens' \in Nat
      BY <1>4, <1>5, PolicyFacts DEF Spent
    <3>2. Refill * Cardinality(Firsts(w)') = share
      BY <2>1, <2>5
    <3> HIDE DEF share, f
    <3> QED BY <1>5, <2>1, <2>2, <3>1, <3>2, FullFacts
  <2> QED BY <2>4, <2>5
<1> QED BY <1>2, <1>3, <1>6, <1>8, <1>9, <1>10 DEF GateInv

LEMMA GateStays == GateInv /\ [GateNext]_gate => GateInv'
<1> SUFFICES ASSUME GateInv, [GateNext]_gate
             PROVE  GateInv'
  OBVIOUS
<1>1. CASE UNCHANGED gate
  <2>1. UNCHANGED <<admission, watched, stamps, tokens, locked>> /\ caller' = caller
    BY <1>1 DEF gate
  <2>2. GateShape'
    BY ShapeStays DEF GateInv
  <2>3. CallLink' /\ SleepLink'
    <3>1. WaitSeconds' = WaitSeconds
      BY <2>1, SameStamps
    <3> QED BY <2>1, <3>1 DEF GateInv, CallLink, SleepLink
  <2> QED BY <2>1, <2>2, <2>3, KeepsCaller
<1> QED BY <1>1, KeepsTick, KeepsCall, KeepsAdmit, KeepsAttempt, KeepsFinish,
           KeepsRetry DEF GateNext

LEMMA GateAlways == GateSpec => []GateInv
<1> QED BY GateStarts, GateStays, PTL DEF GateSpec


(* What is taken in whole tokens is covered in whole tokens.               *)
LEMMA SharesOfTokens ==
  ASSUME NEW f \in Nat, NEW c \in Nat, NEW r \in Nat \ {0}, NEW x \in Nat,
         r * f <= c * r + x
  PROVE  f <= c + x \div r
<1> DEFINE q == x \div r
<1>1. q \in Nat /\ x < r * (q + 1)
  OBVIOUS
<1> HIDE DEF q
<1>2. ASSUME f >= c + q + 1
      PROVE  FALSE
  <2>1. r * f >= r * (c + q + 1)
    BY <1>1, <1>2
  <2>2. r * (c + q + 1) = r * c + r * (q + 1)
    BY <1>1
  <2>3. r * c = c * r
    OBVIOUS
  <2> QED BY <1>1, <2>1, <2>2, <2>3
<1>3. f <= c + q
  BY <1>1, <1>2
<1> QED BY <1>3 DEF q

(* Over any stretch of time a mechanism keeps its limit, but for the       *)
(* retries of the one call that nobody asks again, and the bucket admits   *)
(* no more calls than it held and was refilled with, whatever the policy,  *)
(* the calls and their backoffs (`Gatekeeper.call`, `AdmissionChain`).     *)
THEOREM LimitsAreKept == GateSpec => []LimitsKept
<1>1. GateInv => LimitsKept
  <2> SUFFICES ASSUME GateInv
               PROVE  LimitsKept
    OBVIOUS
  <2>1. WindowsKept
    <3>1. admission \in {"rolling_window", "token_bucket"}
      BY DEF GateInv, GateShape
    <3> QED BY <3>1 DEF GateInv, WindowLink, WithinLimit, WindowsKept
  <2>2. LatchKept
    BY DEF GateInv, LatchLink, LatchKept
  <2>3. ASSUME admission = "token_bucket", NEW w \in 1 .. Day
        PROVE  Cardinality(Firsts(w)) <= Capacity + (w - 1) \div Refill
    <3> DEFINE f == Cardinality(Firsts(w))
    <3>1. GateShape /\ tokens \in Nat
      BY FullFacts DEF GateInv, GateShape
    <3>2. f \in Nat
      BY <3>1, RecentFacts
    <3>3. tokens + Refill * f <= Full + (w - 1)
      BY <2>3 DEF GateInv, BucketLink
    <3>4. w - 1 \in Nat
      BY PolicyFacts
    <3> HIDE DEF f
    <3>5. Refill * f \in Nat
      BY <3>2, TimesFacts, PolicyFacts
    <3>6. Refill * f <= Capacity * Refill + (w - 1)
      <4>1. Capacity * Refill \in Nat
        BY FullFacts DEF Full
      <4> QED BY <3>1, <3>3, <3>4, <3>5, <4>1 DEF Full
    <3>7. f <= Capacity + (w - 1) \div Refill
      BY <3>2, <3>4, <3>6, SharesOfTokens, PolicyFacts
    <3> QED BY <3>7 DEF f
  <2>4. BucketKept
    BY <2>3 DEF BucketKept, Firsts
  <2> QED BY <2>1, <2>2, <2>4 DEF LimitsKept
<1> QED BY <1>1, GateAlways, PTL

(* A call that slept what the chain asked of it is admitted when it wakes, *)
(* and never sent back to sleep (`_admit`, `wait_seconds`).                *)
THEOREM OneSleepSuffices == GateSpec => OneSleepIsEnough
<1>1. ASSUME GateInv, GateNext, caller.pc = "admit", caller.slept, caller.sleep = 0
      PROVE  caller'.sleep = 0
  <2>1. caller \in Callers
    BY <1>1 DEF GateInv, GateShape
  <2>2. CASE Tick
    BY <1>1, <2>2 DEF Tick
  <2>3. CASE Admit
    <3>1. WaitSeconds <= 0
      BY <1>1 DEF GateInv, SleepLink
    <3>2. WaitSeconds \in Nat
      <4>1. BucketWait \in Nat
        BY <1>1, PolicyFacts, FullFacts DEF BucketWait, GateInv, GateShape
      <4>2. WindowWait(PerMinute, Minute) \in Nat /\ WindowWait(PerHour, Hour) \in Nat
        BY <1>1, WaitFacts, PolicyFacts DEF GateInv
      <4> QED BY <4>1, <4>2 DEF WaitSeconds
    <3>3. WaitSeconds = 0
      BY <3>1, <3>2
    <3> QED BY <1>1, <2>1, <2>3, <3>3 DEF Admit, Callers
  <2> QED BY <1>1, <2>2, <2>3 DEF GateNext, Call, Attempt, Finish, Retry
<1>2. GateInv /\ [GateNext]_gate =>
        [caller.pc = "admit" /\ caller.slept /\ caller.sleep = 0 => caller'.sleep = 0]_gate
  BY <1>1 DEF gate
<1> QED BY <1>2, GateAlways, PTL DEF GateSpec, OneSleepIsEnough
=============================================================================
