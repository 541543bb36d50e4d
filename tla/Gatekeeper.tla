----------------------------- MODULE Gatekeeper -----------------------------
(***************************************************************************)
(* `Gatekeeper.call` over time: one provider operation under its policy,   *)
(* call after call in one process. Time is counted in ticks and passes     *)
(* whenever nobody computes. Calls are synchronous and no thread makes     *)
(* two, so the waiting room holds one ticket and the ceiling on calls in   *)
(* flight is never met; what is left are the mechanisms of the admission   *)
(* chain and the attempts.                                                 *)
(*                                                                         *)
(* Every mechanism keeps a list of its own of the same stamps, trimmed to  *)
(* what it looks back to; here it is one list of their ages, the oldest    *)
(* first. The bucket's level is kept in shares of a token, `Refill` to the *)
(* token, one a tick.                                                      *)
(***************************************************************************)
EXTENDS Naturals, Sequences, FiniteSets

CONSTANTS PerMinute, PerHour,      \* the rolling windows' limits
          Minute, Hour, Day,       \* their lengths, and the quota's
          Quota, Capacity, Refill, \* the daily quota, the token bucket
          BurstLimit, BurstWindow, \* the detector of absurd sending
          MaxRetries, MaxBackoff   \* the attempts

ASSUME PolicyAssumption ==
  /\ {PerMinute, PerHour, Minute, Hour, Day, Quota, Capacity, Refill} \subseteq Nat \ {0}
  /\ {BurstLimit, BurstWindow, MaxBackoff} \subseteq Nat \ {0}
  /\ MaxRetries \in Nat
  /\ Minute <= Hour /\ Hour <= Day /\ BurstWindow <= Day

VARIABLES
  admission,  \* the chain the policy names
  watched,    \* whether it names a burst limit as well
  stamps,     \* the attempts of the last day: age, and whether one was a call's first
  tokens,     \* the bucket's level
  locked,     \* whether the detector latched
  caller      \* where the call is, its attempts, what is left of a sleep

gate == <<admission, watched, stamps, tokens, locked, caller>>

Idle == [pc |-> "idle", attempts |-> 0, sleep |-> 0, slept |-> FALSE]

(* A bucket starts full, and cannot be fuller.                             *)
Full == Capacity * Refill

GateInit ==
  /\ admission \in {"rolling_window", "token_bucket"}
  /\ watched \in {FALSE, admission = "token_bucket"}
  /\ stamps = <<>>
  /\ tokens = Full
  /\ locked = FALSE
  /\ caller = Idle

(* The stamps a window still holds: the clock is monotonic, so the last    *)
(* ones of the list.                                                       *)
Recent(window) == {k \in DOMAIN stamps : stamps[k].age < window}
Count(window) == Cardinality(Recent(window))

(* The stamps one tick later: those that stay within the day.              *)
Older ==
  LET kept == Count(Day - 1)
  IN [k \in 1 .. kept |-> [stamps[Len(stamps) - kept + k] EXCEPT !.age = @ + 1]]

Refilled == IF tokens < Full THEN tokens + 1 ELSE Full

(* Time passes, whatever is under way; a sleep comes nearer to its end.    *)
Tick ==
  /\ stamps' = Older
  /\ tokens' = Refilled
  /\ caller' = IF caller.sleep > 0 THEN [caller EXCEPT !.sleep = @ - 1] ELSE caller
  /\ UNCHANGED <<admission, watched, locked>>

(* `AdmissionChain.check`: a spent quota and a latched detector refuse.    *)
Refuses == admission = "token_bucket" /\ (Count(Day) >= Quota \/ locked)

(* A call that is refused leaves no trace, else it waits for its turn.     *)
Call ==
  /\ caller.pc = "idle"
  /\ ~Refuses
  /\ caller' = [Idle EXCEPT !.pc = "admit"]
  /\ UNCHANGED <<admission, watched, stamps, tokens, locked>>

(* Mutant: a full window is one that holds more than its limit.            *)
WindowWaitLate(limit, window) ==
  IF Count(window) > limit THEN window - stamps[Len(stamps) - limit + 1].age ELSE 0

(* `RollingWindows.wait_seconds`: until the limit-th last leaves a window. *)
WindowWait(limit, window) ==
  IF Count(window) >= limit THEN window - stamps[Len(stamps) - limit + 1].age ELSE 0

(* `TokenBucket.wait_seconds`: until a whole token exists.                 *)
BucketWait == IF tokens >= Refill THEN 0 ELSE Refill - tokens

(* Mutant: the first mechanism that asks for a wait is given it.           *)
WaitSecondsOfFirst ==
  IF admission = "token_bucket" THEN BucketWait
  ELSE IF WindowWait(PerMinute, Minute) > 0
       THEN WindowWait(PerMinute, Minute) ELSE WindowWait(PerHour, Hour)

(* `AdmissionChain.wait_seconds`: the slowest gate governs.                *)
WaitSeconds ==
  IF admission = "token_bucket" THEN BucketWait
  ELSE IF WindowWait(PerMinute, Minute) > WindowWait(PerHour, Hour)
       THEN WindowWait(PerMinute, Minute) ELSE WindowWait(PerHour, Hour)

(* `_admit`: sleeps for what the chain asks, and asks it again.            *)
Admit ==
  /\ caller.pc = "admit" /\ caller.sleep = 0
  /\ caller' = IF WaitSeconds = 0 THEN [caller EXCEPT !.pc = "attempt", !.slept = FALSE]
               ELSE [caller EXCEPT !.sleep = WaitSeconds, !.slept = TRUE]
  /\ UNCHANGED <<admission, watched, stamps, tokens, locked>>

(* `TokenBucket.stamp`: a repeated attempt may find no token, and owes none. *)
Spent == IF tokens >= Refill THEN tokens - Refill ELSE 0

(* `DosDetector.stamp`: this call would be one more than a burst may hold. *)
Latches == watched /\ Count(BurstWindow) >= BurstLimit

(* `stamp`: every mechanism counts every attempt, admitted or repeated.    *)
Attempt ==
  /\ caller.pc = "attempt" /\ caller.sleep = 0
  /\ stamps' = Append(stamps, [age |-> 0, first |-> caller.attempts = 0])
  /\ tokens' = Spent
  /\ locked' = (locked \/ Latches)
  /\ caller' = [caller EXCEPT !.pc = "flight", !.attempts = @ + 1]
  /\ UNCHANGED <<admission, watched>>

Finish ==
  /\ caller.pc = "flight"
  /\ caller' = Idle
  /\ UNCHANGED <<admission, watched, stamps, tokens, locked>>

MayRetry == caller.attempts <= MaxRetries

(* `wait_before_retry`: the provider's wait or ours, clamped; the attempt  *)
(* it ends in is not admitted again.                                       *)
Retry ==
  /\ caller.pc = "flight" /\ MayRetry
  /\ \E wait \in 1 .. MaxBackoff : caller' = [caller EXCEPT !.pc = "attempt", !.sleep = wait]
  /\ UNCHANGED <<admission, watched, stamps, tokens, locked>>

GateNext == Tick \/ Call \/ Admit \/ Attempt \/ Finish \/ Retry

GateSpec == GateInit /\ [][GateNext]_gate

-----------------------------------------------------------------------------
(* What goes out keeps to the limits but for the retries of the last call, *)
(* which nobody asks again: "no further request goes out"                  *)
(* (`gatekeeper_quota`) is true of calls, not of requests.                 *)
WindowsKept ==
  IF admission = "token_bucket" THEN Count(Day) <= Quota + MaxRetries
  ELSE /\ Count(Minute) <= PerMinute + MaxRetries
       /\ Count(Hour) <= PerHour + MaxRetries

(* Over any stretch of time the bucket admits no more calls than it can    *)
(* hold and than it was refilled with (`gatekeeper_bucket`), retries,      *)
(* which it may lend, left aside.                                          *)
BucketKept ==
  admission = "token_bucket" =>
    \A window \in 1 .. Day :
      Cardinality({k \in Recent(window) : stamps[k].first})
        <= Capacity + (window - 1) \div Refill

(* "Once such a pattern is identified, the Gatekeeper locks access to the  *)
(* API completely" (`gatekeeper_dos`): no burst outgrows the one that      *)
(* latched the detector, but for the retries of the call that did it.      *)
LatchKept == watched => Count(BurstWindow) <= BurstLimit + 1 + MaxRetries

(* Every mechanism of the policy keeps its limit over every stretch of     *)
(* time, whatever the calls, their retries and their backoffs.             *)
LimitsKept == WindowsKept /\ BucketKept /\ LatchKept

(* The wait a mechanism names is exact: a call that slept it is admitted.  *)
OneSleepIsEnough ==
  [][caller.pc = "admit" /\ caller.slept /\ caller.sleep = 0 => caller'.sleep = 0]_gate
=============================================================================
