----------------------------- MODULE Reporting -----------------------------
(***************************************************************************)
(* The report of one agreed result, mailed to the league: every invocation *)
(* of `send_game_report`, the gateway's own when it wrote the result and   *)
(* an operator's afterwards (`report_main`), the mail provider, and the    *)
(* delivery record they share on disk (`report_evidence`).                 *)
(*                                                                         *)
(* An invocation is a process of its own. It runs with a gatekeeper of its *)
(* own, whose windows are empty and admit its one call at once, so that of *)
(* the gatekeeper the attempts remain. Invocations overlap, may die        *)
(* anywhere, and the provider's answer may be lost.                        *)
(***************************************************************************)
EXTENDS Naturals

CONSTANTS Invocations,  \* the invocations of one behaviour
          MaxRetries    \* `max_retries` of the policy gmail.send_report

ASSUME ReportingAssumption == MaxRetries \in Nat

VARIABLES
  agreed,   \* whether a result that records a mutual agreement is stored
  run,      \* where each invocation is, its attempts, and what it heard
  record,   \* the delivery record on disk
  mailed,   \* how often the provider accepted the report
  causes    \* history: what may make a report go out twice

vars == <<agreed, run, record, mailed, causes>>

(* What the provider says of a request: its message id, a status the       *)
(* policy retries, another one; "silence" if nothing comes back (OSError). *)
Answers == {"accepted", "unavailable", "refused", "silence"}

Records == {"absent", "torn", "refused", "accepted"}
Exits == {0, 2, 3}

Active == {"lookup", "attempt", "posted", "backoff", "record", "recording"}
Over == {"exited", "dead"}

Process(pc, exit) == [pc |-> pc, attempts |-> 0, answer |-> "silence", exit |-> exit]

Init ==
  /\ agreed \in BOOLEAN
  /\ run = [i \in Invocations |-> Process("idle", 0)]
  /\ record = "absent"
  /\ mailed = 0
  /\ causes = {}

At(i, pc) == run[i].pc = pc
Steps(i, pc) == run' = [run EXCEPT ![i].pc = pc]
Exit(i, code) == run' = [run EXCEPT ![i] = Process("exited", code)]

(* The gateway stores the result both groups agreed.                       *)
Publish ==
  /\ ~agreed
  /\ agreed' = TRUE
  /\ UNCHANGED <<run, record, mailed, causes>>

(* `read_report`: no result, or one without an agreement, is refused.      *)
Start(i) ==
  /\ At(i, "idle")
  /\ IF agreed THEN Steps(i, "lookup") ELSE Exit(i, 2)
  /\ causes' = IF \E j \in Invocations : run[j].pc \in Active
               THEN causes \cup {"overlap"} ELSE causes
  /\ UNCHANGED <<agreed, record, mailed>>

(* Mutant: only this process's own deliveries are remembered.              *)
DeliveredNever == FALSE

(* `accepted_identity`: an absent, torn or refused record is no delivery.  *)
Delivered == record = "accepted"

(* A report delivered before is not sent again; credentials may be absent. *)
Lookup(i) ==
  /\ At(i, "lookup")
  /\ IF Delivered THEN Exit(i, 0) ELSE Steps(i, "attempt") \/ Exit(i, 2)
  /\ UNCHANGED <<agreed, record, mailed, causes>>

(* One request to the provider. It may have accepted what it answers with  *)
(* a retryable status, or with nothing.                                    *)
Post(i) ==
  /\ At(i, "attempt")
  /\ \E answer \in Answers, accepts \in BOOLEAN :
       /\ answer = "accepted" => accepts
       /\ answer = "refused" => ~accepts
       /\ run' = [run EXCEPT ![i].pc = "posted", ![i].attempts = @ + 1, ![i].answer = answer]
       /\ mailed' = IF accepts THEN mailed + 1 ELSE mailed
       /\ causes' = IF accepts /\ answer # "accepted" THEN causes \cup {"lost"} ELSE causes
  /\ UNCHANGED <<agreed, record>>

(* Mutant: everything but a refusal is repeated.                           *)
WouldRetryAnything(i) == run[i].attempts <= MaxRetries /\ run[i].answer # "refused"

(* `_attempt`, `would_retry`: only a status the policy names is repeated.  *)
WouldRetry(i) == run[i].attempts <= MaxRetries /\ run[i].answer = "unavailable"

Hear(i) ==
  /\ At(i, "posted")
  /\ Steps(i, IF WouldRetry(i) THEN "backoff" ELSE "record")
  /\ UNCHANGED <<agreed, record, mailed, causes>>

(* `wait_before_retry`: whatever the provider asks for, the wait ends.     *)
BackOff(i) ==
  /\ At(i, "backoff")
  /\ Steps(i, "attempt")
  /\ UNCHANGED <<agreed, record, mailed, causes>>

(* Mutant: what was tried is recorded as delivered.                        *)
OutcomeOptimistic(i) == IF run[i].answer = "refused" THEN "refused" ELSE "accepted"

(* `ReportDelivery.accepted`.                                              *)
Outcome(i) == IF run[i].answer = "accepted" THEN "accepted" ELSE "refused"

(* `write_evidence` truncates the record, then writes what this invocation *)
(* knows, whatever was recorded before.                                    *)
OpenRecord(i) ==
  /\ At(i, "record")
  /\ record' = "torn"
  /\ Steps(i, "recording")
  /\ UNCHANGED <<agreed, mailed, causes>>

CloseRecord(i) ==
  /\ At(i, "recording")
  /\ record' = Outcome(i)
  /\ Exit(i, IF Outcome(i) = "accepted" THEN 0 ELSE 3)
  /\ UNCHANGED <<agreed, mailed, causes>>

(* A crash, or a record that cannot be written.                            *)
Die(i) ==
  /\ run[i].pc \in Active
  /\ run' = [run EXCEPT ![i] = Process("dead", 0)]
  /\ causes' = causes \cup {"died"}
  /\ UNCHANGED <<agreed, record, mailed>>

Proceed(i) ==
  Lookup(i) \/ Post(i) \/ Hear(i) \/ BackOff(i) \/ OpenRecord(i) \/ CloseRecord(i)

Next == Publish \/ \E i \in Invocations : Start(i) \/ Proceed(i) \/ Die(i)

Spec == Init /\ [][Next]_vars

-----------------------------------------------------------------------------
(* Every variable has its type.                                            *)
TypeOK ==
  /\ agreed \in BOOLEAN
  /\ run \in [Invocations -> [pc : {"idle"} \cup Active \cup Over, attempts : 0 .. MaxRetries + 1,
                              answer : Answers, exit : Exits]]
  /\ record \in Records
  /\ mailed \in Nat
  /\ causes \subseteq {"overlap", "lost", "died"}

(* "Sent once, across restarts too" (`send_game_report`), as far as it is  *)
(* true: the league gets a report twice only if two invocations overlapped,*)
(* an answer was lost, or an invocation died before it had recorded it.    *)
DuplicateHasCause == mailed > 1 => causes # {}

(* Whoever reads the record or the exit status of an invocation reads that *)
(* the report is out, and of an agreed result, only if it is               *)
(* (`report_main`: "0 the provider accepted the report").                  *)
DeliveryIsTrue ==
  record = "accepted" \/ (\E i \in Invocations : At(i, "exited") /\ run[i].exit = 0)
    => mailed > 0 /\ agreed

(* A recorded delivery is never unrecorded, as long as invocations do not  *)
(* overlap: a failure is recorded over it by none that could have read it. *)
DeliveryStaysRecorded ==
  [][record = "accepted" /\ "overlap" \notin causes => record' = "accepted"]_vars
=============================================================================
