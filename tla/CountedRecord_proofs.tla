------------------------ MODULE CountedRecord_proofs ------------------------
(***************************************************************************)
(* What is proved of a counted record and of its report, for any number of *)
(* sub-games and attempts, any set of invocations, finite or not, and any  *)
(* number of retries.                                                      *)
(*                                                                         *)
(* The first part is about `Reporting` alone: one inductive invariant,     *)
(* `ReportInv`, carries its four theorems. The second is about the record  *)
(* that drives it: every step of the record is one of the report or leaves *)
(* it alone, so what is proved of a report holds of it; an official file   *)
(* is written once; and a result on the disk completes its set.            *)
(***************************************************************************)
EXTENDS CountedRecord, TLAPS

(* Where a process may hold an answer that nobody has recorded yet.        *)
Heard == {"posted", "record", "recording"}

(* A process that looked the record up and has not ended.                  *)
Sending == Active \ {"lookup"}

(* The attempts are counted from the first request on.                     *)
AttemptLink ==
  \A i \in Invocations :
    /\ run[i].pc \in {"idle", "lookup"} => run[i].attempts = 0
    /\ run[i].pc \in {"attempt", "backoff"} => run[i].attempts <= MaxRetries

(* What a process believes of the provider is what the provider did.       *)
BeliefLink ==
  \A i \in Invocations :
    /\ run[i].pc \in Active => agreed
    /\ run[i].pc \in Heard /\ run[i].answer = "accepted" => mailed > 0

(* Without an overlap one process works at a time, and none that sends     *)
(* found a delivery.                                                       *)
AloneLink ==
  "overlap" \notin causes =>
    /\ \A i, j \in Invocations : run[i].pc \in Active /\ run[j].pc \in Active => i = j
    /\ \A i \in Invocations : run[i].pc \in Sending => record # "accepted"

(* Without any cause the report went out once, and whoever sent it has     *)
(* recorded it or is about to.                                             *)
OnceLink ==
  causes = {} =>
    \/ mailed = 0
    \/ /\ mailed = 1
       /\ \/ record = "accepted"
          \/ \E i \in Invocations : run[i].pc \in Heard /\ run[i].answer = "accepted"

ReportInv ==
  TypeOK /\ AttemptLink /\ BeliefLink /\ DeliveryIsTrue /\ AloneLink /\ OnceLink

-----------------------------------------------------------------------------
(* The invariant holds before any process runs.                            *)
LEMMA ReportInit == Init => ReportInv
  BY ReportingAssumption
  DEF Init, Process, ReportInv, TypeOK, AttemptLink, BeliefLink, DeliveryIsTrue,
      AloneLink, OnceLink, At, Active, Over, Heard, Sending, Records, Exits, Answers

(* `Publish` keeps it: nothing was claimed of a result before it.          *)
LEMMA KeepsPublish ==
  ASSUME ReportInv, Publish
  PROVE  ReportInv'
  BY DEF Publish, ReportInv, TypeOK, AttemptLink, BeliefLink, DeliveryIsTrue,
         AloneLink, OnceLink, At

(* `Start` keeps it.                                                       *)
LEMMA KeepsStart ==
  ASSUME ReportInv, NEW i \in Invocations, Start(i)
  PROVE  ReportInv'
<1> USE ReportingAssumption DEF TypeOK, Active, Over, Heard, Sending, Records, Exits, Answers
<1>1. TypeOK'
  BY DEF Start, Steps, Exit, Process, At, ReportInv
<1>2. AttemptLink'
  BY DEF Start, Steps, Exit, Process, At, ReportInv, AttemptLink
<1>3. BeliefLink'
  BY DEF Start, Steps, Exit, Process, At, ReportInv, BeliefLink
<1>4. DeliveryIsTrue'
  BY DEF Start, Steps, Exit, Process, At, ReportInv, DeliveryIsTrue
<1>5. AloneLink'
  BY DEF Start, Steps, Exit, Process, At, ReportInv, AloneLink
<1>6. OnceLink'
  BY DEF Start, Steps, Exit, Process, At, ReportInv, OnceLink
<1> QED  BY <1>1, <1>2, <1>3, <1>4, <1>5, <1>6 DEF ReportInv

(* `Lookup` keeps it.                                                      *)
LEMMA KeepsLookup ==
  ASSUME ReportInv, NEW i \in Invocations, Lookup(i)
  PROVE  ReportInv'
<1> USE ReportingAssumption DEF TypeOK, Active, Over, Heard, Sending, Records, Exits, Answers
<1>1. TypeOK'
  BY DEF Lookup, Delivered, Steps, Exit, Process, At, ReportInv
<1>2. AttemptLink'
  BY DEF Lookup, Delivered, Steps, Exit, Process, At, ReportInv, AttemptLink
<1>3. BeliefLink'
  BY DEF Lookup, Delivered, Steps, Exit, Process, At, ReportInv, BeliefLink
<1>4. DeliveryIsTrue'
  BY DEF Lookup, Delivered, Steps, Exit, Process, At, ReportInv, DeliveryIsTrue
<1>5. AloneLink'
  BY DEF Lookup, Delivered, Steps, Exit, Process, At, ReportInv, AloneLink
<1>6. OnceLink'
  BY DEF Lookup, Delivered, Steps, Exit, Process, At, ReportInv, OnceLink
<1> QED  BY <1>1, <1>2, <1>3, <1>4, <1>5, <1>6 DEF ReportInv

(* `Post` keeps it.                                                        *)
LEMMA KeepsPost ==
  ASSUME ReportInv, NEW i \in Invocations, Post(i)
  PROVE  ReportInv'
<1> USE ReportingAssumption DEF TypeOK, Active, Over, Heard, Sending, Records, Exits, Answers
<1>1. TypeOK'
  BY DEF Post, At, ReportInv
<1>2. AttemptLink'
  BY DEF Post, At, ReportInv, AttemptLink
<1>3. BeliefLink'
  BY DEF Post, At, ReportInv, BeliefLink
<1>4. DeliveryIsTrue'
  BY DEF Post, At, ReportInv, DeliveryIsTrue
<1>5. AloneLink'
  BY DEF Post, At, ReportInv, AloneLink
<1>6. OnceLink'
  BY DEF Post, At, ReportInv, OnceLink
<1> QED  BY <1>1, <1>2, <1>3, <1>4, <1>5, <1>6 DEF ReportInv

(* `Hear` keeps it.                                                        *)
LEMMA KeepsHear ==
  ASSUME ReportInv, NEW i \in Invocations, Hear(i)
  PROVE  ReportInv'
<1> USE ReportingAssumption DEF TypeOK, Active, Over, Heard, Sending, Records, Exits, Answers
<1>1. TypeOK'
  BY DEF Hear, WouldRetry, Steps, At, ReportInv
<1>2. AttemptLink'
  BY DEF Hear, WouldRetry, Steps, At, ReportInv, AttemptLink
<1>3. BeliefLink'
  BY DEF Hear, WouldRetry, Steps, At, ReportInv, BeliefLink
<1>4. DeliveryIsTrue'
  BY DEF Hear, WouldRetry, Steps, At, ReportInv, DeliveryIsTrue
<1>5. AloneLink'
  BY DEF Hear, WouldRetry, Steps, At, ReportInv, AloneLink
<1>6. OnceLink'
  BY DEF Hear, WouldRetry, Steps, At, ReportInv, OnceLink
<1> QED  BY <1>1, <1>2, <1>3, <1>4, <1>5, <1>6 DEF ReportInv

(* `BackOff` keeps it.                                                     *)
LEMMA KeepsBackOff ==
  ASSUME ReportInv, NEW i \in Invocations, BackOff(i)
  PROVE  ReportInv'
<1> USE ReportingAssumption DEF TypeOK, Active, Over, Heard, Sending, Records, Exits, Answers
<1>1. TypeOK'
  BY DEF BackOff, Steps, At, ReportInv
<1>2. AttemptLink'
  BY DEF BackOff, Steps, At, ReportInv, AttemptLink
<1>3. BeliefLink'
  BY DEF BackOff, Steps, At, ReportInv, BeliefLink
<1>4. DeliveryIsTrue'
  BY DEF BackOff, Steps, At, ReportInv, DeliveryIsTrue
<1>5. AloneLink'
  BY DEF BackOff, Steps, At, ReportInv, AloneLink
<1>6. OnceLink'
  BY DEF BackOff, Steps, At, ReportInv, OnceLink
<1> QED  BY <1>1, <1>2, <1>3, <1>4, <1>5, <1>6 DEF ReportInv

(* `OpenRecord` keeps it.                                                  *)
LEMMA KeepsOpenRecord ==
  ASSUME ReportInv, NEW i \in Invocations, OpenRecord(i)
  PROVE  ReportInv'
<1> USE ReportingAssumption DEF TypeOK, Active, Over, Heard, Sending, Records, Exits, Answers
<1>1. TypeOK'
  BY DEF OpenRecord, Steps, At, ReportInv
<1>2. AttemptLink'
  BY DEF OpenRecord, Steps, At, ReportInv, AttemptLink
<1>3. BeliefLink'
  BY DEF OpenRecord, Steps, At, ReportInv, BeliefLink
<1>4. DeliveryIsTrue'
  BY DEF OpenRecord, Steps, At, ReportInv, DeliveryIsTrue
<1>5. AloneLink'
  BY DEF OpenRecord, Steps, At, ReportInv, AloneLink
<1>6. OnceLink'
  <2> SUFFICES ASSUME causes = {}, mailed # 0  PROVE  OnceLink'
    BY DEF OpenRecord, OnceLink
  <2>1. record # "accepted"
    BY DEF OpenRecord, At, ReportInv, AloneLink
  <2>2. PICK j \in Invocations : run[j].pc \in Heard /\ run[j].answer = "accepted"
    BY <2>1 DEF ReportInv, OnceLink
  <2>3. run'[j].pc \in Heard /\ run'[j].answer = "accepted"
    BY <2>2 DEF OpenRecord, Steps, At, ReportInv
  <2> QED  BY <2>1, <2>3 DEF OpenRecord, ReportInv, OnceLink
<1> QED  BY <1>1, <1>2, <1>3, <1>4, <1>5, <1>6 DEF ReportInv

(* `CloseRecord` keeps it.                                                 *)
LEMMA KeepsCloseRecord ==
  ASSUME ReportInv, NEW i \in Invocations, CloseRecord(i)
  PROVE  ReportInv'
<1> USE ReportingAssumption DEF TypeOK, Active, Over, Heard, Sending, Records, Exits, Answers
<1>1. TypeOK'
  BY DEF CloseRecord, Outcome, Exit, Process, At, ReportInv
<1>2. AttemptLink'
  BY DEF CloseRecord, Outcome, Exit, Process, At, ReportInv, AttemptLink
<1>3. BeliefLink'
  BY DEF CloseRecord, Outcome, Exit, Process, At, ReportInv, BeliefLink
<1>4. DeliveryIsTrue'
  BY DEF CloseRecord, Outcome, Exit, Process, At, ReportInv, DeliveryIsTrue, BeliefLink
<1>5. AloneLink'
  BY DEF CloseRecord, Outcome, Exit, Process, At, ReportInv, AloneLink
<1>6. OnceLink'
  <2> SUFFICES ASSUME causes = {}, mailed # 0  PROVE  OnceLink'
    BY DEF CloseRecord, OnceLink
  <2>1. record # "accepted"
    BY DEF CloseRecord, At, ReportInv, AloneLink
  <2>2. PICK j \in Invocations : run[j].pc \in Heard /\ run[j].answer = "accepted"
    BY <2>1 DEF ReportInv, OnceLink
  <2>3. j = i
    BY <2>2 DEF CloseRecord, At, ReportInv, AloneLink
  <2>4. record' = "accepted"
    BY <2>2, <2>3 DEF CloseRecord, Outcome
  <2> QED  BY <2>1, <2>4 DEF CloseRecord, ReportInv, OnceLink
<1> QED  BY <1>1, <1>2, <1>3, <1>4, <1>5, <1>6 DEF ReportInv

(* `Die` keeps it.                                                         *)
LEMMA KeepsDie ==
  ASSUME ReportInv, NEW i \in Invocations, Die(i)
  PROVE  ReportInv'
<1> USE ReportingAssumption DEF TypeOK, Active, Over, Heard, Sending, Records, Exits, Answers
<1>1. TypeOK'
  BY DEF Die, Process, ReportInv
<1>2. AttemptLink'
  BY DEF Die, Process, ReportInv, AttemptLink
<1>3. BeliefLink'
  BY DEF Die, Process, ReportInv, BeliefLink
<1>4. DeliveryIsTrue'
  BY DEF Die, Process, ReportInv, DeliveryIsTrue, At
<1>5. AloneLink'
  BY DEF Die, Process, ReportInv, AloneLink
<1>6. OnceLink'
  BY DEF Die, Process, ReportInv, OnceLink
<1> QED  BY <1>1, <1>2, <1>3, <1>4, <1>5, <1>6 DEF ReportInv

(* So every step does, and so does a stutter.                              *)
LEMMA ReportNext == ReportInv /\ [Next]_vars => ReportInv'
<1> SUFFICES ASSUME ReportInv, [Next]_vars  PROVE  ReportInv'
  OBVIOUS
<1>1. CASE Next
  BY <1>1, KeepsPublish, KeepsStart, KeepsLookup, KeepsPost, KeepsHear, KeepsBackOff,
     KeepsOpenRecord, KeepsCloseRecord, KeepsDie
     DEF Next, Proceed
<1>2. CASE UNCHANGED vars
  BY <1>2 DEF vars, ReportInv, TypeOK, AttemptLink, BeliefLink, DeliveryIsTrue,
              AloneLink, OnceLink, At
<1> QED  BY <1>1, <1>2

LEMMA ReportAlways == Spec => []ReportInv
<1>1. Init => ReportInv
  BY ReportInit
<1>2. ReportInv /\ [Next]_vars => ReportInv'
  BY ReportNext
<1> QED  BY <1>1, <1>2, PTL DEF Spec

-----------------------------------------------------------------------------
(* Every variable has its type: no invocation makes more attempts than its *)
(* policy allows (`would_retry`).                                          *)
THEOREM TypeCorrect == Spec => []TypeOK
<1>1. ReportInv => TypeOK
  BY DEF ReportInv
<1> QED  BY <1>1, ReportAlways, PTL

(* A recorded delivery, or an exit status 0, is a delivery that happened,  *)
(* of a result both sides agreed (`report_main`, `read_report`).           *)
THEOREM DeliveryIsTrueHolds == Spec => []DeliveryIsTrue
<1>1. ReportInv => DeliveryIsTrue
  BY DEF ReportInv
<1> QED  BY <1>1, ReportAlways, PTL

(* A report that went out twice was sent by overlapping invocations, or    *)
(* after an answer was lost or an invocation died (`send_game_report`).    *)
THEOREM DuplicateHasCauseHolds == Spec => []DuplicateHasCause
<1>1. ReportInv => DuplicateHasCause
  BY DEF ReportInv, TypeOK, OnceLink, DuplicateHasCause
<1> QED  BY <1>1, ReportAlways, PTL

(* A step that unrecords a delivery is one of overlapping invocations      *)
(* (`write_evidence`).                                                     *)
THEOREM DeliveryStaysRecordedHolds == Spec => DeliveryStaysRecorded
<1> DEFINE Stays == record = "accepted" /\ "overlap" \notin causes => record' = "accepted"
<1>1. ReportInv /\ [Next]_vars => [Stays]_vars
  <2> SUFFICES ASSUME ReportInv, Next, record = "accepted", "overlap" \notin causes
               PROVE  record' = "accepted"
    OBVIOUS
  <2> SUFFICES ASSUME NEW i \in Invocations, Start(i) \/ Proceed(i) \/ Die(i)
               PROVE  record' = "accepted"
    BY DEF Next, Publish
  <2>1. ~At(i, "record") /\ ~At(i, "recording")
    BY DEF ReportInv, AloneLink, Sending, Active, At
  <2> QED  BY <2>1 DEF Start, Proceed, Lookup, Post, Hear, BackOff,
                             OpenRecord, CloseRecord, Die
<1> QED  BY <1>1, ReportAlways, PTL DEF Spec, DeliveryStaysRecorded

-----------------------------------------------------------------------------
(* A temporary copy is made only for a name that is still free.            *)
StagedIsFree ==
  /\ staged \in BOOLEAN
  /\ disk = [name \in Names |-> disk[name]]
  /\ staged => disk[Name(next)] = Absent

-----------------------------------------------------------------------------
(* Every step of the record is a step of the report, or leaves it alone.   *)
LEMMA RecordStepReports == [RecordNext]_recordVars => [Next]_vars
<1> SUFFICES ASSUME [RecordNext]_recordVars  PROVE [Next]_vars
  OBVIOUS
<1>1. CASE UNCHANGED vars \/ Stage \/ StoreAgain \/ Fault \/ Restart
  BY <1>1 DEF Stage, StoreAgain, Fault, Restart
<1>2. CASE Replace
  BY <1>2 DEF Replace, Next
<1>3. CASE Crash
  BY <1>3, RecordAssumption DEF Crash, Next
<1>4. CASE Report
  BY <1>4 DEF Report, Next
<1>5. CASE UNCHANGED recordVars
  BY <1>5 DEF recordVars
<1> QED  BY <1>1, <1>2, <1>3, <1>4, <1>5 DEF RecordNext

(* The composition implements the report (`series_writer`, `_report`).     *)
THEOREM RecordImplementsReporting == RecordSpec => Spec
<1>1. RecordInit => Init
  BY DEF RecordInit
<1> QED  BY <1>1, RecordStepReports, PTL DEF RecordSpec, Spec

(* No exit status and no delivery record of a counted series speaks of a   *)
(* report that is not out, or of a result that is not agreed and stored    *)
(* (`report_main`, `CountedSeriesWriter.write`).                           *)
THEOREM RecordDeliveryIsTrue == RecordSpec => []DeliveryIsTrue
  BY RecordImplementsReporting, DeliveryIsTrueHolds, PTL

-----------------------------------------------------------------------------
(* The name being stored stays free until the temporary copy takes it.     *)
LEMMA KeepsStagedIsFree ==
  ASSUME StagedIsFree, [RecordNext]_recordVars
  PROVE  StagedIsFree'
<1>1. CASE HandOver
  BY <1>1 DEF HandOver, GiveUp, Forget, WriteSeries, StagedIsFree
<1>2. CASE SettleSeries
  BY <1>2 DEF SettleSeries, GiveUp, Forget, WriteSeries, StagedIsFree
<1>3. CASE AgreeResult
  BY <1>3 DEF AgreeResult, GiveUp, Forget, WriteSeries, StagedIsFree
<1>4. CASE Stage
  BY <1>4 DEF Stage, Stored, StagedIsFree
<1>5. CASE Replace
  BY <1>5 DEF Replace, StagedIsFree
<1>6. CASE StoreAgain
  BY <1>6 DEF StoreAgain, GiveUp, Forget, StagedIsFree
<1>7. CASE Fault \/ Crash
  BY <1>7 DEF Fault, Crash, GiveUp, Forget, StagedIsFree
<1>8. CASE Restart \/ Report \/ UNCHANGED recordVars
  BY <1>8 DEF Restart, Report, recordVars, gateway, memory, StagedIsFree
<1> QED  BY <1>1, <1>2, <1>3, <1>4, <1>5, <1>6, <1>7, <1>8 DEF RecordNext

(* A step that stores a file finds its name free, or its content there.    *)
LEMMA StepWritesOnce ==
  ASSUME StagedIsFree, [RecordNext]_recordVars,
         NEW name \in Names, disk[name] # Absent
  PROVE  disk'[name] = disk[name]
<1>1. CASE HandOver \/ SettleSeries \/ AgreeResult
  BY <1>1 DEF HandOver, SettleSeries, AgreeResult
<1>2. CASE Replace
  BY <1>2 DEF Replace, StagedIsFree
<1>3. CASE StoreAgain
  BY <1>3 DEF StoreAgain, Collides, Stored, StagedIsFree
<1>4. CASE Stage \/ Fault \/ Crash \/ Restart \/ Report \/ UNCHANGED recordVars
  BY <1>4 DEF Stage, Fault, Crash, Restart, Report, recordVars, gateway
<1> QED  BY <1>1, <1>2, <1>3, <1>4 DEF RecordNext

(* An official artifact is never overwritten, by no attempt and no content *)
(* (`JsonArtifactStore.store`).                                            *)
THEOREM WrittenOnceHolds == RecordSpec => WrittenOnce
<1> DEFINE Once == \A name \in Names : disk[name] # Absent => disk'[name] = disk[name]
<1>1. RecordInit => StagedIsFree
  BY DEF RecordInit, StagedIsFree
<1>2. StagedIsFree /\ [RecordNext]_recordVars => StagedIsFree'
  BY KeepsStagedIsFree
<1>3. StagedIsFree /\ [RecordNext]_recordVars => [Once]_recordVars
  BY StepWritesOnce
<1> QED  BY <1>1, <1>2, <1>3, PTL DEF RecordSpec, WrittenOnce

-----------------------------------------------------------------------------
(* A result completes its set. The files are stored by position, so a      *)
(* result at the last one finds at every position before it what this      *)
(* attempt put or confirmed there.                                         *)

(* Nothing of an attempt is held before the declaration is stored, after a *)
(* failure or after a crash.                                               *)
HeldLink ==
  /\ attempt \in Nat /\ held \in Nat /\ next \in 1 .. Last
  /\ stage \notin {"collecting", "writing", "written"} => held = 0 /\ settled = NoDigest
  /\ stage # "writing" => next = 1
  /\ facts.counted /\ held >= 2 => facts.deployed["us"] = "declared"

(* A settled digest is that of the rows both sides recorded.               *)
SettledLink ==
  settled # NoDigest => /\ settled = ConsensusScope(RowsOf(facts.us))
                        /\ RowsOf(facts.us) = RowsOf(facts.them)

(* What was stored before the position now being written is this attempt's.*)
WritingLink ==
  /\ stage \in {"collecting", "writing", "written"} => disk[Name(1)] # Absent
  /\ stage = "writing" =>
       /\ WritesOut(held, settled, mutual)
       /\ \A i \in 2 .. (next - 1) : disk[Name(i)] = Content(i)

(* A stored result is of this attempt or an earlier one.                   *)
ResultLink ==
  disk[<<"result", 0>>] # Absent => disk[<<"result", 0>>].attempt \in 0 .. attempt

RecordInv ==
  StagedIsFree /\ HeldLink /\ SettledLink /\ WritingLink /\ ResultLink /\ ResultCompletesTheSet

(* The positions of the names (`CountedSeriesWriter.write`).               *)
LEMMA NameFacts ==
  /\ Last \in Nat /\ Last >= 4 /\ Name(1) = <<"declaration", 0>>
  /\ \A i \in 1 .. Last : Name(i) \in Names /\ (Name(i) = <<"result", 0>> <=> i = Last)
  /\ \A i \in 2 .. (Last - 1) : Name(i)[1] \in {"config", "log"} /\ Name(i)[2] \in Games
  /\ \A n \in Games : /\ 2 * n \in 2 .. (Last - 1) /\ Name(2 * n) = <<"config", n>>
                      /\ 2 * n + 1 \in 2 .. (Last - 1) /\ Name(2 * n + 1) = <<"log", n>>
<1>1. Last \in Nat /\ Last >= 4
  BY RecordAssumption DEF Last
<1>2. Name(1) = <<"declaration", 0>> /\ Name(Last) = <<"result", 0>>
  BY <1>1 DEF Name
<1>3. ASSUME NEW i \in 2 .. (Last - 1)
      PROVE  /\ Name(i) = <<IF i % 2 = 0 THEN "config" ELSE "log", i \div 2>>
             /\ i \div 2 \in Games
  <2>1. i # 1 /\ i # Last /\ i \in Nat
    BY <1>1
  <2>2. i \div 2 \in 1 .. SubGames
    BY RecordAssumption DEF Last
  <2> QED
    BY <2>1, <2>2 DEF Name, Games
<1>4. ASSUME NEW i \in 2 .. (Last - 1)
      PROVE  /\ Name(i)[1] \in {"config", "log"} /\ Name(i)[2] \in Games
             /\ Name(i) \in Names /\ Name(i) # <<"result", 0>>
  BY <1>3 DEF Names
<1>5. ASSUME NEW n \in Games
      PROVE  /\ 2 * n \in 2 .. (Last - 1) /\ Name(2 * n) = <<"config", n>>
             /\ 2 * n + 1 \in 2 .. (Last - 1) /\ Name(2 * n + 1) = <<"log", n>>
  <2>1. n \in 1 .. SubGames /\ SubGames \in Nat
    BY RecordAssumption DEF Games
  <2>2. 2 * n \in 2 .. (Last - 1) /\ 2 * n + 1 \in 2 .. (Last - 1)
    BY <2>1 DEF Last
  <2>3. (2 * n) % 2 = 0 /\ (2 * n) \div 2 = n /\ (2 * n + 1) % 2 = 1 /\ (2 * n + 1) \div 2 = n
    BY <2>1
  <2> QED
    BY <1>3, <2>2, <2>3
<1> QED
  BY <1>1, <1>2, <1>4, <1>5 DEF Names

(* What is stored is a document, and says of which attempt it is.          *)
LEMMA ContentFacts ==
  ASSUME NEW i \in 1 .. Last
  PROVE  /\ Content(i) # Absent
         /\ i = Last => Content(i) = ResultDocument
         /\ i \in 2 .. (Last - 1) =>
              /\ Content(i).attempt = attempt
              /\ Name(i)[1] = "log" => Content(i).result = facts.us[Name(i)[2]]
<1>1. CASE i = 1
  BY <1>1, NameFacts DEF Content, Absent
<1>2. CASE i = Last
  BY <1>2, NameFacts DEF Content, ResultDocument, Absent
<1>3. CASE i \in 2 .. (Last - 1)
  <2>1. Name(i)[1] = "config" \/ Name(i)[1] = "log"
    BY <1>3, NameFacts
  <2> QED
    BY <2>1, <1>3, NameFacts DEF Content, ConfigDocument, LogDocument, Absent
<1> QED
  BY <1>1, <1>2, <1>3, NameFacts

(* A step that leaves the attempt and the disk alone leaves the results    *)
(* alone.                                                                  *)
LEMMA SameDisk ==
  ASSUME ResultLink, ResultCompletesTheSet, SettledLink', UNCHANGED <<attempt, facts, disk>>
  PROVE  ResultLink' /\ ResultCompletesTheSet'
  BY DEF ResultLink, ResultCompletesTheSet, SettledLink

(* A step that forgets what is held, on the same disk, keeps the invariant.*)
LEMMA KeepsForget ==
  ASSUME RecordInv, StagedIsFree', Forget, stage' \in {"failed", "down"},
         UNCHANGED <<attempt, facts, disk>>
  PROVE  RecordInv'
<1>1. HeldLink'
  BY NameFacts DEF RecordInv, HeldLink, Forget
<1>2. SettledLink' /\ WritingLink'
  BY DEF RecordInv, SettledLink, WritingLink, Forget
<1> QED
  BY <1>1, <1>2, SameDisk DEF RecordInv

(* Writing begins with nothing written, once all of it is there.           *)
LEMMA KeepsWriteSeries ==
  ASSUME RecordInv, StagedIsFree', WriteSeries, stage = "collecting",
         UNCHANGED <<attempt, facts, disk>>, SettledLink',
         held' \in Nat, facts.counted /\ held' >= 2 => facts.deployed["us"] = "declared"
  PROVE  RecordInv'
<1>1. HeldLink'
  BY NameFacts DEF RecordInv, HeldLink, WriteSeries
<1>2. WritingLink'
  <2>1. disk'[Name(1)] # Absent
    BY DEF RecordInv, WritingLink
  <2>2. stage' = "writing" => WritesOut(held', settled', mutual')
    BY DEF WriteSeries
  <2>3. 2 .. (next' - 1) = {}
    BY DEF WriteSeries
  <2> QED
    BY <2>1, <2>2, <2>3 DEF WritingLink, WritesOut
<1> QED
  BY <1>1, <1>2, SameDisk DEF RecordInv

(* Collecting, settling and agreeing keep it: the first entry is admitted  *)
(* only with the declared commit, and only equal scopes settle.            *)
LEMMA KeepsHandOver ==
  ASSUME RecordInv, StagedIsFree', HandOver
  PROVE  RecordInv'
<1>1. CASE Admitted(PartAt(held + 1))
  <2>1. WriteSeries /\ held' = held + 1 /\ UNCHANGED <<attempt, facts, disk, settled>>
    BY <1>1 DEF HandOver
  <2>2. held \in Nat /\ stage = "collecting"
    BY DEF RecordInv, HeldLink, HandOver
  <2>3. SettledLink'
    BY <2>1 DEF RecordInv, SettledLink
  <2>4. ASSUME facts.counted, held' >= 2 PROVE facts.deployed["us"] = "declared"
    <3>1. CASE held = 1
      BY <1>1, <2>4, <3>1 DEF Admitted, PartAt
    <3>2. CASE held >= 2
      BY <2>4, <3>2 DEF RecordInv, HeldLink
    <3> QED
      BY <2>1, <2>2, <2>4, <3>1, <3>2
  <2> QED
    BY <2>1, <2>2, <2>3, <2>4, KeepsWriteSeries
<1>2. CASE ~Admitted(PartAt(held + 1))
  BY <1>2, KeepsForget DEF HandOver, GiveUp
<1> QED
  BY <1>1, <1>2

LEMMA KeepsSettleSeries ==
  ASSUME RecordInv, StagedIsFree', SettleSeries
  PROVE  RecordInv'
<1>1. CASE GiveUp
  BY <1>1, KeepsForget DEF SettleSeries, GiveUp
<1>2. CASE ~GiveUp
  <2>1. /\ ConsensusScope(RowsOf(facts.us)) = ConsensusScope(RowsOf(facts.them))
        /\ settled' = ConsensusScope(RowsOf(facts.us))
        /\ UNCHANGED <<held, mutual, attempt, facts, disk>> /\ WriteSeries
        /\ stage = "collecting"
    BY <1>2 DEF SettleSeries
  <2>2. RowsOf(facts.us) = RowsOf(facts.them)
    BY <2>1 DEF ConsensusScope
  <2>3. SettledLink'
    BY <2>1, <2>2 DEF SettledLink
  <2> QED
    BY <2>1, <2>3, KeepsWriteSeries DEF RecordInv, HeldLink
<1> QED
  BY <1>1, <1>2

LEMMA KeepsAgreeResult ==
  ASSUME RecordInv, StagedIsFree', AgreeResult
  PROVE  RecordInv'
<1>1. CASE GiveUp
  BY <1>1, KeepsForget DEF AgreeResult, GiveUp
<1>2. CASE ~GiveUp
  <2>1. /\ UNCHANGED <<held, settled, attempt, facts, disk>> /\ WriteSeries
        /\ stage = "collecting"
    BY <1>2 DEF AgreeResult
  <2>2. SettledLink'
    BY <2>1 DEF RecordInv, SettledLink
  <2> QED
    BY <2>1, <2>2, KeepsWriteSeries DEF RecordInv, HeldLink
<1> QED
  BY <1>1, <1>2

(* The next position's file is on the disk: go on.                         *)
LEMMA KeepsAdvance ==
  ASSUME RecordInv, StagedIsFree', Storing, Advance, UNCHANGED <<attempt, facts, held, settled, mutual>>,
         disk'[Name(next)] = Content(next),
         \A name \in Names : disk[name] # Absent => disk'[name] = disk[name]
  PROVE  HeldLink' /\ SettledLink' /\ WritingLink'
<1>t. /\ HeldLink /\ SettledLink /\ WritingLink /\ next \in 1 .. Last /\ Last \in Nat
  BY NameFacts DEF RecordInv, HeldLink
<1>1. HeldLink'
  <2>1. CASE stage = "declaring"
    BY <2>1, <1>t, NameFacts DEF HeldLink, Advance
  <2>2. CASE stage = "writing"
    BY <2>2, <1>t, NameFacts DEF HeldLink, Advance
  <2> QED
    BY <2>1, <2>2 DEF Storing
<1>2. SettledLink'
  BY <1>t DEF SettledLink
<1>3. ASSUME NEW i, Content(i)' # Content(i) PROVE FALSE
  BY <1>3 DEF Content, ConfigDocument, LogDocument, ResultDocument
<1>4. disk'[Name(1)] # Absent
  <2>1. CASE stage = "declaring"
    BY <2>1, <1>t, NameFacts, ContentFacts DEF HeldLink
  <2>2. CASE stage = "writing"
    BY <2>2, <1>t, NameFacts DEF WritingLink
  <2> QED
    BY <2>1, <2>2 DEF Storing
<1>5. ASSUME stage' = "writing"
      PROVE  /\ WritesOut(held, settled, mutual)'
             /\ \A i \in 2 .. (next' - 1) : disk'[Name(i)] = Content(i)'
  <2>1. stage = "writing" /\ next # Last /\ next' = next + 1
    BY <1>5 DEF Advance, Storing
  <2>2. WritesOut(held, settled, mutual)'
    BY <2>1, <1>t DEF WritingLink, WritesOut
  <2>3. ASSUME NEW i \in 2 .. (next' - 1) PROVE disk'[Name(i)] = Content(i)'
    <3>1. CASE i = next
      BY <3>1, <1>3
    <3>2. CASE i \in 2 .. (next - 1)
      <4>1. disk[Name(i)] = Content(i)
        BY <2>1, <3>2, <1>t DEF WritingLink
      <4>2. i \in 1 .. Last
        BY <3>2, <1>t
      <4> QED
        BY <4>1, <4>2, <1>3, NameFacts, ContentFacts
    <3> QED
      BY <2>1, <2>3, <1>t, <3>1, <3>2
  <2> QED
    BY <2>2, <2>3
<1>6. WritingLink'
  BY <1>4, <1>5 DEF WritingLink
<1> QED
  BY <1>1, <1>2, <1>6

(* Replacing the official file keeps it: the result comes last, and finds  *)
(* every configuration and log of this attempt.                            *)
LEMMA KeepsReplace ==
  ASSUME RecordInv, StagedIsFree', Replace
  PROVE  RecordInv'
<1>t. /\ next \in 1 .. Last /\ Name(next) \in Names /\ disk[Name(next)] = Absent
      /\ disk' = [disk EXCEPT ![Name(next)] = Content(next)] /\ Storing
      /\ DOMAIN disk = Names /\ <<"result", 0>> \in Names
      /\ UNCHANGED <<attempt, facts, held, settled, mutual>>
  BY NameFacts DEF RecordInv, HeldLink, StagedIsFree, Replace, Names
<1>a. /\ disk'[Name(next)] = Content(next)
      /\ \A name \in Names : disk[name] # Absent => disk'[name] = disk[name]
  BY <1>t
<1>1. HeldLink' /\ SettledLink' /\ WritingLink'
  BY <1>t, <1>a, KeepsAdvance DEF Replace
<1>2. disk[<<"result", 0>>] = Absent
  BY <1>t DEF RecordInv, ResultCompletesTheSet
<1>3. CASE next # Last
  <2>1. disk'[<<"result", 0>>] = Absent
    BY <1>t, <1>2, <1>3, NameFacts
  <2> QED
    BY <1>1, <2>1 DEF RecordInv, ResultLink, ResultCompletesTheSet, SettledLink
<1>4. CASE next = Last
  <2>1. /\ stage = "writing" /\ facts.counted /\ mutual /\ held = Parts /\ settled # NoDigest
        /\ \A i \in 2 .. (Last - 1) : disk[Name(i)] = Content(i)
        /\ disk[Name(1)] # Absent
    BY <1>t, <1>4, NameFacts DEF Storing, RecordInv, HeldLink, WritingLink, WritesOut
  <2>2. disk'[<<"result", 0>>] = ResultDocument
    BY <1>t, <1>4, NameFacts, ContentFacts
  <2>3. ASSUME NEW i \in 2 .. (Last - 1)
        PROVE  /\ disk'[Name(i)] # Absent /\ disk'[Name(i)].attempt = attempt
               /\ Name(i)[1] = "log" => disk'[Name(i)].result = facts.us[Name(i)[2]]
    <3>1. i \in 1 .. Last /\ disk[Name(i)] = Content(i)
      BY <2>1, NameFacts
    <3> QED
      BY <3>1, <1>a, NameFacts, ContentFacts
  <2>4. ASSUME NEW n \in Games
        PROVE  /\ disk'[<<"config", n>>] # Absent /\ disk'[<<"config", n>>].attempt = attempt
               /\ disk'[<<"log", n>>] # Absent /\ disk'[<<"log", n>>].attempt = attempt
               /\ disk'[<<"log", n>>].result = facts.us[n]
    BY <2>3, NameFacts
  <2>5. disk'[<<"declaration", 0>>] # Absent
    BY <2>1, <1>a, NameFacts
  <2>6. ResultDocument # Absent
    BY DEF ResultDocument, Absent
  <2>7. \A name \in Names : disk'[name] # Absent
    <3>1. ASSUME NEW kind \in {"config", "log"}, NEW n \in Games
          PROVE  disk'[<<kind, n>>] # Absent /\ disk'[<<kind, n>>].attempt = attempt
      BY <2>4
    <3>2. ASSUME NEW name \in {"config", "log"} \X Games PROVE disk'[name] # Absent
      BY <3>1
    <3> QED
      BY <2>2, <2>5, <2>6, <3>2 DEF Names
  <2>8. facts.deployed["us"] = "declared"
    <3>1. held >= 2
      BY <2>1, RecordAssumption DEF Parts
    <3> QED
      BY <2>1, <3>1 DEF RecordInv, HeldLink
  <2>9. /\ settled = ConsensusScope(RowsOf(facts.us)) /\ RowsOf(facts.us) = RowsOf(facts.them)
    BY <2>1 DEF RecordInv, SettledLink
  <2>10. /\ ResultDocument.attempt = attempt /\ ResultDocument.rows = RowsOf(facts.us)
         /\ ResultDocument.consensus = settled
    BY DEF ResultDocument
  <2>11. \A n \in Games : RowsOf(facts.us)[n].result = facts.us[n]
    BY DEF RowsOf, Row
  <2>12. ResultCompletesTheSet'
    <3>1. ASSUME NEW name \in {"config", "log"} \X Games PROVE disk'[name].attempt = attempt
      <4>1. ASSUME NEW kind \in {"config", "log"}, NEW n \in Games
            PROVE  disk'[<<kind, n>>].attempt = attempt
        BY <2>4
      <4> QED
        BY <4>1
    <3>2. disk'[<<"result", 0>>].attempt = attempt /\ disk'[<<"result", 0>>].rows = RowsOf(facts.us)
            /\ disk'[<<"result", 0>>].consensus = ConsensusScope(RowsOf(facts.us))
      BY <2>2, <2>9, <2>10
    <3>3. \A n \in Games : disk'[<<"log", n>>].result = RowsOf(facts.us)[n].result
      BY <2>4, <2>11
    <3> QED
      BY <1>t, <2>1, <2>7, <2>8, <2>9, <3>1, <3>2, <3>3 DEF ResultCompletesTheSet
  <2>13. ResultLink'
    BY <1>t, <2>2, <2>10, <1>1 DEF ResultLink, HeldLink
  <2> QED
    BY <1>1, <2>12, <2>13 DEF RecordInv
<1> QED
  BY <1>3, <1>4

(* Confirming a stored file keeps it, and so does a collision.             *)
LEMMA KeepsStoreAgain ==
  ASSUME RecordInv, StagedIsFree', StoreAgain
  PROVE  RecordInv'
<1>1. CASE Collides
  BY <1>1, KeepsForget DEF StoreAgain, GiveUp
<1>2. CASE ~Collides
  <2>1. /\ disk' = disk /\ disk[Name(next)] = Content(next) /\ Storing /\ Advance
        /\ UNCHANGED <<attempt, facts, held, settled, mutual>>
    BY <1>2 DEF StoreAgain, Collides, Stored, RecordInv, StagedIsFree
  <2>2. HeldLink' /\ SettledLink' /\ WritingLink'
    BY <2>1, KeepsAdvance
  <2> QED
    BY <2>1, <2>2, SameDisk DEF RecordInv
<1> QED
  BY <1>1, <1>2

(* A restart keeps it: every result is then of an earlier attempt.         *)
LEMMA KeepsRestart ==
  ASSUME RecordInv, StagedIsFree', Restart
  PROVE  RecordInv'
<1>1. /\ held = 0 /\ settled = NoDigest /\ next = 1 /\ attempt \in Nat /\ attempt' = attempt + 1
      /\ stage' = "declaring" /\ UNCHANGED <<memory, disk>>
  BY DEF RecordInv, HeldLink, Restart
<1>2. HeldLink' /\ SettledLink' /\ WritingLink'
  BY <1>1, NameFacts DEF HeldLink, SettledLink, WritingLink, memory
<1>3. disk[<<"result", 0>>] # Absent => disk[<<"result", 0>>].attempt # attempt'
  <2>1. SUFFICES ASSUME disk[<<"result", 0>>] # Absent, disk[<<"result", 0>>].attempt = attempt'
                 PROVE  FALSE
    OBVIOUS
  <2>2. attempt' \in 0 .. attempt
    BY <2>1 DEF RecordInv, ResultLink
  <2> QED
    BY <1>1, <2>2
<1>4. ResultCompletesTheSet'
  BY <1>1, <1>3 DEF RecordInv, ResultCompletesTheSet, memory
<1>5. ResultLink'
  <2>1. \A x \in 0 .. attempt : x \in 0 .. attempt'
    BY <1>1
  <2> QED
    BY <1>1, <2>1 DEF RecordInv, ResultLink
<1> QED
  BY <1>2, <1>4, <1>5 DEF RecordInv

(* So does every step.                                                     *)
LEMMA KeepsRecord == RecordInv /\ [RecordNext]_recordVars => RecordInv'
<1> SUFFICES ASSUME RecordInv, [RecordNext]_recordVars PROVE RecordInv'
  OBVIOUS
<1>0. StagedIsFree'
  BY KeepsStagedIsFree DEF RecordInv
<1>1. CASE HandOver \/ SettleSeries \/ AgreeResult \/ Replace \/ StoreAgain \/ Restart
  BY <1>0, <1>1, KeepsHandOver, KeepsSettleSeries, KeepsAgreeResult, KeepsReplace,
     KeepsStoreAgain, KeepsRestart
<1>2. CASE Stage \/ Report \/ UNCHANGED recordVars
  <2>1. UNCHANGED <<attempt, facts, held, settled, mutual, stage, next, disk>>
    BY <1>2 DEF Stage, Report, recordVars, gateway, memory
  <2>2. HeldLink' /\ SettledLink'
    BY <2>1 DEF RecordInv, HeldLink, SettledLink
  <2>3. WritingLink'
    BY <2>1 DEF RecordInv, WritingLink, WritesOut, Content, ConfigDocument, LogDocument,
       ResultDocument
  <2> QED
    BY <1>0, <2>1, <2>2, <2>3, SameDisk DEF RecordInv
<1>3. CASE Fault \/ Crash
  BY <1>0, <1>3, KeepsForget DEF Fault, Crash, GiveUp
<1> QED
  BY <1>1, <1>2, <1>3 DEF RecordNext

(* Whoever finds a result on the disk finds the whole set beside it, of the*)
(* very attempt whose result it is, counted and agreed alike by both       *)
(* groups; and no series settles that both did not record alike            *)
(* (`CountedSeriesWriter.write`, `SeriesParts.ready`).                     *)
THEOREM ResultCompletesTheSetHolds == RecordSpec => []ResultCompletesTheSet
<1>1. RecordInit => RecordInv
  <2> SUFFICES ASSUME RecordInit PROVE RecordInv
    OBVIOUS
  <2>1. \A name \in Names : disk[name] = Absent
    BY DEF RecordInit
  <2>2. <<"result", 0>> \in Names
    BY DEF Names
  <2>3. StagedIsFree
    BY DEF RecordInit, StagedIsFree
  <2>4. HeldLink /\ SettledLink
    BY NameFacts DEF RecordInit, HeldLink, SettledLink
  <2>5. WritingLink
    BY DEF RecordInit, WritingLink
  <2>6. ResultLink /\ ResultCompletesTheSet
    BY <2>1, <2>2 DEF RecordInit, ResultLink, ResultCompletesTheSet
  <2> QED
    BY <2>3, <2>4, <2>5, <2>6 DEF RecordInv
<1>2. RecordInv => ResultCompletesTheSet
  BY DEF RecordInv
<1> QED
  BY <1>1, <1>2, KeepsRecord, PTL DEF RecordSpec
=============================================================================
