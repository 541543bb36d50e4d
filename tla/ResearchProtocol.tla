-------------------------- MODULE ResearchProtocol --------------------------
(***************************************************************************)
(* How a candidate policy is measured, frozen and judged (`research/`).    *)
(*                                                                         *)
(* Commands are processes over one results directory. Each imports the     *)
(* code it runs when it starts, then reads the digest of a source from the *)
(* disk, plays for hours what it imported and writes at the end; at any    *)
(* time in between the sources on disk may be edited, other commands may   *)
(* run, and any of them may die.                                           *)
(*                                                                         *)
(* Play is deterministic, so what a version of the code achieves on a bank *)
(* is a constant of the model (`Measured`); a digest is the version it is  *)
(* of; a scenario list and its commitment are the set of its scenarios.    *)
(***************************************************************************)
EXTENDS Integers, FiniteSets

CONSTANTS
  Proc,            \* the shells commands are started from
  BankSize,        \* seeds of a bank
  DrawnOpening(_), \* the opening a seed draws on a varied board
  Measured,        \* [Versions -> [bank -> measurement]]
  WithinCeiling,   \* the versions that answer within the ceiling
  ChosenSets,      \* what `--sets` names in the run
  Committed,       \* the banks whose rows the repository already holds
  Recorded,        \* the evidence it already holds, of the frozen source
  MaxCommands, MaxEdits   \* bounds of the run

Frozen == "frozen"
Versions == {Frozen, "edited"}
Sources == {"candidate", "corpus"}

-----------------------------------------------------------------------------
(* Scenarios.                                                              *)

WorkingBanks == {"development", "holdout", "stress"}
Turn == [b \in WorkingBanks |->
           CASE b = "development" -> 1 [] b = "holdout" -> 2 [] b = "stress" -> 3]
FinalHoldout == "final_holdout"

(* Mutant: the namespace and the name of the bank are not hashed.          *)
SeedsByIndex(bank) == {<<"bank", i>> : i \in 1 .. BankSize}

(* `seed_at`: no two banks share a seed.                                   *)
Seeds(bank) == {<<bank, i>> : i \in 1 .. BankSize}

Configs(corpus) == IF corpus = Frozen THEN {"reference", "grid9"} ELSE {"reference", "grid11"}
FamilyKinds == {"seeded", "plain"}          \* `seed_matters`

(* `start_cells`: the reference geometry has exactly one opening.          *)
StartOf(config, seed) == IF config = "reference" THEN 0 ELSE DrawnOpening(seed)

(* `openings`: without replacement, the first seed that draws it.          *)
Openings(config, bank) ==
  {s \in Seeds(bank) :
     ~\E t \in Seeds(bank) : t[2] < s[2] /\ StartOf(config, t) = StartOf(config, s)}

(* `scenario_id`: the seed only where the family's play depends on it.     *)
ScenarioId(family, config, seed) ==
  <<family, config, StartOf(config, seed), IF family = "seeded" THEN seed ELSE <<>> >>

Enumerated(bank, corpus) ==
  {ScenarioId(fcs[1], fcs[2], fcs[3]) :
     fcs \in {x \in FamilyKinds \X Configs(corpus) \X Seeds(bank) : x[3] \in Openings(x[2], bank)}}

(* `sealed_set`, `sealed_set_v2`, `sealed_set_v3`: a later cycle leaves    *)
(* out what an earlier one has spent.                                      *)
SealedSet(corpus) == Enumerated(FinalHoldout, corpus)
SealedSetV2(corpus) == Enumerated("final_holdout_v2", corpus) \ SealedSet(corpus)
SealedSetV3(corpus) ==
  Enumerated("final_holdout_v3", corpus) \ (SealedSet(corpus) \cup SealedSetV2(corpus))
EverSealed == SealedSet(Frozen) \cup SealedSetV2(Frozen) \cup SealedSetV3(Frozen)

(* `Sweep.run` and `replay_all`: one row per scenario. The rows of a bank  *)
(* that was replayed are the rows it was replayed on.                      *)
Swept(bank, corpus) == Enumerated(bank, corpus)

-----------------------------------------------------------------------------
(* Gates.                                                                  *)

(* Mutant: the digest of what the candidate is called.                     *)
SourceShaOfName(version) == Frozen

(* `Candidate.source_sha256`.                                              *)
SourceSha(version) == version

Unmeasured == 1000    \* an interval a cell was too small to carry

(* `material_regression`: a drop of more than five points whose interval   *)
(* excludes zero; both halves, and a cell without an interval convicts on  *)
(* nothing.                                                                *)
MaterialRegression(one) == one.high # Unmeasured /\ one.delta < -5 /\ one.high < 0

(* `overall_passes`, and gates A, C to G and I of `assess`.                *)
Passes(measured, latencyOk, sha) ==
  /\ measured.overall.delta > 0
  /\ measured.overall.low # Unmeasured /\ measured.overall.low > 0
  /\ \A one \in measured.groups : ~MaterialRegression(one)
  /\ latencyOk
  /\ sha = Frozen

-----------------------------------------------------------------------------
VARIABLES
  disk,      \* [Sources -> Versions], what an import or a digest reads now
  proc,      \* [Proc -> what a command has loaded, seen and is about to do]
  rows,      \* `baseline/games_*.csv`: who played which scenarios
  evidence,  \* `candidates/*_C4.json`, `latency.json`
  freeze,    \* `candidates/freeze_C4.json`
  seal,      \* `final_holdout.json`
  staging,   \* `final_holdout_result.tmp`
  result,    \* `candidates/final_holdout_result.json`
  started, edits

files == <<rows, evidence, freeze, seal, staging, result>>
vars == <<disk, proc, files, started, edits>>

Replays == {"full", "validation", "stress"}
Kinds == Replays \cup {"latency"}
BankOf == [kind \in Replays |->
             CASE kind = "full" -> "development" [] kind = "validation" -> "holdout"
               [] kind = "stress" -> "stress"]
Nothing == [says |-> "nothing"]
Idle == [phase |-> "idle"]
RowsOf(bank, corpus) == [over |-> Swept(bank, corpus)]
Measurement(kind, candidate, sha, crossed) ==
  [says |-> sha, by |-> candidate, crossed |-> crossed,
   measured |-> Measured[candidate][BankOf[kind]]]

(* The record of a latency carries no digest: it does not say what was     *)
(* timed.                                                                  *)
Timing(candidate) == [says |-> "C4", within |-> candidate \in WithinCeiling]
SealOf(corpus) == [commitment |-> SealedSet(corpus), results_present |-> FALSE]

Init ==
  /\ disk = [s \in Sources |-> Frozen]
  /\ proc = [p \in Proc |-> Idle]
  /\ rows = [b \in WorkingBanks |-> IF b \in Committed THEN RowsOf(b, Frozen) ELSE Nothing]
  /\ evidence = [k \in Kinds |->
       IF k \notin Recorded THEN Nothing
       ELSE IF k = "latency" THEN Timing(Frozen)
       ELSE Measurement(k, Frozen, SourceSha(Frozen), FALSE)]
  /\ freeze = [validated |-> FALSE]
  /\ seal = SealOf(Frozen)
  /\ staging = Nothing /\ result = Nothing
  /\ started = 0 /\ edits = 0

(* Somebody edits a source while nothing, or something, is running. A      *)
(* command whose candidate is edited between its import and its digest has *)
(* been `crossed`: nothing in the program can tell.                        *)
Edit(s) ==
  /\ edits < MaxEdits /\ edits' = edits + 1
  /\ disk' = [disk EXCEPT ![s] = IF @ = Frozen THEN "edited" ELSE Frozen]
  /\ proc' = [p \in Proc |->
       IF s = "candidate" /\ proc[p].phase = "loaded"
       THEN [proc[p] EXCEPT !.crossed = TRUE] ELSE proc[p]]
  /\ UNCHANGED <<files, started>>

Launch(p, command) ==
  /\ proc[p] = Idle
  /\ started < MaxCommands /\ started' = started + 1
  /\ proc' = [proc EXCEPT ![p] = command]
  /\ UNCHANGED <<disk, files, edits>>

(* A command whose check fails ends.                                       *)
Proceed(p, checked, step) == proc' = [proc EXCEPT ![p] = IF checked THEN step ELSE Idle]
End(p) == proc' = [proc EXCEPT ![p] = Idle]

-----------------------------------------------------------------------------
(* `bench_main`: the chosen banks are played one after another, each       *)
(* written when it is done; `all` goes on to `analyse`.                    *)

Analysing(corpus) == [phase |-> "analysing", corpus |-> corpus]

StartBench(p, chosen) ==
  Launch(p, [phase |-> "bench", corpus |-> disk.corpus, banks |-> chosen])

StartAnalyse(p) == Launch(p, Analysing(disk.corpus))

WriteRows(p, bank) ==
  LET run == proc[p]
      others == run.banks \ {bank} IN
  /\ run.phase = "bench" /\ bank \in run.banks
  /\ \A other \in others : Turn[bank] < Turn[other]
  /\ rows' = [rows EXCEPT ![bank] = RowsOf(bank, run.corpus)]
  /\ \E next \in IF others = {} THEN {Idle, Analysing(run.corpus)}
                 ELSE {[phase |-> "bench", corpus |-> run.corpus, banks |-> others]} :
       proc' = [proc EXCEPT ![p] = next]
  /\ UNCHANGED <<disk, evidence, freeze, seal, staging, result, started, edits>>

(* `analyse`: needs rows, and writes the seal of the corpus it loaded anew *)
(* with `RESULTS_PRESENT`, which nothing ever raises.                      *)
Analyse(p) ==
  /\ proc[p].phase = "analysing"
  /\ seal' = IF \E b \in WorkingBanks : rows[b] # Nothing
             THEN SealOf(proc[p].corpus) ELSE seal
  /\ End(p)
  /\ UNCHANGED <<disk, rows, evidence, freeze, staging, result, started, edits>>

-----------------------------------------------------------------------------
(* `candidate_main`.                                                       *)

(* A replay, or the final evaluation, starts: it imports the candidate and *)
(* the corpus before it looks at any file.                                 *)
Load(p, kind) ==
  Launch(p, [phase |-> "loaded", kind |-> kind, loaded |-> disk, crossed |-> FALSE])

(* `full` takes any source; `evaluate` refuses one whose file is not the   *)
(* frozen one when it is digested.                                         *)
Admitted(kind) == kind # "full" => SourceSha(disk.candidate) = Frozen

(* The digest is of the file, and a replay needs the rows of its bank.     *)
StartReplay(p) ==
  LET run == proc[p] IN
  /\ run.phase = "loaded" /\ run.kind \in Replays
  /\ Proceed(p, Admitted(run.kind) /\ rows[BankOf[run.kind]] # Nothing,
       [phase |-> "replay", kind |-> run.kind, candidate |-> run.loaded.candidate,
        sha |-> SourceSha(disk.candidate), crossed |-> run.crossed])
  /\ UNCHANGED <<disk, files, started, edits>>

(* The record of `full` carries a digest taken after play.                 *)
WriteEvidence(p) ==
  LET run == proc[p] IN
  /\ run.phase = "replay"
  /\ evidence' = [evidence EXCEPT ![run.kind] =
       Measurement(run.kind, run.candidate,
         IF run.kind = "full" THEN SourceSha(disk.candidate) ELSE run.sha, run.crossed)]
  /\ End(p)
  /\ UNCHANGED <<disk, rows, freeze, seal, staging, result, started, edits>>

StartLatency(p) == Launch(p, [phase |-> "timing", candidate |-> disk.candidate])

WriteLatency(p) ==
  /\ proc[p].phase = "timing"
  /\ evidence' = [evidence EXCEPT !["latency"] = Timing(proc[p].candidate)]
  /\ End(p)
  /\ UNCHANGED <<disk, rows, freeze, seal, staging, result, started, edits>>

(* `write_freeze`: every gate on both banks, from the records as they are. *)
Assess(p) ==
  /\ \A k \in {"validation", "stress", "latency"} : evidence[k] # Nothing
  /\ Launch(p, [phase |-> "assessed",
       validated |-> \A k \in {"validation", "stress"} :
         Passes(evidence[k].measured, evidence["latency"].within, evidence[k].says)])

(* Then the record, passed or not, with a digest of each file as it is now.*)
WriteFreeze(p) ==
  /\ proc[p].phase = "assessed"
  /\ freeze' =
       IF /\ \A k \in Kinds : evidence[k] # Nothing
          /\ \A b \in WorkingBanks : rows[b] # Nothing
          /\ SourceSha(disk.candidate) = Frozen
          /\ seal.results_present = FALSE
       THEN [validated |-> proc[p].validated, digests |-> evidence]
       ELSE freeze
  /\ End(p)
  /\ UNCHANGED <<disk, rows, evidence, seal, staging, result, started, edits>>

-----------------------------------------------------------------------------
(* `final_main`: the one evaluation.                                       *)

(* `guard`, and the enumeration that must reproduce the commitment: it is  *)
(* the file of the candidate that is digested, and the imported corpus     *)
(* that is enumerated.                                                     *)
Guarded(corpus) ==
  /\ result = Nothing
  /\ seal.results_present = FALSE
  /\ seal.commitment = SealedSet(Frozen)
  /\ SourceSha(disk.candidate) = Frozen
  /\ SealedSet(corpus) = SealedSet(Frozen)

StartFinal(p) ==
  LET run == proc[p] IN
  /\ run.phase = "loaded" /\ run.kind = "final"
  /\ Proceed(p, Guarded(run.loaded.corpus),
       [phase |-> "judging", candidate |-> run.loaded.candidate,
        corpus |-> run.loaded.corpus, crossed |-> run.crossed])
  /\ UNCHANGED <<disk, files, started, edits>>

(* Both sides are played and the document is made. It names the candidate  *)
(* by the digest of its source as it is then.                              *)
Judge(p) ==
  LET run == proc[p] IN
  /\ run.phase = "judging"
  /\ proc' = [proc EXCEPT ![p] =
       [phase |-> "judged",
        document |-> [says |-> SourceSha(disk.candidate), by |-> run.candidate,
                      over |-> SealedSet(run.corpus), crossed |-> run.crossed,
                      of |-> p, rivals |-> {}]]]
  /\ UNCHANGED <<disk, files, started, edits>>

(* Mutant: the rename alone decides.                                       *)
UnpublishedAnyway == TRUE

(* `publish`: no result yet, then the temporary file, then the rename.     *)
Unpublished == result = Nothing

CheckUnpublished(p) ==
  /\ proc[p].phase = "judged"
  /\ proc' = [proc EXCEPT ![p] = IF Unpublished THEN [@ EXCEPT !.phase = "clear"] ELSE Idle]
  /\ UNCHANGED <<disk, files, started, edits>>

PastCheck(p) == proc[p].phase \in {"clear", "staged"}

Stage(p) ==
  /\ proc[p].phase = "clear"
  /\ staging' = proc[p].document
  /\ proc' = [proc EXCEPT ![p].phase = "staged"]
  /\ UNCHANGED <<disk, rows, evidence, freeze, seal, result, started, edits>>

(* The name of the temporary file is shared: a rename takes what is there, *)
(* and fails when another one has taken it.                                *)
Rename(p) ==
  /\ proc[p].phase = "staged"
  /\ proc' = [proc EXCEPT ![p] = Idle]
  /\ result' = IF staging = Nothing THEN result
               ELSE [staging EXCEPT !.rivals = {q \in Proc \ {p} : PastCheck(q)}]
  /\ staging' = Nothing
  /\ UNCHANGED <<disk, rows, evidence, freeze, seal, started, edits>>

Die(p) ==
  /\ proc[p] # Idle
  /\ proc' = [proc EXCEPT ![p] = Idle]
  /\ UNCHANGED <<disk, files, started, edits>>

-----------------------------------------------------------------------------
Next ==
  \/ \E s \in Sources : Edit(s)
  \/ \E p \in Proc :
       \/ \E chosen \in ChosenSets : StartBench(p, chosen)
       \/ \E bank \in WorkingBanks : WriteRows(p, bank)
       \/ StartAnalyse(p) \/ Analyse(p)
       \/ \E kind \in Replays \cup {"final"} : Load(p, kind)
       \/ StartReplay(p) \/ WriteEvidence(p)
       \/ StartLatency(p) \/ WriteLatency(p)
       \/ Assess(p) \/ WriteFreeze(p)
       \/ StartFinal(p) \/ Judge(p) \/ CheckUnpublished(p) \/ Stage(p) \/ Rename(p)
       \/ Die(p)

Spec == Init /\ [][Next]_vars

-----------------------------------------------------------------------------
(* A published verdict is on the whole sealed set and on the frozen        *)
(* candidate, whatever is edited, rewritten or interrupted while it is     *)
(* judged (`final_evaluation.py`: "against one frozen candidate"), unless  *)
(* the candidate was edited after the judge had imported it and before it  *)
(* read the digest: then the file vouches for another program.             *)
VerdictIsOnWhatWasFrozen ==
  result # Nothing =>
    /\ result.over = SealedSet(Frozen)
    /\ result.by = Frozen \/ result.crossed

(* A freeze that says validated digests two measurements the frozen source *)
(* made, whoever ran what in between (`freeze.py`), with the same          *)
(* exception for each (`validation.py`: "The candidate is checked before   *)
(* it is run": it is imported before that). Of the latency and development *)
(* files it digests, nothing says as much.                                 *)
FreezeIsOfTheFrozenSource ==
  freeze.validated => \A k \in {"validation", "stress"} :
    freeze.digests[k].by = Frozen \/ freeze.digests[k].crossed

(* What is judged is what was frozen, from the gates to the verdict: the   *)
(* digest of the source is taken anew at every gate, never remembered.     *)
WhatIsJudgedIsFrozen == VerdictIsOnWhatWasFrozen /\ FreezeIsOfTheFrozenSource

(* Publication refuses to overwrite: a recorded result is replaced only by *)
(* the document of an evaluation that had passed every check when it was   *)
(* recorded, so never by one whose games end, or begin, afterwards.        *)
ReplacedOnlyInARace ==
  [][result # Nothing /\ result' # result => result'.of \in result.rivals]_vars

(* "No game has been played on it" (`seeds.final_holdout_bank` and its two *)
(* successors): of a sealed scenario whose play depends on its seed, no    *)
(* row of a working bank says anything. One that no seed tells apart may   *)
(* have been played all along: banks that share no seed share those.       *)
SealedSeedsAreFresh ==
  \A b \in WorkingBanks : rows[b] # Nothing =>
    \A scenario \in EverSealed \cap rows[b].over : scenario[1] = "plain"
=============================================================================
