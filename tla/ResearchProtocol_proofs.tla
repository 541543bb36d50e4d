----------------------- MODULE ResearchProtocol_proofs -----------------------
(***************************************************************************)
(* For any shells, any number of commands and edits, any bank and whatever *)
(* a version of the code achieves on it: what is judged is what was        *)
(* frozen, a result is replaced in a race only, and a sealed seed is fresh.*)
(***************************************************************************)
EXTENDS ResearchProtocol, TLAPS

-----------------------------------------------------------------------------
(* From the gates to the verdict.                                          *)

(* A document on the whole sealed set and, unless its writer was crossed   *)
(* by an edit, on the frozen candidate.                                    *)
OnFrozen(document) ==
  /\ document = [says |-> document.says, by |-> document.by, over |-> document.over,
                 crossed |-> document.crossed, of |-> document.of, rivals |-> document.rivals]
  /\ document.over = SealedSet(Frozen)
  /\ document.by = Frozen \/ document.crossed

(* The shape of what is looked at below.                                   *)
ShapeLink ==
  /\ disk = [s \in Sources |-> disk[s]]
  /\ proc = [p \in Proc |-> proc[p]]
  /\ \A p \in Proc :
       /\ "phase" \in DOMAIN proc[p]
       /\ proc[p].phase = "loaded" =>
            proc[p] = [phase |-> "loaded", kind |-> proc[p].kind, loaded |-> proc[p].loaded,
                       crossed |-> proc[p].crossed]
       /\ proc[p].phase \in {"judged", "clear", "staged"} =>
            proc[p] = [phase |-> proc[p].phase, document |-> proc[p].document]

(* What was imported is still on the disk, unless an edit crossed it: so   *)
(* what is digested is what was imported. From there on a command plays    *)
(* what it imported, whatever becomes of the disk.                         *)
JudgedLink ==
  /\ \A p \in Proc :
       /\ proc[p].phase = "loaded" =>
            proc[p].loaded.candidate = disk.candidate \/ proc[p].crossed
       /\ proc[p].phase = "judging" =>
            /\ proc[p].candidate = Frozen \/ proc[p].crossed
            /\ SealedSet(proc[p].corpus) = SealedSet(Frozen)
       /\ proc[p].phase \in {"judged", "clear", "staged"} =>
            OnFrozen(proc[p].document) /\ proc[p].document.of = p
  /\ staging # Nothing => OnFrozen(staging)
  /\ result # Nothing => OnFrozen(result)

(* A measurement of one of the two banks is by the frozen source, unless   *)
(* an edit crossed the command that made it.                               *)
EvidenceLink ==
  /\ evidence = [k \in Kinds |-> evidence[k]]
  /\ \A p \in Proc : proc[p].phase = "replay" =>
       /\ proc[p].kind \in Replays
       /\ proc[p].kind # "full" => proc[p].candidate = Frozen \/ proc[p].crossed
  /\ \A k \in {"validation", "stress"} : evidence[k] # Nothing =>
       evidence[k].by = Frozen \/ evidence[k].crossed
  /\ FreezeIsOfTheFrozenSource

(* Whoever is past the look at the result when one is recorded is named in *)
(* it, and so is the writer of a temporary file that outlives its rename.  *)
RaceLink ==
  result # Nothing =>
    /\ \A p \in Proc : PastCheck(p) => p \in result.rivals
    /\ staging # Nothing => staging.of \in result.rivals

LEMMA KeepsShapeLink == ShapeLink /\ [Next]_vars => ShapeLink'
<1> SUFFICES ASSUME ShapeLink, [Next]_vars  PROVE ShapeLink'
  OBVIOUS
<1> USE DEF ShapeLink, Idle
<1>1. ASSUME NEW s \in Sources, Edit(s)  PROVE ShapeLink'
  BY <1>1 DEF Edit, files
<1>2. ASSUME NEW p \in Proc, NEW chosen \in ChosenSets, StartBench(p, chosen)  PROVE ShapeLink'
  BY <1>2 DEF StartBench, Launch, files
<1>3. ASSUME NEW p \in Proc, NEW bank \in WorkingBanks, WriteRows(p, bank)  PROVE ShapeLink'
  BY <1>3 DEF WriteRows, Analysing, files
<1>4. ASSUME NEW p \in Proc, StartAnalyse(p)  PROVE ShapeLink'
  BY <1>4 DEF StartAnalyse, Launch, Analysing, files
<1>5. ASSUME NEW p \in Proc, Analyse(p)  PROVE ShapeLink'
  BY <1>5 DEF Analyse, End, files
<1>6. ASSUME NEW p \in Proc, NEW kind \in Replays \cup {"final"}, Load(p, kind)
      PROVE  ShapeLink'
  BY <1>6 DEF Load, Launch, files
<1>7. ASSUME NEW p \in Proc, StartReplay(p)  PROVE ShapeLink'
  BY <1>7 DEF StartReplay, Proceed, files
<1>8. ASSUME NEW p \in Proc, WriteEvidence(p)  PROVE ShapeLink'
  BY <1>8 DEF WriteEvidence, End, files
<1>9. ASSUME NEW p \in Proc, StartLatency(p)  PROVE ShapeLink'
  BY <1>9 DEF StartLatency, Launch, files
<1>10. ASSUME NEW p \in Proc, WriteLatency(p)  PROVE ShapeLink'
  BY <1>10 DEF WriteLatency, End, files
<1>11. ASSUME NEW p \in Proc, Assess(p)  PROVE ShapeLink'
  BY <1>11 DEF Assess, Launch, files
<1>12. ASSUME NEW p \in Proc, WriteFreeze(p)  PROVE ShapeLink'
  BY <1>12 DEF WriteFreeze, End, files
<1>13. ASSUME NEW p \in Proc, StartFinal(p)  PROVE ShapeLink'
  BY <1>13 DEF StartFinal, Proceed, files
<1>14. ASSUME NEW p \in Proc, Judge(p)  PROVE ShapeLink'
  BY <1>14 DEF Judge, files
<1>15. ASSUME NEW p \in Proc, CheckUnpublished(p)  PROVE ShapeLink'
  BY <1>15 DEF CheckUnpublished, Unpublished, files
<1>16. ASSUME NEW p \in Proc, Stage(p)  PROVE ShapeLink'
  BY <1>16 DEF Stage, files
<1>17. ASSUME NEW p \in Proc, Rename(p)  PROVE ShapeLink'
  BY <1>17 DEF Rename, files
<1>18. ASSUME NEW p \in Proc, Die(p)  PROVE ShapeLink'
  BY <1>18 DEF Die, files
<1>19. CASE UNCHANGED vars
  BY <1>19 DEF vars, files
<1> QED
  BY <1>1, <1>2, <1>3, <1>4, <1>5, <1>6, <1>7, <1>8, <1>9, <1>10,
     <1>11, <1>12, <1>13, <1>14, <1>15, <1>16, <1>17, <1>18, <1>19 DEF Next

LEMMA KeepsJudgedLink == ShapeLink /\ JudgedLink /\ [Next]_vars => JudgedLink'
<1> SUFFICES ASSUME ShapeLink, JudgedLink, [Next]_vars  PROVE JudgedLink'
  OBVIOUS
<1> USE DEF ShapeLink, JudgedLink, OnFrozen, Idle
<1>1. ASSUME NEW s \in Sources, Edit(s)  PROVE JudgedLink'
  BY <1>1 DEF Edit, files, Sources
<1>2. ASSUME NEW p \in Proc, NEW chosen \in ChosenSets, StartBench(p, chosen)
      PROVE  JudgedLink'
  BY <1>2 DEF StartBench, Launch, files
<1>3. ASSUME NEW p \in Proc, NEW bank \in WorkingBanks, WriteRows(p, bank)  PROVE JudgedLink'
  BY <1>3 DEF WriteRows, Analysing, files
<1>4. ASSUME NEW p \in Proc, StartAnalyse(p)  PROVE JudgedLink'
  BY <1>4 DEF StartAnalyse, Launch, Analysing, files
<1>5. ASSUME NEW p \in Proc, Analyse(p)  PROVE JudgedLink'
  BY <1>5 DEF Analyse, End, files
<1>6. ASSUME NEW p \in Proc, NEW kind \in Replays \cup {"final"}, Load(p, kind)
      PROVE  JudgedLink'
  BY <1>6 DEF Load, Launch, files
<1>7. ASSUME NEW p \in Proc, StartReplay(p)  PROVE JudgedLink'
  BY <1>7 DEF StartReplay, Proceed, files
<1>8. ASSUME NEW p \in Proc, WriteEvidence(p)  PROVE JudgedLink'
  BY <1>8 DEF WriteEvidence, End, files
<1>9. ASSUME NEW p \in Proc, StartLatency(p)  PROVE JudgedLink'
  BY <1>9 DEF StartLatency, Launch, files
<1>10. ASSUME NEW p \in Proc, WriteLatency(p)  PROVE JudgedLink'
  BY <1>10 DEF WriteLatency, End, files
<1>11. ASSUME NEW p \in Proc, Assess(p)  PROVE JudgedLink'
  BY <1>11 DEF Assess, Launch, files
<1>12. ASSUME NEW p \in Proc, WriteFreeze(p)  PROVE JudgedLink'
  BY <1>12 DEF WriteFreeze, End, files
<1>13. ASSUME NEW p \in Proc, StartFinal(p)  PROVE JudgedLink'
  BY <1>13 DEF StartFinal, Proceed, files, Guarded, SourceSha
<1>14. ASSUME NEW p \in Proc, Judge(p)  PROVE JudgedLink'
  BY <1>14 DEF Judge, files
<1>15. ASSUME NEW p \in Proc, CheckUnpublished(p)  PROVE JudgedLink'
  BY <1>15 DEF CheckUnpublished, Unpublished, files
<1>16. ASSUME NEW p \in Proc, Stage(p)  PROVE JudgedLink'
  BY <1>16 DEF Stage, files
<1>17. ASSUME NEW p \in Proc, Rename(p)  PROVE JudgedLink'
  BY <1>17 DEF Rename, files
<1>18. ASSUME NEW p \in Proc, Die(p)  PROVE JudgedLink'
  BY <1>18 DEF Die, files
<1>19. CASE UNCHANGED vars
  BY <1>19 DEF vars, files
<1> QED
  BY <1>1, <1>2, <1>3, <1>4, <1>5, <1>6, <1>7, <1>8, <1>9, <1>10,
     <1>11, <1>12, <1>13, <1>14, <1>15, <1>16, <1>17, <1>18, <1>19 DEF Next

LEMMA KeepsEvidenceLink == ShapeLink /\ JudgedLink /\ EvidenceLink /\ [Next]_vars => EvidenceLink'
<1> SUFFICES ASSUME ShapeLink, JudgedLink, EvidenceLink, [Next]_vars  PROVE EvidenceLink'
  OBVIOUS
<1> USE DEF ShapeLink, EvidenceLink, FreezeIsOfTheFrozenSource, Kinds, Replays, Idle
<1>1. ASSUME NEW s \in Sources, Edit(s)  PROVE EvidenceLink'
  BY <1>1 DEF Edit, files
<1>2. ASSUME NEW p \in Proc, NEW chosen \in ChosenSets, StartBench(p, chosen)
      PROVE  EvidenceLink'
  BY <1>2 DEF StartBench, Launch, files
<1>3. ASSUME NEW p \in Proc, NEW bank \in WorkingBanks, WriteRows(p, bank)  PROVE EvidenceLink'
  BY <1>3 DEF WriteRows, Analysing, files
<1>4. ASSUME NEW p \in Proc, StartAnalyse(p)  PROVE EvidenceLink'
  BY <1>4 DEF StartAnalyse, Launch, Analysing, files
<1>5. ASSUME NEW p \in Proc, Analyse(p)  PROVE EvidenceLink'
  BY <1>5 DEF Analyse, End, files
<1>6. ASSUME NEW p \in Proc, NEW kind \in Replays \cup {"final"}, Load(p, kind)
      PROVE  EvidenceLink'
  BY <1>6 DEF Load, Launch, files
<1>7. ASSUME NEW p \in Proc, StartReplay(p)  PROVE EvidenceLink'
  BY <1>7 DEF StartReplay, Proceed, files, JudgedLink, Admitted, SourceSha
<1>8. ASSUME NEW p \in Proc, WriteEvidence(p)  PROVE EvidenceLink'
  BY <1>8 DEF WriteEvidence, End, files, Measurement
<1>9. ASSUME NEW p \in Proc, StartLatency(p)  PROVE EvidenceLink'
  BY <1>9 DEF StartLatency, Launch, files
<1>10. ASSUME NEW p \in Proc, WriteLatency(p)  PROVE EvidenceLink'
  BY <1>10 DEF WriteLatency, End, files, Timing
<1>11. ASSUME NEW p \in Proc, Assess(p)  PROVE EvidenceLink'
  BY <1>11 DEF Assess, Launch, files
<1>12. ASSUME NEW p \in Proc, WriteFreeze(p)  PROVE EvidenceLink'
  BY <1>12 DEF WriteFreeze, End, files
<1>13. ASSUME NEW p \in Proc, StartFinal(p)  PROVE EvidenceLink'
  BY <1>13 DEF StartFinal, Proceed, files
<1>14. ASSUME NEW p \in Proc, Judge(p)  PROVE EvidenceLink'
  BY <1>14 DEF Judge, files
<1>15. ASSUME NEW p \in Proc, CheckUnpublished(p)  PROVE EvidenceLink'
  BY <1>15 DEF CheckUnpublished, Unpublished, files
<1>16. ASSUME NEW p \in Proc, Stage(p)  PROVE EvidenceLink'
  BY <1>16 DEF Stage, files
<1>17. ASSUME NEW p \in Proc, Rename(p)  PROVE EvidenceLink'
  BY <1>17 DEF Rename, files
<1>18. ASSUME NEW p \in Proc, Die(p)  PROVE EvidenceLink'
  BY <1>18 DEF Die, files
<1>19. CASE UNCHANGED vars
  BY <1>19 DEF vars, files
<1> QED
  BY <1>1, <1>2, <1>3, <1>4, <1>5, <1>6, <1>7, <1>8, <1>9, <1>10,
     <1>11, <1>12, <1>13, <1>14, <1>15, <1>16, <1>17, <1>18, <1>19 DEF Next

LEMMA KeepsRaceLink == ShapeLink /\ JudgedLink /\ RaceLink /\ [Next]_vars => RaceLink'
<1> SUFFICES ASSUME ShapeLink, JudgedLink, RaceLink, [Next]_vars  PROVE RaceLink'
  OBVIOUS
<1> USE DEF ShapeLink, JudgedLink, RaceLink, OnFrozen, PastCheck, Idle
<1>1. ASSUME NEW s \in Sources, Edit(s)  PROVE RaceLink'
  BY <1>1 DEF Edit, files
<1>2. ASSUME NEW p \in Proc, NEW chosen \in ChosenSets, StartBench(p, chosen)  PROVE RaceLink'
  BY <1>2 DEF StartBench, Launch, files
<1>3. ASSUME NEW p \in Proc, NEW bank \in WorkingBanks, WriteRows(p, bank)  PROVE RaceLink'
  BY <1>3 DEF WriteRows, Analysing, files
<1>4. ASSUME NEW p \in Proc, StartAnalyse(p)  PROVE RaceLink'
  BY <1>4 DEF StartAnalyse, Launch, Analysing, files
<1>5. ASSUME NEW p \in Proc, Analyse(p)  PROVE RaceLink'
  BY <1>5 DEF Analyse, End, files
<1>6. ASSUME NEW p \in Proc, NEW kind \in Replays \cup {"final"}, Load(p, kind)
      PROVE  RaceLink'
  BY <1>6 DEF Load, Launch, files
<1>7. ASSUME NEW p \in Proc, StartReplay(p)  PROVE RaceLink'
  BY <1>7 DEF StartReplay, Proceed, files
<1>8. ASSUME NEW p \in Proc, WriteEvidence(p)  PROVE RaceLink'
  BY <1>8 DEF WriteEvidence, End, files
<1>9. ASSUME NEW p \in Proc, StartLatency(p)  PROVE RaceLink'
  BY <1>9 DEF StartLatency, Launch, files
<1>10. ASSUME NEW p \in Proc, WriteLatency(p)  PROVE RaceLink'
  BY <1>10 DEF WriteLatency, End, files
<1>11. ASSUME NEW p \in Proc, Assess(p)  PROVE RaceLink'
  BY <1>11 DEF Assess, Launch, files
<1>12. ASSUME NEW p \in Proc, WriteFreeze(p)  PROVE RaceLink'
  BY <1>12 DEF WriteFreeze, End, files
<1>13. ASSUME NEW p \in Proc, StartFinal(p)  PROVE RaceLink'
  BY <1>13 DEF StartFinal, Proceed, files
<1>14. ASSUME NEW p \in Proc, Judge(p)  PROVE RaceLink'
  BY <1>14 DEF Judge, files
<1>15. ASSUME NEW p \in Proc, CheckUnpublished(p)  PROVE RaceLink'
  BY <1>15 DEF CheckUnpublished, Unpublished, files
<1>16. ASSUME NEW p \in Proc, Stage(p)  PROVE RaceLink'
  BY <1>16 DEF Stage, files
<1>17. ASSUME NEW p \in Proc, Rename(p)  PROVE RaceLink'
  BY <1>17 DEF Rename, files
<1>18. ASSUME NEW p \in Proc, Die(p)  PROVE RaceLink'
  BY <1>18 DEF Die, files
<1>19. CASE UNCHANGED vars
  BY <1>19 DEF vars, files
<1> QED
  BY <1>1, <1>2, <1>3, <1>4, <1>5, <1>6, <1>7, <1>8, <1>9, <1>10,
     <1>11, <1>12, <1>13, <1>14, <1>15, <1>16, <1>17, <1>18, <1>19 DEF Next

LEMMA InitLinks == Init => ShapeLink /\ JudgedLink /\ EvidenceLink /\ RaceLink
<1> SUFFICES ASSUME Init  PROVE ShapeLink /\ JudgedLink /\ EvidenceLink /\ RaceLink
  OBVIOUS
<1>1. /\ disk = [s \in Sources |-> Frozen] /\ proc = [p \in Proc |-> [phase |-> "idle"]]
      /\ staging = Nothing /\ result = Nothing /\ freeze = [validated |-> FALSE]
  BY DEF Init, Idle
<1>2. ShapeLink /\ JudgedLink /\ RaceLink
  BY <1>1 DEF ShapeLink, JudgedLink, RaceLink
<1>3. evidence = [k \in Kinds |-> evidence[k]]
  BY DEF Init
<1>4. ASSUME NEW k \in {"validation", "stress"}, evidence[k] # Nothing
      PROVE  evidence[k].by = Frozen
  BY <1>4 DEF Init, Kinds, Replays, Measurement
<1> QED
  BY <1>1, <1>2, <1>3, <1>4 DEF EvidenceLink, FreezeIsOfTheFrozenSource

(* What is judged is what was frozen, from the gates to the verdict,       *)
(* whatever is edited, rewritten or interrupted, unless an edit came       *)
(* between the import of the candidate and its digest (`freeze.py`,        *)
(* `final_evaluation.py`).                                                 *)
THEOREM WhatIsJudgedIsFrozenHolds == Spec => []WhatIsJudgedIsFrozen
<1>1. JudgedLink /\ EvidenceLink => WhatIsJudgedIsFrozen
  BY DEF JudgedLink, EvidenceLink, OnFrozen, WhatIsJudgedIsFrozen, VerdictIsOnWhatWasFrozen
<1> QED  BY <1>1, InitLinks, KeepsShapeLink, KeepsJudgedLink, KeepsEvidenceLink, PTL DEF Spec

-----------------------------------------------------------------------------
(* Publication.                                                            *)

(* Only a rename records a result: it takes what was staged, which is of   *)
(* someone the result it replaces has named.                               *)
LEMMA ReplacedByRival ==
  ShapeLink /\ JudgedLink /\ RaceLink /\ [Next]_vars =>
    (result # Nothing /\ result' # result => result'.of \in result.rivals)
<1> SUFFICES ASSUME ShapeLink, JudgedLink, RaceLink, [Next]_vars,
                    result # Nothing, result' # result
             PROVE  result'.of \in result.rivals
  OBVIOUS
<1>1. PICK p \in Proc : Rename(p)
  BY DEF Next, vars, files, Edit, StartBench, Launch, WriteRows, StartAnalyse, Analyse, Load,
         StartReplay, WriteEvidence, StartLatency, WriteLatency, Assess, WriteFreeze, StartFinal,
         Judge, CheckUnpublished, Stage, Die
<1>2. staging # Nothing /\ result'.of = staging.of
  BY <1>1 DEF Rename, JudgedLink, OnFrozen
<1> QED  BY <1>2 DEF RaceLink

(* A recorded result is replaced only by the document of an evaluation     *)
(* that had passed every check when it was recorded (`publish`).           *)
THEOREM ReplacedOnlyInARaceHolds == Spec => ReplacedOnlyInARace
<1> DEFINE Replaced == result # Nothing /\ result' # result => result'.of \in result.rivals
<1>1. ShapeLink /\ JudgedLink /\ RaceLink /\ [Next]_vars => [Replaced]_vars
  BY ReplacedByRival
<1> QED
  BY <1>1, InitLinks, KeepsShapeLink, KeepsJudgedLink, KeepsRaceLink, PTL
  DEF Spec, ReplacedOnlyInARace

-----------------------------------------------------------------------------
(* The banks.                                                              *)

(* A scenario of a bank, or one no seed tells apart.                       *)
OfBank(bank, scenario) ==
  scenario[1] = "plain" \/ \E i \in 1 .. BankSize : scenario[4] = <<bank, i>>

LEMMA EnumeratedIsOfBank ==
  ASSUME NEW bank, NEW corpus, NEW scenario \in Enumerated(bank, corpus)
  PROVE  OfBank(bank, scenario)
<1>1. PICK fcs \in FamilyKinds \X Configs(corpus) \X Seeds(bank) :
        scenario = ScenarioId(fcs[1], fcs[2], fcs[3])
  BY DEF Enumerated
<1>2. fcs[1] \in {"seeded", "plain"} /\ fcs[3] \in Seeds(bank)
  BY DEF FamilyKinds
<1>3. CASE fcs[1] = "plain"
  BY <1>1, <1>3 DEF ScenarioId, OfBank
<1>4. CASE fcs[1] = "seeded"
  BY <1>1, <1>2, <1>4 DEF ScenarioId, Seeds, OfBank
<1> QED  BY <1>2, <1>3, <1>4

(* Every row of a bank's file is of that bank.                             *)
RowsLink ==
  /\ rows = [b \in WorkingBanks |-> rows[b]]
  /\ \A b \in WorkingBanks : rows[b] # Nothing =>
       \A scenario \in rows[b].over : OfBank(b, scenario)

LEMMA RowsAreOfBank ==
  ASSUME NEW bank, NEW corpus, NEW scenario \in RowsOf(bank, corpus).over
  PROVE  OfBank(bank, scenario)
  BY EnumeratedIsOfBank DEF RowsOf, Swept

LEMMA KeepsRowsLink == RowsLink /\ [Next]_vars => RowsLink'
<1> SUFFICES ASSUME RowsLink, [Next]_vars  PROVE RowsLink'
  OBVIOUS
<1>1. ASSUME NEW p \in Proc, NEW bank \in WorkingBanks, WriteRows(p, bank)  PROVE RowsLink'
  BY <1>1, RowsAreOfBank DEF WriteRows, RowsLink
<1>2. CASE UNCHANGED rows
  BY <1>2 DEF RowsLink
<1> QED
  BY <1>1, <1>2 DEF Next, vars, files, Edit, StartBench, Launch, StartAnalyse, Analyse, Load,
     StartReplay, WriteEvidence, StartLatency, WriteLatency, Assess, WriteFreeze, StartFinal,
     Judge, CheckUnpublished, Stage, Rename, Die

(* No row of a working bank says anything of a sealed scenario whose play  *)
(* depends on its seed (`seeds.final_holdout_bank`).                       *)
THEOREM SealedSeedsAreFreshHolds == Spec => []SealedSeedsAreFresh
<1>1. Init => RowsLink
  BY RowsAreOfBank DEF Init, RowsLink
<1>2. RowsLink => SealedSeedsAreFresh
  <2> SUFFICES ASSUME RowsLink, NEW b \in WorkingBanks, rows[b] # Nothing,
                      NEW scenario \in rows[b].over,
                      scenario \in EverSealed
               PROVE  scenario[1] = "plain"
    BY DEF SealedSeedsAreFresh
  <2>1. PICK sealed \in {"final_holdout", "final_holdout_v2", "final_holdout_v3"} :
          scenario \in Enumerated(sealed, Frozen)
    BY DEF EverSealed, SealedSet, SealedSetV2, SealedSetV3, FinalHoldout
  <2>2. OfBank(b, scenario) /\ OfBank(sealed, scenario)
    BY <2>1, EnumeratedIsOfBank DEF RowsLink
  <2>3. b # sealed
    BY DEF WorkingBanks
  <2> QED  BY <2>2, <2>3 DEF OfBank
<1> QED  BY <1>1, <1>2, KeepsRowsLink, PTL DEF Spec
=============================================================================
