---------------------------- MODULE CountedRecord ----------------------------
(***************************************************************************)
(* The official record of one counted series, as one group's gateway       *)
(* collects, agrees, writes and reports it. The role backends hand over    *)
(* the row, the entry and the two documents of each sub-game; the last     *)
(* backend settles the consensus digest with the peer and asks for the     *)
(* result agreement; then 2N + 2 files are stored one by one, the result   *)
(* last, and the written result is reported. The report, with the mail     *)
(* provider and every later invocation of it, is `Reporting`, whose        *)
(* `agreed` becomes true when a result is on the disk.                     *)
(*                                                                         *)
(* The gateway is a process: it may meet a disk fault, die anywhere, and   *)
(* be started again on the same disk for the same game, as a rehearsal or  *)
(* counted, with the series then played anew. `KitSeries` interleaves the  *)
(* two backends; here their hand-overs are taken in the order of play, and *)
(* what they carry is looked at.                                           *)
(***************************************************************************)
EXTENDS Reporting, FiniteSetsExt

CONSTANTS SubGames,     \* `SUB_GAMES`
          Facts,        \* what a start of the gateway may meet: see `facts`
          MaxAttempts   \* Bound: how often the gateway is started

ASSUME RecordAssumption == SubGames \in Nat \ {0} /\ MaxAttempts \in Nat /\ "gateway" \in Invocations

VARIABLES
  attempt,  \* which start of the gateway this is
  facts,    \* this start: whether it is counted, the declaration's content,
            \*   the outcomes each side recorded, and the commits they deployed
  held,     \* how many hand-overs the gateway's collectors hold
  settled,  \* `SeriesResultOwner.agreed`: the consensus digest, or NoDigest
  mutual,   \* `GroupResultAgreement.is_agreed`
  stage,    \* where the gateway is
  next,     \* the position of the file being stored
  staged,   \* whether that file's temporary copy is complete
  disk      \* the official files

memory == <<held, settled, mutual, next, staged>>
gateway == <<attempt, facts, memory, stage, disk>>
recordVars == <<gateway, vars>>

Games == 1 .. SubGames
Groups == {"us", "them"}
NoDigest == <<>>
Absent == [kind |-> "absent"]

-----------------------------------------------------------------------------
(* Rows, the consensus scope and the result core.                          *)

(* `score_for`: the police's and the thief's points.                       *)
ScoreFor(outcome) ==
  CASE outcome = "CAPTURE" -> [cop |-> 20, thief |-> 5]
    [] outcome = "SURVIVAL" -> [cop |-> 5, thief |-> 10]
    [] outcome = "TECHNICAL_LOSS" -> [cop |-> 0, thief |-> 0]

(* The roles alternate; we are the police of the odd sub-games.            *)
PoliceOf(n) == IF n % 2 = 1 THEN "us" ELSE "them"

(* `settled_row`: the row each side builds from the outcome it reached.    *)
Row(n, outcome) ==
  [sub_game |-> n, police |-> PoliceOf(n), result |-> outcome,
   score |-> [g \in Groups |-> IF g = PoliceOf(n) THEN ScoreFor(outcome).cop
                               ELSE ScoreFor(outcome).thief]]
RowsOf(outcomes) == [n \in Games |-> Row(n, outcomes[n])]

Winner(score) ==
  IF \E g \in Groups : \A h \in Groups \ {g} : score[g] > score[h]
  THEN CHOOSE g \in Groups : \A h \in Groups \ {g} : score[g] > score[h] ELSE "neither"

(* `_aggregate`: a tied series gives each group two points more.           *)
Aggregate(rows) ==
  LET total == [g \in Groups |-> MapThenSumSet(LAMBDA n : rows[n].score[g], Games)]
      tied == total["us"] = total["them"]
  IN [total_score |-> [g \in Groups |-> IF tied THEN total[g] + 2 ELSE total[g]],
      sub_games_won |-> [g \in Groups |-> Quantify(Games, LAMBDA n : Winner(rows[n].score) = g)],
      winner_group |-> Winner(total)]

(* `consensus_scope`, and with it the digest: two scopes hash alike only   *)
(* if they are the same.                                                   *)
ConsensusScope(rows) == <<Aggregate(rows), rows>>

(* `line_of`: a row by the role each group played.                         *)
Line(row) ==
  [sub_game |-> row.sub_game, cop |-> row.score[row.police],
   thief |-> row.score[CHOOSE g \in Groups : g # row.police], outcome |-> row.result]

(* `role_totals` and `series_outcome_of`.                                  *)
Cumulative(rows) ==
  LET cop == MapThenSumSet(LAMBDA n : Line(rows[n]).cop, Games)
      thief == MapThenSumSet(LAMBDA n : Line(rows[n]).thief, Games)
  IN [cop |-> cop, thief |-> thief,
      outcome |-> IF cop = thief THEN "tie" ELSE IF cop > thief THEN "cop" ELSE "thief"]

(* The approval core each side digests: its own rows as lines, and both    *)
(* contributions.                                                          *)
ApprovalCore(rows, commits) ==
  <<[n \in Games |-> Line(rows[n])], commits, Cumulative(rows)>>

-----------------------------------------------------------------------------
(* The files, in the order they are written.                               *)

Last == 2 * SubGames + 2
Names == {<<"declaration", 0>>, <<"result", 0>>} \cup {"config", "log"} \X Games

(* Mutant: the result is written before the last log.                      *)
NameResultEarly(i) ==
  IF i = 1 THEN <<"declaration", 0>> ELSE IF i = Last - 1 THEN <<"result", 0>>
  ELSE IF i = Last THEN <<"log", SubGames>> ELSE <<IF i % 2 = 0 THEN "config" ELSE "log", i \div 2>>

(* `CountedSeriesWriter.write`: the declaration, a configuration and a log *)
(* for every sub-game, and the result.                                     *)
Name(i) ==
  IF i = 1 THEN <<"declaration", 0>> ELSE IF i = Last THEN <<"result", 0>>
  ELSE <<IF i % 2 = 0 THEN "config" ELSE "log", i \div 2>>

(* What this attempt would store there. A configuration carries the nonce  *)
(* of its greeting, a log those of its turns, and a result the time it is  *)
(* written, so that none is the same in two attempts.                      *)
ConfigDocument(n) == [kind |-> "config", sub_game |-> n, attempt |-> attempt]
LogDocument(n) == [kind |-> "log", sub_game |-> n, attempt |-> attempt, result |-> facts.us[n]]

(* `kit_result_document`: the gateway's own rows, and the settled digest.  *)
ResultDocument ==
  LET rows == RowsOf(facts.us)
  IN [kind |-> "result", attempt |-> attempt, rows |-> rows,
      cumulative |-> Cumulative(rows), consensus |-> settled]

Content(i) ==
  LET n == Name(i)[2]
  IN CASE Name(i)[1] = "declaration" -> [kind |-> "declaration", text |-> facts.declared]
       [] Name(i)[1] = "config" -> ConfigDocument(n)
       [] Name(i)[1] = "log" -> LogDocument(n)
       [] Name(i)[1] = "result" -> ResultDocument

-----------------------------------------------------------------------------
(* Collecting.                                                             *)

Forget ==
  held' = 0 /\ settled' = NoDigest /\ mutual' = FALSE /\ next' = 1 /\ staged' = FALSE

(* A call failed, and none of them is repeated: what the gateway still     *)
(* holds is of no further use.                                             *)
GiveUp == stage' = "failed" /\ Forget

(* A launch document was given: the declaration comes first.               *)
RecordInit ==
  /\ Init /\ ~agreed
  /\ attempt = 1 /\ facts \in Facts /\ held = 0 /\ settled = NoDigest /\ mutual = FALSE
  /\ stage = "declaring" /\ next = 1 /\ staged = FALSE
  /\ disk = [name \in Names |-> Absent]

(* Each sub-game hands over its row, its entry and its two documents.      *)
Parts == 4 * SubGames
PartAt(k) == <<"row", "entry", "config", "log">>[((k - 1) % 4) + 1]

(* `SeriesParts.ready`, and the mutual agreement `series_writer` asks for: *)
(* only a counted run writes, and only a series both groups agreed.        *)
WritesOut(count, digest, both) ==
  facts.counted /\ both /\ count = Parts /\ digest # NoDigest

(* `write_series` runs after every hand-over, and after the agreement.     *)
WriteSeries ==
  /\ stage' = IF WritesOut(held', settled', mutual') THEN "writing" ELSE "collecting"
  /\ next' = 1 /\ staged' = FALSE

(* `admit`: an entry carries the commit declared for the role it played. A *)
(* rehearsal drops entries unread.                                         *)
Admitted(part) ==
  part = "entry" /\ facts.counted => facts.deployed["us"] = "declared"

HandOver ==
  /\ stage = "collecting" /\ held < Parts
  /\ IF Admitted(PartAt(held + 1))
     THEN held' = held + 1 /\ UNCHANGED <<settled, mutual>> /\ WriteSeries
     ELSE GiveUp
  /\ UNCHANGED <<attempt, facts, disk>>

(* `BackendSettlement.settle` and `series_settled`: the two digests are    *)
(* compared, and a series they do not agree on is left unsettled. The      *)
(* window may also close first.                                            *)
SettleSeries ==
  /\ stage = "collecting" /\ held = Parts /\ settled = NoDigest
  /\ \/ /\ ConsensusScope(RowsOf(facts.us)) = ConsensusScope(RowsOf(facts.them))
        /\ settled' = ConsensusScope(RowsOf(facts.us))
        /\ UNCHANGED <<held, mutual>> /\ WriteSeries
     \/ GiveUp
  /\ UNCHANGED <<attempt, facts, disk>>

(* `agree_result`: a rehearsal kept no entries, so it has no exchange. The *)
(* cores are compared once each side holds the other's contribution, whose *)
(* commits it checks against the declaration. An exchange may also fail.   *)
AgreeResult ==
  /\ stage = "collecting" /\ settled # NoDigest /\ facts.counted /\ ~mutual
  /\ \/ /\ facts.deployed["them"] = "declared"
        /\ ApprovalCore(RowsOf(facts.us), facts.deployed)
             = ApprovalCore(RowsOf(facts.them), facts.deployed)
        /\ mutual' = TRUE
        /\ UNCHANGED <<held, settled>> /\ WriteSeries
     \/ GiveUp
  /\ UNCHANGED <<attempt, facts, disk>>

-----------------------------------------------------------------------------
(* Storing: `JsonArtifactStore.store`, one file at a time.                 *)

Storing == stage \in {"declaring", "writing"}
Stored == disk[Name(next)]

(* The next file, or what follows the last one.                            *)
Advance ==
  /\ stage' = IF stage = "declaring" THEN "collecting"
              ELSE IF next = Last THEN "written" ELSE "writing"
  /\ next' = IF stage' = "writing" THEN next + 1 ELSE 1

(* `_replace`: the content is written and synced under a temporary name... *)
Stage ==
  /\ Storing /\ ~staged /\ Stored = Absent
  /\ staged' = TRUE
  /\ UNCHANGED <<attempt, facts, held, settled, mutual, stage, next, disk, vars>>

(* ...which replaces the official one in a single step.                    *)
Replace ==
  /\ Storing /\ staged
  /\ disk' = [disk EXCEPT ![Name(next)] = Content(next)]
  /\ staged' = FALSE /\ Advance
  /\ IF Name(next) = <<"result", 0>> THEN Publish ELSE UNCHANGED vars
  /\ UNCHANGED <<attempt, facts, held, settled, mutual>>

(* Mutant: a file of another attempt is replaced.                          *)
CollidesNever == FALSE

(* An official file is never overwritten with another content.             *)
Collides == Stored # Absent /\ Stored # Content(next)

StoreAgain ==
  /\ Storing /\ ~staged /\ Stored # Absent
  /\ IF Collides THEN GiveUp /\ UNCHANGED disk
     ELSE /\ Advance
          /\ disk' = [disk EXCEPT ![Name(next)] = Content(next)]
          /\ UNCHANGED <<held, settled, mutual, staged>>
  /\ UNCHANGED <<attempt, facts, vars>>

(* The disk refuses: the temporary copy is removed and the call fails.     *)
Fault ==
  /\ Storing
  /\ GiveUp
  /\ UNCHANGED <<attempt, facts, disk, vars>>

-----------------------------------------------------------------------------
(* The gateway dies, and the report it was making with it. A temporary     *)
(* copy may stay, under no official name.                                  *)
Crash ==
  /\ stage # "down"
  /\ stage' = "down" /\ Forget
  /\ IF run["gateway"].pc \in Active THEN Die("gateway") ELSE UNCHANGED vars
  /\ UNCHANGED <<attempt, facts, disk>>

Restart ==
  /\ stage = "down" /\ attempt < MaxAttempts
  /\ attempt' = attempt + 1 /\ facts' \in Facts
  /\ stage' = "declaring"
  /\ UNCHANGED <<memory, disk, vars>>

(* `_report`: the gateway reports the result right after it wrote it; an   *)
(* operator whenever he likes.                                             *)
Report ==
  /\ \E i \in Invocations :
       \/ Start(i) /\ (i = "gateway" => stage = "written")
       \/ Proceed(i) \/ Die(i)
  /\ UNCHANGED gateway

RecordNext ==
  \/ (HandOver \/ SettleSeries \/ AgreeResult) /\ UNCHANGED vars
  \/ Stage \/ Replace \/ StoreAgain \/ Fault \/ Crash \/ Restart \/ Report

RecordSpec == RecordInit /\ [][RecordNext]_recordVars

-----------------------------------------------------------------------------
(* Whoever finds a result on the disk finds the whole set beside it, every *)
(* configuration and log from the very attempt whose result it is, with    *)
(* the outcome of its row, of a counted run, and of a series both groups   *)
(* recorded alike (`CountedSeriesWriter.write`, `SeriesParts.ready`). Nor  *)
(* does a series settle that both did not record alike, not even one whose *)
(* totals and sub-games won are the same (`consensus_scope`, `agrees`).    *)
ResultCompletesTheSet ==
  LET result == disk[<<"result", 0>>]
  IN /\ result # Absent =>
          /\ \A name \in Names : disk[name] # Absent
          /\ \A name \in {"config", "log"} \X Games : disk[name].attempt = result.attempt
          /\ \A n \in Games : disk[<<"log", n>>].result = result.rows[n].result
          /\ result.consensus = ConsensusScope(result.rows)
          /\ result.attempt = attempt =>
               facts.counted /\ RowsOf(facts.them) = result.rows /\ facts.deployed["us"] = "declared"
     /\ settled # NoDigest => RowsOf(facts.us) = RowsOf(facts.them)

(* What is on the disk under an official name stays as it is, whoever is   *)
(* started again for the same game ("an official artifact is never         *)
(* overwritten", `JsonArtifactStore.store`).                               *)
WrittenOnce ==
  [][\A name \in Names : disk[name] # Absent => disk'[name] = disk[name]]_recordVars
=============================================================================
