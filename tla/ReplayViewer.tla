----------------------------- MODULE ReplayViewer -----------------------------
(***************************************************************************)
(* The viewer of an official log (`open_replay`, `ReplaySession`,          *)
(* `replay_main`): read the document, check the configuration it names,    *)
(* rebuild every step from the commit entries, walk the steps, and report  *)
(* an exit status. Between its writing and its reading the file may have   *)
(* been changed by a hand that is not the program's, once.                 *)
(*                                                                         *)
(* The viewer never plays: it reads `doc` and nothing else. It checks the  *)
(* digests and the rules, and neither the answers nor the scent.           *)
(***************************************************************************)
EXTENDS SubGameLog, FiniteSets, SequencesExt

VARIABLES
  altered,  \* history: what was changed in the stored log, "none" if nothing
  config,   \* the configuration file named beside the log
  steps,    \* `ReplaySession.steps`, built once when the log is opened
  viewer,   \* "closed", "open", "refused" (a `ReplayError`) or "broken"
            \* (a traceback)
  cursor,   \* `ReplaySession.cursor`
  exit      \* the status `main` returned, Running before

Running == -1
view == <<steps, viewer, cursor, exit>>
vars == <<play, ended, doc, altered, config, view>>

Commits(d) == {i \in DOMAIN d.entries : d.entries[i].phase = "commit"}

-----------------------------------------------------------------------------
(* The hand that changes the file: one member, one entry, or the tail.     *)

With(i, member, value) == [doc EXCEPT !.entries = [@ EXCEPT ![i] = (member :> value) @@ @]]
Without(f, member) == [x \in DOMAIN f \ {member} |-> f[x]]

Alterations ==
  LET forged(k, p) == <<"forged", k, p>>
      fresh(t) == Digest(t.step, t, forged(t.step, t.role))
      kept == {i \in DOMAIN doc.entries : doc.entries[i].step < Len(played)}
  IN [turn |-> UNION {{With(i, "turn", t) : t \in Near(doc.entries[i].turn)} : i \in Commits(doc)},
      commit |-> {With(i, "commit", fresh(doc.entries[i].turn)) : i \in Commits(doc)},
      step |-> {With(i, "step", k) : i \in Commits(doc), k \in Rounds},
      nonce |-> {[doc EXCEPT !.nonces = [@ EXCEPT ![kp] = forged(kp[1], kp[2])]] : kp \in DOMAIN doc.nonces},
      undisclosed |-> {[doc EXCEPT !.nonces = Without(@, kp)] : kp \in DOMAIN doc.nonces},
      shape |-> {[doc EXCEPT !.entries = [@ EXCEPT ![i] = Without(@, member)]]
                   : i \in Commits(doc), member \in {"turn", "commit", "step"}}
                \cup {With(i, "turn", Without(doc.entries[i].turn, "action")) : i \in Commits(doc)}
                \cup {Without(doc, "semantic")},
      reveal |-> {With(i, "words", "reworded") : i \in {i \in DOMAIN doc.entries : doc.entries[i].phase = "reveal"}},
      tail |-> {[doc EXCEPT !.entries = SubSeq(@, 1, Cardinality(kept))]}]

(* Bound: the file is changed at most once, and only the log of a sub-game *)
(* both sides played by the rules (another one is already accused).        *)
Alter ==
  /\ doc # None /\ viewer = "closed" /\ altered = "none" /\ config = "locked"
  /\ strayed = "none"
  /\ \E how \in DOMAIN Alterations : \E d \in Alterations[how] \ {doc} :
       doc' = d /\ altered' = how
  /\ UNCHANGED <<play, ended, config, view>>

(* The configuration named beside the log is not the one it was played on. *)
NameAnother ==
  /\ doc # None /\ viewer = "closed" /\ altered = "none" /\ config = "locked"
  /\ config' = "another"
  /\ UNCHANGED <<play, ended, doc, altered, view>>

-----------------------------------------------------------------------------
(* Reading and rebuilding.                                                 *)

(* `read_log`, `open_replay` and `_grouped`: everything whose absence is a *)
(* `ReplayError`, a sentence and the exit status 2.                        *)
Readable ==
  /\ "semantic" \in DOMAIN doc
  /\ \A i \in Commits(doc) : {"turn", "commit", "step"} \subseteq DOMAIN doc.entries[i]
  /\ config = doc.config

(* `_turn`: nobody asked whether an entry has an action before it is       *)
(* decoded.                                                                *)
Decodable == \A i \in Commits(doc) : "action" \in DOMAIN doc.entries[i].turn

(* `_grouped`: the commit entries that name this step, in the log's order. *)
AtStep(k) == SelectSeq(doc.entries, LAMBDA e : e.phase = "commit" /\ e.step = k)
Numbers == SetToSortSeq({doc.entries[i].step : i \in Commits(doc)}, <)

(* `check_commit`: recomputed under the entry's own step and nonce, and    *)
(* compared with the digest the entry itself carries.                      *)
CheckCommit(e) ==
  IF <<e.step, e.turn.role>> \notin DOMAIN doc.nonces THEN "NOT_CHECKABLE"
  ELSE IF Reproduces(e.commit, e.step, e.turn, doc.nonces[<<e.step, e.turn.role>>])
  THEN "VERIFIED_OK" ELSE "TAMPERED"

(* `_reveal`: the first reveal entry of that step and role is displayed.   *)
Revealed(k, p) == SelectSeq(doc.entries, LAMBDA e : e.phase = "reveal" /\ e.step = k /\ e.role = p)

(* One `ReplayTurn`: what is displayed of one side's turn.                 *)
Shown(e) ==
  [role |-> e.turn.role, cell |-> e.turn.cell, action |-> e.turn.action, check |-> CheckCommit(e),
   words |-> IF Revealed(e.turn.step, e.turn.role) = <<>> THEN None
             ELSE Revealed(e.turn.step, e.turn.role)[1].words]

(* `Replay.apply` over the step's turns: what a turn places is added to    *)
(* the board the previous one left, or the placement raises.               *)
ApplyStep(r, turns) ==
  LET after[i \in 0 .. Len(turns)] ==
        IF i = 0 THEN [replay |-> r, raised |-> FALSE]
        ELSE [replay |-> Apply(after[i - 1].replay, turns[i]),
              raised |-> after[i - 1].raised \/ Raises(after[i - 1].replay, turns[i])]
  IN after[Len(turns)]

(* `_build`: every step is checked and then applied, whatever it showed.   *)
Session ==
  LET built[n \in 0 .. Len(Numbers)] ==
        IF n = 0 THEN [replay |-> Opening, raised |-> FALSE, steps |-> <<>>]
        ELSE LET entries == AtStep(Numbers[n])
                 turns == [i \in DOMAIN entries |-> entries[i].turn]
                 r == built[n - 1].replay
                 next == ApplyStep(r, turns)
             IN [replay |-> next.replay,
                 raised |-> built[n - 1].raised \/ next.raised,
                 steps |-> Append(built[n - 1].steps,
                   [number |-> Numbers[n], turns |-> [i \in DOMAIN entries |-> Shown(entries[i])],
                    cells |-> next.replay.cells, blocked |-> next.replay.blocked,
                    semantic |-> Check(r, turns)])]
  IN built[Len(Numbers)]

(* `ReplaySession` is built whole when it is opened; only a `ReplayError`  *)
(* is caught, so an action that is not there, or a placement that raises,  *)
(* ends the command in a traceback.                                        *)
Open ==
  /\ doc # None /\ viewer = "closed"
  /\ \/ ~Readable /\ viewer' = "refused" /\ exit' = 2 /\ UNCHANGED steps
     \/ Readable /\ ~Decodable /\ viewer' = "broken" /\ exit' = 1 /\ UNCHANGED steps
     \/ /\ Readable /\ Decodable
        /\ IF Session.raised
           THEN viewer' = "broken" /\ exit' = 1 /\ UNCHANGED steps
           ELSE viewer' = "open" /\ steps' = Session.steps /\ UNCHANGED exit
  /\ UNCHANGED <<play, ended, doc, altered, config, cursor>>

-----------------------------------------------------------------------------
(* Walking and reporting.                                                  *)

End == Len(steps)

(* `next` and `previous` stop at the ends of the sequence, and `_at`       *)
(* refuses to show a step where there is none.                             *)
Forward == IF cursor < End THEN cursor + 1 ELSE End
Back == IF cursor > 1 THEN cursor - 1 ELSE 1

Navigate ==
  /\ viewer = "open" /\ exit = Running /\ steps # <<>>
  /\ cursor' \in {1, End, Forward, Back}
  /\ UNCHANGED <<play, ended, doc, altered, config, steps, viewer, exit>>

(* `summary`: the worst check, and one of the findings other than the      *)
(* consistent one (the alphabetically first; the exit status needs only    *)
(* whether there is one).                                                  *)
Checks == UNION {{s.turns[i].check : i \in DOMAIN s.turns} : s \in Range(steps)}
Worst == IF "TAMPERED" \in Checks THEN "TAMPERED"
         ELSE IF "NOT_CHECKABLE" \in Checks THEN "NOT_CHECKABLE"
         ELSE IF "VERIFIED_OK" \in Checks THEN "VERIFIED_OK" ELSE "NOT_APPLICABLE"
Verdicts == {s.semantic : s \in Range(steps)} \ {"CONSISTENT"}

(* Mutant: an audit that could not be made is reported as a clean one.     *)
StatusForgiving == IF Worst = "TAMPERED" \/ Verdicts # {} THEN 3 ELSE 0

(* `report`: 3 accuses, 4 says something could not be checked.             *)
Status ==
  IF Worst = "TAMPERED" \/ Verdicts # {} THEN 3
  ELSE IF Worst = "VERIFIED_OK" THEN 0 ELSE 4

Report ==
  /\ viewer = "open" /\ exit = Running
  /\ exit' = Status
  /\ UNCHANGED <<play, ended, doc, altered, config, steps, viewer, cursor>>

Init == InitPlay /\ altered = "none" /\ config = "locked"
        /\ viewer = "closed" /\ steps = <<>> /\ cursor = 1 /\ exit = Running

Next ==
  \/ (PlayRound \/ Close) /\ UNCHANGED <<altered, config, view>>
  \/ Alter \/ NameAnother \/ Open \/ Navigate \/ Report

Spec == Init /\ [][Next]_vars

-----------------------------------------------------------------------------
(* The two players really stood there, and that was the board.             *)
AfterStep(k) ==
  [cells |-> [p \in Peer |-> CellAfter(played[k][p].live.cell, played[k][p].live.action)],
   blocked |-> UNION {Placed(played[j][p].live.action) : j \in 1 .. k, p \in Peer}]

(* The log of a sub-game both sides played by the rules replays to the     *)
(* end: every step shows the cells and the board of the play, the step     *)
(* under the cursor included, every digest verifies, the status is 0, and  *)
(* the review gave it the end event the play reached                       *)
(* (`ReplaySession._build`, `finalized_log`, `closed_sub_game`).           *)
HonestLogReplays ==
  doc # None /\ strayed = "none" /\ altered = "none" /\ config = "locked" =>
    /\ ended = Outcome /\ doc.tampered = 0 /\ doc.semantic = Consistent
    /\ viewer \notin {"refused", "broken"}
    /\ viewer = "open" =>
         /\ Len(steps) = Len(played)
         /\ LET s == steps[cursor]
            IN [cells |-> s.cells, blocked |-> s.blocked] = AfterStep(cursor)
    /\ exit \in {Running, 0}

(* Whatever single sealed member, digest or nonce of a log is changed or   *)
(* removed, or whichever step an entry claims, the viewer does not report  *)
(* a clean and complete audit (`check_commit`, `worst_check`, `report`).   *)
AlterationIsNoticed ==
  altered \in {"turn", "commit", "step", "nonce", "undisclosed", "shape"} => exit # 0

(* The side that played by the rules is never the one its own review finds *)
(* at fault, provided the peer's disclosure restated what it had locked:   *)
(* `review_sub_game` judges the disclosed turns, whose audit may have      *)
(* failed, and only then may it blame us for an answer to another action.  *)
HonestIsNotBlamed ==
  doc # None /\ altered = "none" /\ TamperedStep = 0 => doc.semantic.fault # own

(* Honest play stands: its log replays clean to the end, and it is blamed  *)
(* for nothing the other side did.                                         *)
HonestyStands == HonestLogReplays /\ HonestIsNotBlamed

(* An unaltered log is never refused, and the viewer's own walk over the   *)
(* disclosed turns shows its first violation at the step the review        *)
(* recorded, where that is one of trajectory or legality, and nothing up   *)
(* to the step recorded where it is not. The verdict is the same too if    *)
(* the log lists the police first, as the review does. It breaks only on a *)
(* log whose review found something (`review_sub_game`, `Replay`).         *)
ReplayRepeatsReview ==
  doc # None /\ altered = "none" /\ config = "locked" /\ viewer # "closed" =>
    LET found == doc.semantic
        walked == IF viewer = "broken" THEN Session.steps ELSE steps
        first == First([n \in DOMAIN walked |-> walked[n].semantic])
        legal == {"WRONG_START", "BROKEN_TRAJECTORY", "WRONG_BARRIER_SET", "ILLEGAL_ACTION"}
    IN /\ viewer # "refused"
       /\ viewer = "broken" => found # Consistent
       /\ found.verdict \in legal =>
            /\ first = found.step
            /\ own = Police => walked[first].semantic = found.verdict
       /\ found.verdict \notin legal /\ found # Consistent => first = 0 \/ first > found.step
       /\ found = Consistent => first = 0
=============================================================================
