-------------------------- MODULE KitSeries_proofs --------------------------
(***************************************************************************)
(* What is proved of a group's series, for any number of sub-games from    *)
(* two on and whatever the peer leaves out, says twice or says early: one  *)
(* inductive invariant, `KitInv`, carries the three invariants that the    *)
(* run checks and the refinement of `GroupSeries`.                         *)
(***************************************************************************)
EXTENDS KitSeries, FiniteSetTheorems, TLAPS

(* Where a backend stands once it handed its sub-game back.                *)
After == {"opening", "rows", "settle", "report", "agree", "linger", "done"}

(* The peer is at one of these stages, or a call of one is under way.      *)
Doing(S) == peer.stage \in S \/ \E call \in calls : call.tool \in S

Later == {"receive_turn", "submit_audit", "settlement", "result", "over"}

Greeted(n) == <<"negotiate", n>> \in peer.heard

(* The peer's disclosure of its sub-game may still be to come.             *)
Undisclosed ==
  /\ Doing({"negotiate", "receive_turn", "submit_audit"})
  /\ ~(peer.stage = "submit_audit" /\ peer.acked)

BackendShape ==
  /\ DOMAIN backend = Roles
  /\ \A r \in Roles :
       /\ DOMAIN backend[r] = {"pc", "number", "greeting", "turn", "audit", "settlement", "delivered"}
       /\ backend[r].pc \in {"booting", "greet", "dead"} \cup Playing \cup After
       /\ backend[r].number \in SubGame

Shape ==
  /\ BackendShape
  /\ DOMAIN peer = {"game", "stage", "acked", "heard"}
  /\ peer.game \in SubGame
  /\ peer.stage \in Stages \cup {"over", "gone"}
  /\ DOMAIN series = {"agreed", "sent", "handled", "written"}
  /\ collected \in [Parts -> SUBSET SubGame]
  /\ cursor \in SubGame

(* There is one call at most, and it is of what the peer does.             *)
CallLink ==
  \A call \in calls :
    /\ calls = {call}
    /\ call = [tool |-> call.tool, game |-> peer.game, at |-> call.at]
    /\ call.tool \in Stages
    /\ call.at \in Roles \cup {"gateway"}
    /\ peer.stage \in {call.tool, "gone"}
    /\ ~peer.acked
    /\ call.tool = "result" => call.at = "gateway"
    /\ call.at \in Roles => call.at = Owner(cursor)
    /\ call.at \in Roles /\ facts.declares => cursor = peer.game

(* The cursor follows the peer, a sub-game behind at most.                 *)
PeerLink ==
  /\ cursor <= peer.game
  /\ peer.game <= cursor + 1
  /\ Doing(Later) => cursor = peer.game /\ Greeted(peer.game)
  /\ facts.declares /\ peer.stage = "negotiate" /\ peer.acked => cursor = peer.game
  /\ ~facts.early /\ (peer.acked \/ calls # {}) => Booted
  /\ \A n \in SubGame : <<"gone", n>> \notin peer.heard

(* What has been said and collected where a backend stands.                *)
PathLink(r) ==
  LET one == backend[r]
  IN /\ one.pc = "booting" => one.number = 1
     /\ one.pc \notin {"booting", "dead"} => Owner(one.number) = r
     /\ one.pc = "opening" => one.number + 2 <= SubGames
     /\ one.pc = "greet" => one.number <= cursor + 2
     /\ one.pc \in Playing \cup After => Greeted(one.number)
     /\ one.pc \in Reporting \cup After => one.audit # 0
     /\ one.pc \in After => HandedOn(one.number)

(* ... and of the reports.                                                 *)
ReportLink(r) ==
  LET one == backend[r]
  IN /\ one.pc \in {"entry", "documents", "settled"} => one.number \in collected["row"]
     /\ one.pc \in {"documents", "settled"} => one.number \in collected["entry"]
     /\ one.pc = "settled" => one.number \in collected["documents"]
     /\ one.pc \in {"rows", "settle", "report", "agree"} => one.number = SubGames
     /\ one.pc = "report" => one.delivered /\ one.settlement /\ facts.sameRows
     /\ one.pc = "agree" => series.agreed
     /\ one.delivered => <<"settlement", SubGames>> \in peer.heard

(* What a peer that declares has said is for the live sub-game.            *)
GreetLink(r) ==
  LET one == backend[r]
  IN facts.declares =>
       /\ one.greeting \in {0, one.number}
       /\ one.pc = "greet" /\ one.greeting # 0 => cursor = one.number
       /\ one.pc \in Playing => cursor = one.number /\ ~ready

(* A sub-game that was handed on is behind its backend.                    *)
ReadyLink(r) ==
  LET one == backend[r]
  IN ready /\ r = Owner(cursor) =>
       /\ one.pc # "booting"
       /\ \/ one.number > cursor
          \/ one.number = cursor /\ one.pc \notin {"greet"} \cup Playing

HandedLink ==
  \A n \in SubGame :
    HandedOn(n) => Greeted(n) /\ \A part \in Parts : n \in collected[part]

HeardLink(r) ==
  \A n \in SubGame :
    Greeted(n) /\ r = Owner(n) =>
      LET one == backend[r]
      IN /\ one.pc # "booting"
         /\ one.number > n \/ (one.number = n /\ one.pc # "greet")

CursorLink == facts.declares => \A n \in SubGame : Greeted(n) => n <= cursor

(* The acknowledged greeting has been taken.                               *)
AckLink(r) ==
  LET one == backend[r]
  IN facts.declares /\ peer.stage = "negotiate" /\ peer.acked /\ r = Owner(peer.game) =>
       \/ one.pc = "dead"
       \/ one.number = peer.game /\ one.greeting = peer.game /\ one.pc # "booting"
       \/ one.number > peer.game
       \/ facts.early /\ peer.game = 1 /\ one.pc \in {"booting", "greet"}

SeriesLink == (series.sent => series.agreed) /\ AgreedIsWholeAndMutual

(* Of a peer whose disclosures are forwarded once.                         *)
AuditLink(r) ==
  LET one == backend[r]
  IN facts.audited =>
       /\ one.audit # 0 => one.audit = one.number /\ one.number <= peer.game
       /\ one.audit # 0 /\ Undisclosed => one.number # peer.game
       /\ Undisclosed /\ r = Owner(peer.game) /\ one.pc # "dead" => one.number <= peer.game
       /\ facts.declares => one.turn \in {0, one.number}

(* Of a peer that does not declare: it gets no further than its second     *)
(* greeting, which goes to the backend of the first sub-game again.        *)
SilentPeer ==
  ~facts.declares =>
    /\ cursor = 1
    /\ peer.game = 1 \/ (peer.game = 2 /\ ~Doing(Later))
    /\ \A n \in SubGame : Greeted(n) => Owner(n) = "police"

SilentThief ==
  LET one == backend["thief"]
  IN ~facts.declares =>
       one.pc \in {"booting", "greet", "dead"} /\ one.greeting = 0 /\ one.number <= 2

SilentPolice ==
  LET one == backend["police"]
  IN ~facts.declares =>
       /\ one.number \in {1, 3}
       /\ one.number = 3 => ready /\ one.turn = 0 /\ one.pc \in {"greet", "play", "dead"}
       /\ peer.game = 1 /\ Doing({"negotiate", "receive_turn"}) => one.number = 1 /\ one.audit = 0

SilentLink == SilentPeer /\ SilentThief /\ SilentPolice

RoleLink(r) ==
  /\ PathLink(r) /\ ReportLink(r) /\ GreetLink(r) /\ ReadyLink(r)
  /\ HeardLink(r) /\ AckLink(r) /\ AuditLink(r)

KitInv ==
  /\ Shape /\ CallLink /\ PeerLink /\ HandedLink /\ CursorLink /\ SeriesLink /\ SilentLink
  /\ \A r \in Roles : RoleLink(r)

-----------------------------------------------------------------------------
(* The two sides alternate.                                                *)
LEMMA Alternate ==
  ASSUME NEW n \in Nat
  PROVE  /\ Owner(n) \in Roles
         /\ Owner(n + 2) = Owner(n)
         /\ Owner(n + 1) # Owner(n)
         /\ Owner(1) = "police" /\ Owner(2) = "thief" /\ Owner(3) = "police"
  BY DEF Owner, Roles

LEMMA Numbers == SubGames \in Nat /\ SubGames >= 2 /\ SubGame \subseteq Nat /\ 1 \in SubGame /\ 2 \in SubGame
  BY SeriesAssumption DEF SubGame

(* Two numbers of one side are two apart.                                  *)
LEMMA Apart ==
  ASSUME NEW m \in Nat, NEW n \in Nat, Owner(m) = Owner(n), m < n
  PROVE  m + 2 <= n
<1>1. Owner(m + 1) # Owner(m)
  BY Alternate
<1>. QED  BY <1>1

LEMMA LeastNumber ==
  ASSUME NEW S \in SUBSET Nat, NEW m \in S, \A n \in S : m <= n
  PROVE  Min(S) = m
<1>1. \A x \in S : (\A y \in S : x <= y) => x = m
  <2>. SUFFICES ASSUME NEW x \in S, \A y \in S : x <= y
                PROVE  x = m
    OBVIOUS
  <2>1. x <= m /\ m <= x /\ x \in Nat /\ m \in Nat
    OBVIOUS
  <2>. QED  BY <2>1
<1>2. \A y \in S : Min(S) <= y
  BY DEF Min
<1>3. Min(S) \in S
  BY DEF Min
<1>. QED  BY <1>1, <1>2, <1>3

(* The sub-games a side opens: its first one, then the next but one.       *)
LEMMA FirstOwned == Min(Owned("police")) = 1 /\ Min(Owned("thief")) = 2
<1>1. 1 \in Owned("police") /\ \A n \in Owned("police") : 1 <= n
  BY Numbers, Alternate DEF Owned, SubGame
<1>2. 2 \in Owned("thief")
  BY Numbers, Alternate DEF Owned
<1>3. \A n \in Owned("thief") : 2 <= n
  <2>. SUFFICES ASSUME NEW n \in SubGame, Owner(n) = "thief", ~(2 <= n)
                PROVE  FALSE
    BY DEF Owned
  <2>1. n = 1
    BY Numbers DEF SubGame
  <2>. QED  BY <2>1, Alternate
<1>4. Owned("police") \in SUBSET Nat /\ Owned("thief") \in SUBSET Nat
  BY Numbers DEF Owned
<1>. QED  BY <1>1, <1>2, <1>3, <1>4, LeastNumber

LEMMA NextOwned ==
  ASSUME NEW r \in Roles, NEW m \in SubGame, Owner(m) = r
  PROVE  /\ (\E n \in Owned(r) : n > m) <=> m + 2 <= SubGames
         /\ m + 2 <= SubGames => Min({n \in Owned(r) : n > m}) = m + 2
<1>1. m \in Nat /\ SubGames \in Nat /\ m >= 1
  BY Numbers DEF SubGame
<1>2. m + 2 <= SubGames => m + 2 \in Owned(r) /\ m + 2 > m
  BY <1>1, Alternate DEF Owned, SubGame
<1>3. \A n \in Owned(r) : n > m => n \in Nat /\ m + 2 <= n /\ n <= SubGames
  BY <1>1, Apart, Numbers DEF Owned, SubGame
<1>4. {n \in Owned(r) : n > m} \in SUBSET Nat
  BY Numbers DEF Owned
<1>5. m + 2 <= SubGames => Min({n \in Owned(r) : n > m}) = m + 2
  <2>. SUFFICES ASSUME m + 2 <= SubGames
                PROVE  Min({n \in Owned(r) : n > m}) = m + 2
    OBVIOUS
  <2>. DEFINE S == {n \in Owned(r) : n > m}
  <2>1. m + 2 \in S /\ (\A n \in S : m + 2 <= n) /\ S \in SUBSET Nat
    BY <1>2, <1>3, <1>4
  <2>. HIDE DEF S
  <2>2. Min(S) = m + 2
    BY <2>1, LeastNumber
  <2>. QED  BY <2>2 DEF S
<1>. QED  BY <1>1, <1>2, <1>3, <1>5

-----------------------------------------------------------------------------
(* The invariant holds before anybody called.                              *)
LEMMA KitInit == Init => KitInv
<1>. SUFFICES ASSUME Init
              PROVE  KitInv
  OBVIOUS
<1>1. \A r \in Roles : backend[r] = Fresh
  BY DEF Init
<1>2. /\ cursor = 1 /\ ready = FALSE /\ calls = {} /\ series.agreed = FALSE /\ series.sent = FALSE
      /\ peer.game = 1 /\ peer.stage = "negotiate" /\ peer.acked = FALSE /\ peer.heard = {}
  BY DEF Init
<1>3. \A S : Doing(S) <=> "negotiate" \in S
  BY <1>2 DEF Doing
<1>4. \A n \in SubGame : ~HandedOn(n)
  BY <1>2, Numbers DEF HandedOn, SubGame
<1>5. Shape
  BY <1>1, <1>2, Numbers DEF Init, Fresh, Shape, BackendShape, Playing, After, Stages
<1>6. CallLink /\ PeerLink /\ HandedLink /\ CursorLink /\ SeriesLink
  BY <1>2, <1>3, <1>4, Numbers
  DEF CallLink, PeerLink, HandedLink, CursorLink, SeriesLink, AgreedIsWholeAndMutual, Later, Greeted
<1>7. SilentLink
  BY <1>1, <1>2, <1>3, Numbers
  DEF SilentLink, SilentPeer, SilentThief, SilentPolice, Fresh, Roles, Greeted, Later
<1>8. ASSUME NEW r \in Roles
      PROVE  RoleLink(r)
  <2>1. PathLink(r) /\ ReportLink(r) /\ GreetLink(r) /\ ReadyLink(r) /\ HeardLink(r)
    BY <1>1, <1>2 DEF Fresh, PathLink, ReportLink, GreetLink, ReadyLink, HeardLink, Greeted,
       Playing, Reporting, After, Parts
  <2>2. AckLink(r) /\ AuditLink(r)
    BY <1>1, <1>2 DEF Fresh, AckLink, AuditLink
  <2>. QED  BY <2>1, <2>2 DEF RoleLink
<1>. QED  BY <1>5, <1>6, <1>7, <1>8 DEF KitInv

-----------------------------------------------------------------------------
(* A step of the peer, of the gateway or of the network that moves neither *)
(* the cursor nor a backend, and tells the peer nothing.                   *)
Elsewhere ==
  /\ UNCHANGED <<cursor, collected, backend, facts>>
  /\ ready' <=> ready
  /\ peer'.heard = peer.heard
  /\ series'.agreed = series.agreed /\ series'.sent = series.sent

LEMMA ElsewhereKeeps ==
  ASSUME KitInv, Elsewhere
  PROVE  /\ HandedLink' /\ CursorLink' /\ SeriesLink'
         /\ \A r \in Roles :
              PathLink(r)' /\ ReportLink(r)' /\ GreetLink(r)' /\ ReadyLink(r)' /\ HeardLink(r)'
<1>0. HandedLink /\ CursorLink /\ SeriesLink
  BY DEF KitInv
<1>1. \A n : (Greeted(n)' <=> Greeted(n)) /\ (HandedOn(n)' <=> HandedOn(n))
  BY DEF Elsewhere, Greeted, HandedOn
<1>2. HandedLink' /\ CursorLink'
  BY <1>0, <1>1 DEF Elsewhere, HandedLink, CursorLink
<1>3. SeriesLink'
  BY <1>0 DEF Elsewhere, SeriesLink, AgreedIsWholeAndMutual, Complete
<1>4. ASSUME NEW r \in Roles
      PROVE  PathLink(r)' /\ ReportLink(r)' /\ GreetLink(r)' /\ ReadyLink(r)' /\ HeardLink(r)'
  <2>0. PathLink(r) /\ ReportLink(r) /\ GreetLink(r) /\ ReadyLink(r) /\ HeardLink(r)
    BY DEF KitInv, RoleLink
  <2>1. PathLink(r)'
    BY <1>1, <2>0 DEF Elsewhere, PathLink
  <2>2. ReportLink(r)'
    BY <2>0 DEF Elsewhere, ReportLink
  <2>3. GreetLink(r)' /\ ReadyLink(r)'
    BY <2>0 DEF Elsewhere, GreetLink, ReadyLink
  <2>4. HeardLink(r)'
    BY <1>1, <2>0 DEF Elsewhere, HeardLink
  <2>. QED  BY <2>1, <2>2, <2>3, <2>4
<1>. QED  BY <1>2, <1>3, <1>4

(* A step of backend r: what everybody else relies on is left alone, and   *)
(* what is said, collected and handed on stays so.                         *)
Acts(r) ==
  /\ UNCHANGED <<cursor, calls, facts>>
  /\ peer'.game = peer.game /\ peer'.stage = peer.stage /\ peer'.acked = peer.acked
  /\ \A x : x \in peer.heard => x \in peer'.heard
  /\ \A n \in SubGame : Greeted(n)' /\ ~Greeted(n) => Owner(n) = r
  /\ \A n \in SubGame : <<"gone", n>> \in peer'.heard => <<"gone", n>> \in peer.heard
  /\ \A q \in Roles : q # r => backend'[q] = backend[q]
  /\ backend[r].pc # "booting" => backend'[r].pc # "booting"
  /\ \A part \in Parts : \A n : n \in collected[part] => n \in collected'[part]
  /\ ready => ready'
  /\ ready' /\ ~ready => Owner(cursor) = r
  /\ series.agreed => series'.agreed

LEMMA SameStage ==
  ASSUME NEW r, Acts(r)
  PROVE  /\ \A S : Doing(S)' <=> Doing(S)
         /\ Undisclosed' <=> Undisclosed
  BY DEF Acts, Doing, Undisclosed

LEMMA ActsKeepsCalls ==
  ASSUME KitInv, NEW r \in Roles, Acts(r)
  PROVE  CallLink' /\ PeerLink'
<1>0. CallLink /\ PeerLink
  BY DEF KitInv
<1>1. CallLink'
  BY <1>0 DEF Acts, CallLink
<1>2. Booted => Booted'
  BY DEF Acts, Booted
<1>3. \A n : Greeted(n) => Greeted(n)'
  BY DEF Acts, Greeted
<1>4. \A S : Doing(S)' <=> Doing(S)
  BY SameStage
<1>5. PeerLink'
  BY <1>0, <1>2, <1>3, <1>4 DEF Acts, PeerLink
<1>. QED  BY <1>1, <1>5

LEMMA ActsKeepsOther ==
  ASSUME KitInv, NEW r \in Roles, Acts(r), NEW q \in Roles, q # r
  PROVE  RoleLink(q)'
<1>0. /\ PathLink(q) /\ ReportLink(q) /\ GreetLink(q) /\ ReadyLink(q) /\ HeardLink(q)
      /\ AckLink(q) /\ AuditLink(q) /\ Shape
  BY DEF KitInv, RoleLink
<1>1. backend'[q] = backend[q] /\ cursor' = cursor /\ facts' = facts
  BY DEF Acts
<1>2. \A n : (Greeted(n) => Greeted(n)') /\ (HandedOn(n) => HandedOn(n)')
  BY DEF Acts, Greeted, HandedOn
<1>3. PathLink(q)'
  BY <1>0, <1>1, <1>2 DEF PathLink
<1>4. ReportLink(q)'
  BY <1>0, <1>1 DEF Acts, ReportLink, Parts
<1>5. ReadyLink(q)'
  BY <1>0, <1>1 DEF Acts, ReadyLink
<1>6. GreetLink(q)'
  <2>1. CASE ready' => ready
    BY <1>0, <1>1, <2>1 DEF GreetLink
  <2>2. CASE ready' /\ ~ready
    <3>1. Owner(cursor) = r
      BY <2>2 DEF Acts
    <3>2. backend[q].pc \in Playing => Owner(backend[q].number) = q
      BY <1>0 DEF PathLink, Playing, Reporting, Parts
    <3>. QED  BY <1>0, <1>1, <3>1, <3>2 DEF GreetLink
  <2>. QED  BY <2>1, <2>2
<1>7. HeardLink(q)'
  BY <1>0, <1>1 DEF Acts, HeardLink
<1>8. AckLink(q)'
  BY <1>0, <1>1 DEF Acts, AckLink
<1>9. AuditLink(q)'
  BY <1>0, <1>1, SameStage DEF Acts, AuditLink
<1>. QED  BY <1>3, <1>4, <1>5, <1>6, <1>7, <1>8, <1>9 DEF RoleLink

(* A step of the backend on its way from its greeting to its end.          *)
Moves(r) ==
  /\ Acts(r)
  /\ \A n \in SubGame : Greeted(n)' => Greeted(n)
  /\ backend'[r].number = backend[r].number /\ backend'[r].greeting = backend[r].greeting
  /\ backend'[r].turn = backend[r].turn /\ backend'[r].audit = backend[r].audit
  /\ backend'[r].settlement = backend[r].settlement
  /\ backend[r].pc \in Playing \cup After /\ backend'[r].pc \in Playing \cup After
  /\ backend[r].pc \in After => backend'[r].pc \in After
  /\ backend[r].pc = "play" => backend[r].turn # 0
  /\ ready' /\ ~ready => backend'[r].pc \in After /\ backend[r].number = cursor

LEMMA Apartness == Playing \cap After = {} /\ {"booting", "greet", "dead"} \cap (Playing \cup After) = {}
  BY DEF Playing, Reporting, Parts, After

LEMMA MovesKeeps ==
  ASSUME KitInv, NEW r \in Roles, Moves(r)
  PROVE  /\ GreetLink(r)' /\ ReadyLink(r)' /\ HeardLink(r)' /\ AckLink(r)' /\ AuditLink(r)'
         /\ CursorLink' /\ SilentLink'
<1>0. /\ GreetLink(r) /\ ReadyLink(r) /\ HeardLink(r) /\ AckLink(r) /\ AuditLink(r)
      /\ CursorLink /\ SilentLink
  BY DEF KitInv, RoleLink
<1>1. /\ cursor' = cursor /\ facts' = facts
      /\ peer'.game = peer.game /\ peer'.stage = peer.stage /\ peer'.acked = peer.acked
  BY DEF Moves, Acts
<1>2. \A n \in SubGame : Greeted(n)' <=> Greeted(n)
  BY DEF Moves, Acts, Greeted
<1>3. \A S : Doing(S)' <=> Doing(S)
  BY SameStage DEF Moves
<1>4. Undisclosed' <=> Undisclosed
  BY SameStage DEF Moves
<1>5. GreetLink(r)'
  BY <1>0, <1>1, Apartness DEF Moves, GreetLink
<1>6. ReadyLink(r)'
  <2>1. CASE ~ready
    BY <1>1, <2>1, Apartness DEF Moves, ReadyLink
  <2>2. CASE ready
    BY <1>0, <1>1, <2>2, Apartness DEF Moves, ReadyLink
  <2>. QED  BY <2>1, <2>2
<1>7. HeardLink(r)'
  BY <1>0, <1>2, Apartness DEF Moves, HeardLink
<1>8. AckLink(r)'
  BY <1>0, <1>1, Apartness DEF Moves, AckLink
<1>9. AuditLink(r)'
  BY <1>0, <1>1, <1>4, Apartness DEF Moves, AuditLink
<1>10. CursorLink'
  BY <1>0, <1>1, <1>2 DEF CursorLink
<1>11. SilentPeer'
  BY <1>0, <1>1, <1>2, <1>3 DEF SilentLink, SilentPeer
<1>12. facts.declares \/ (r # "thief" /\ backend[r].number # 3)
  <2>1. facts.declares \/ r # "thief"
    BY <1>0, Apartness DEF SilentLink, SilentThief, Moves
  <2>2. facts.declares \/ r # "police" \/ backend[r].number # 3
    BY <1>0, Apartness DEF SilentLink, SilentPolice, Moves
  <2>. QED  BY <2>1, <2>2 DEF Roles
<1>13. SilentThief'
  BY <1>0, <1>1, <1>12 DEF SilentLink, SilentThief, Moves, Acts, Roles
<1>14. SilentPolice'
  <2>1. backend'["police"].number = backend["police"].number /\ backend'["police"].audit = backend["police"].audit
    BY DEF Moves, Acts, Roles
  <2>2. facts.declares \/ backend["police"].number # 3 \/
          (backend'["police"] = backend["police"] /\ (ready => ready'))
    BY <1>12 DEF Moves, Acts, Roles
  <2>3. Doing({"negotiate", "receive_turn"})' <=> Doing({"negotiate", "receive_turn"})
    BY <1>3
  <2>. QED  BY <1>0, <1>1, <2>1, <2>2, <2>3 DEF SilentLink, SilentPolice
<1>. QED  BY <1>5, <1>6, <1>7, <1>8, <1>9, <1>10, <1>11, <1>13, <1>14 DEF SilentLink

(* What is handed on and what is agreed, when the cursor and the agreement *)
(* do not change.                                                          *)
LEMMA MovesKeepsSeries ==
  ASSUME KitInv, Shape', NEW r \in Roles, Moves(r)
  PROVE  /\ ready' = ready => HandedLink'
         /\ (series'.agreed => series.agreed) /\ (series'.sent => series.sent \/ series.agreed)
              => SeriesLink'
<1>0. HandedLink /\ SeriesLink /\ Shape
  BY DEF KitInv
<1>1. ASSUME ready' = ready
      PROVE  HandedLink'
  <2>1. \A n : HandedOn(n)' <=> HandedOn(n)
    BY <1>1 DEF HandedOn, Moves, Acts
  <2>. QED  BY <1>0, <2>1 DEF HandedLink, Moves, Acts, Greeted
<1>2. ASSUME series'.agreed => series.agreed, series'.sent => series.sent \/ series.agreed
      PROVE  SeriesLink'
  <2>1. series'.sent => series'.agreed
    BY <1>0, <1>2 DEF SeriesLink, Moves, Acts
  <2>. SUFFICES ASSUME series'.agreed
                PROVE  AgreedIsWholeAndMutual'
    BY <2>1 DEF SeriesLink, AgreedIsWholeAndMutual
  <2>2. /\ Complete /\ facts.sameRows /\ <<"settlement", SubGames>> \in peer.heard
        /\ \E q \in Roles : PlaysLast(q) /\ backend[q].settlement
    BY <1>0, <1>2 DEF SeriesLink, AgreedIsWholeAndMutual
  <2>3. Complete'
    <3>1. \A part \in Parts : collected'[part] \subseteq SubGame
      BY DEF Shape
    <3>2. \A part \in Parts : \A n \in SubGame : n \in collected'[part]
      BY <2>2 DEF Complete, Moves, Acts
    <3>. QED  BY <3>1, <3>2 DEF Complete
  <2>4. \A q \in Roles : backend[q].settlement => backend'[q].settlement
    BY DEF Moves, Acts
  <2>5. <<"settlement", SubGames>> \in peer'.heard /\ facts'.sameRows
    BY <2>2 DEF Moves, Acts
  <2>. QED  BY <2>2, <2>3, <2>4, <2>5 DEF AgreedIsWholeAndMutual, PlaysLast
<1>. QED  BY <1>1, <1>2

-----------------------------------------------------------------------------
(* The steps of a backend, one by one.                                     *)
Places == {"booting", "greet", "dead"} \cup Playing \cup After

LEMMA StepsOf ==
  ASSUME Shape, NEW r \in Roles, NEW v \in Places, Steps(r, v)
  PROVE  /\ backend'[r].pc = v
         /\ backend'[r].number = backend[r].number /\ backend'[r].greeting = backend[r].greeting
         /\ backend'[r].turn = backend[r].turn /\ backend'[r].audit = backend[r].audit
         /\ backend'[r].settlement = backend[r].settlement
         /\ backend'[r].delivered = backend[r].delivered
         /\ \A q \in Roles : q # r => backend'[q] = backend[q]
         /\ BackendShape'
<1>1. DOMAIN backend = Roles /\ "pc" \in DOMAIN backend[r] /\ BackendShape
  BY DEF Shape, BackendShape
<1>2. backend' = [backend EXCEPT ![r] = [backend[r] EXCEPT !.pc = v]]
  BY <1>1 DEF Steps
<1>3. /\ backend'[r] = [backend[r] EXCEPT !.pc = v] /\ DOMAIN backend' = Roles
      /\ \A q \in Roles : q # r => backend'[q] = backend[q]
  BY <1>1, <1>2
<1>4. /\ backend'[r].pc = v /\ DOMAIN backend'[r] = DOMAIN backend[r]
      /\ backend'[r].number = backend[r].number /\ backend'[r].greeting = backend[r].greeting
      /\ backend'[r].turn = backend[r].turn /\ backend'[r].audit = backend[r].audit
      /\ backend'[r].settlement = backend[r].settlement
      /\ backend'[r].delivered = backend[r].delivered
  BY <1>1, <1>3
<1>5. BackendShape'
  <2>. SUFFICES ASSUME NEW q \in Roles
                PROVE  /\ DOMAIN backend'[q] = {"pc", "number", "greeting", "turn", "audit", "settlement", "delivered"}
                       /\ backend'[q].pc \in Places
                       /\ backend'[q].number \in SubGame
    BY <1>3 DEF BackendShape, Places
  <2>1. CASE q = r
    BY <1>1, <1>4, <2>1 DEF BackendShape
  <2>2. CASE q # r
    BY <1>1, <1>3, <2>2 DEF BackendShape, Places
  <2>. QED  BY <2>1, <2>2
<1>. QED  BY <1>3, <1>4, <1>5

(* What the peer is told it keeps, and it stays where it is.               *)
LEMMA Told ==
  ASSUME Shape, NEW stage, NEW n, Says(stage, n)
  PROVE  /\ peer'.game = peer.game /\ peer'.stage = peer.stage /\ peer'.acked = peer.acked
         /\ peer'.heard = peer.heard \cup {<<stage, n>>}
         /\ DOMAIN peer' = DOMAIN peer
  BY DEF Says, Shape

LEMMA MoveMade ==
  ASSUME KitInv, Shape', NEW r \in Roles, Moves(r), PathLink(r)', ReportLink(r)', HandedLink', SeriesLink'
  PROVE  KitInv'
<1>1. Acts(r)
  BY DEF Moves
<1>2. CallLink' /\ PeerLink'
  BY <1>1, ActsKeepsCalls
<1>3. CursorLink' /\ SilentLink'
  BY MovesKeeps
<1>4. ASSUME NEW q \in Roles
      PROVE  RoleLink(q)'
  <2>1. CASE q # r
    BY <1>1, <2>1, ActsKeepsOther
  <2>2. CASE q = r
    <3>1. RoleLink(r)'
      BY MovesKeeps DEF RoleLink
    <3>. QED  BY <2>2, <3>1
  <2>. QED  BY <2>1, <2>2
<1>. QED  BY <1>2, <1>3, <1>4 DEF KitInv

(* A step from one place to a later one, that tells the peer no greeting.  *)
LEMMA StepMoves ==
  ASSUME KitInv, NEW r \in Roles, NEW v \in Playing \cup After, Steps(r, v),
         backend[r].pc \in Playing \cup After,
         backend[r].pc \in After => v \in After,
         backend[r].pc = "play" => backend[r].turn # 0,
         UNCHANGED <<cursor, calls, facts>>,
         peer' = peer \/ \E stage, n : stage \notin {"negotiate", "gone"} /\ Says(stage, n),
         \A part \in Parts : \A n : n \in collected[part] => n \in collected'[part],
         ready => ready',
         ready' /\ ~ready => v \in After /\ backend[r].number = cursor,
         series.agreed => series'.agreed
  PROVE  Moves(r)
<1>0. Shape /\ PathLink(r)
  BY DEF KitInv, RoleLink
<1>1. v \in Places
  BY DEF Places
<1>2. /\ backend'[r].pc = v
      /\ backend'[r].number = backend[r].number /\ backend'[r].greeting = backend[r].greeting
      /\ backend'[r].turn = backend[r].turn /\ backend'[r].audit = backend[r].audit
      /\ backend'[r].settlement = backend[r].settlement
      /\ \A q \in Roles : q # r => backend'[q] = backend[q]
  BY <1>0, <1>1, StepsOf
<1>3. /\ peer'.game = peer.game /\ peer'.stage = peer.stage /\ peer'.acked = peer.acked
      /\ \A x : x \in peer.heard => x \in peer'.heard
      /\ \A n \in SubGame : Greeted(n)' => Greeted(n)
      /\ \A n \in SubGame : <<"gone", n>> \in peer'.heard => <<"gone", n>> \in peer.heard
  <2>1. CASE peer' = peer
    BY <2>1 DEF Greeted
  <2>2. CASE \E stage, n : stage \notin {"negotiate", "gone"} /\ Says(stage, n)
    <3>1. PICK stage, n : stage \notin {"negotiate", "gone"} /\ Says(stage, n)
      BY <2>2
    <3>. QED  BY <1>0, <3>1, Told DEF Greeted
  <2>. QED  BY <2>1, <2>2
<1>4. ready' /\ ~ready => Owner(cursor) = r
  BY <1>0, Apartness DEF PathLink
<1>5. Acts(r)
  BY <1>2, <1>3, <1>4, Apartness DEF Acts
<1>. QED  BY <1>2, <1>3, <1>5 DEF Moves

LEMMA KeepsDisclose ==
  ASSUME KitInv, NEW r \in Roles, Disclose(r)
  PROVE  KitInv'
<1>0. Shape /\ PathLink(r) /\ ReportLink(r)
  BY DEF KitInv, RoleLink
<1>1. /\ backend[r].pc = "play" /\ backend[r].turn # 0 /\ Says("submit_audit", backend[r].number)
      /\ Steps(r, "audit") /\ UNCHANGED <<cursor, ready, collected, series, calls, facts>>
  BY DEF Disclose, At, gateway
<1>2. "audit" \in Places
  BY DEF Places, Playing
<1>t. /\ backend'[r].pc = "audit" /\ backend'[r].number = backend[r].number
      /\ backend'[r].delivered = backend[r].delivered
      /\ BackendShape'
  BY <1>0, <1>1, <1>2, StepsOf
<1>u. /\ peer'.heard = peer.heard \cup {<<"submit_audit", backend[r].number>>}
      /\ peer'.game = peer.game /\ peer'.stage = peer.stage /\ DOMAIN peer' = DOMAIN peer
  BY <1>0, <1>1, Told
<1>3. Shape'
  BY <1>0, <1>1, <1>t, <1>u DEF Shape
<1>8. \E stage, n : stage \notin {"negotiate", "gone"} /\ Says(stage, n)
  BY <1>1
<1>9. "play" \in Playing /\ "audit" \in Playing /\ "play" \notin After
  BY DEF Playing, After
<1>4. Moves(r)
  BY <1>1, <1>8, <1>9, StepMoves
<1>5. PathLink(r)'
  BY <1>0, <1>1, <1>t, <1>u DEF PathLink, Playing, Reporting, Parts, After, Greeted
<1>6. ReportLink(r)'
  BY <1>0, <1>1, <1>t, <1>u DEF ReportLink
<1>7. HandedLink' /\ SeriesLink'
  BY <1>1, <1>3, <1>4, MovesKeepsSeries
<1>. QED  BY <1>3, <1>4, <1>5, <1>6, <1>7, MoveMade

(* The disclosure was there.                                               *)
LEMMA KeepsVerify ==
  ASSUME KitInv, NEW r \in Roles, Verify(r)
  PROVE  KitInv'
<1>0. Shape /\ PathLink(r) /\ ReportLink(r)
  BY DEF KitInv, RoleLink
<1>1. /\ backend[r].pc = "audit"
      /\ backend[r].audit # 0
      /\ Steps(r, "row") /\ UNCHANGED <<cursor, ready, collected, series, calls, peer, facts>>
  BY DEF Verify, At, gateway
<1>2. "row" \in Places
  BY DEF Places, Playing, Reporting, Parts, After
<1>t. /\ backend'[r].pc = "row" /\ backend'[r].number = backend[r].number
      /\ backend'[r].audit = backend[r].audit /\ backend'[r].delivered = backend[r].delivered
      /\ backend'[r].settlement = backend[r].settlement /\ BackendShape'
  BY <1>0, <1>1, <1>2, StepsOf
<1>3. Shape'
  BY <1>0, <1>1, <1>t DEF Shape
<1>8. /\ "audit" \in Playing \cup After /\ "row" \in Playing \cup After
      /\ "audit" \in After => "row" \in After
  BY DEF Playing, Reporting, Parts, After
<1>4. Moves(r)
  BY <1>1, <1>8, StepMoves
<1>5. PathLink(r)'
  BY <1>0, <1>1, <1>t DEF PathLink, Playing, Reporting, Parts, After, Greeted, HandedOn
<1>6. ReportLink(r)'
  BY <1>0, <1>1, <1>t DEF ReportLink
<1>7. HandedLink' /\ SeriesLink'
  BY <1>1, <1>3, <1>4, MovesKeepsSeries
<1>. QED  BY <1>3, <1>4, <1>5, <1>6, <1>7, MoveMade

(* All rows are there.                                                     *)
LEMMA KeepsReadRows ==
  ASSUME KitInv, NEW r \in Roles, ReadRows(r)
  PROVE  KitInv'
<1>0. Shape /\ PathLink(r) /\ ReportLink(r)
  BY DEF KitInv, RoleLink
<1>1. /\ backend[r].pc = "rows"
      /\ Steps(r, "settle") /\ UNCHANGED <<cursor, ready, collected, series, calls, peer, facts>>
  BY DEF ReadRows, At, gateway
<1>2. "settle" \in Places
  BY DEF Places, Playing, Reporting, Parts, After
<1>t. /\ backend'[r].pc = "settle" /\ backend'[r].number = backend[r].number
      /\ backend'[r].audit = backend[r].audit /\ backend'[r].delivered = backend[r].delivered
      /\ backend'[r].settlement = backend[r].settlement /\ BackendShape'
  BY <1>0, <1>1, <1>2, StepsOf
<1>3. Shape'
  BY <1>0, <1>1, <1>t DEF Shape
<1>8. /\ "rows" \in Playing \cup After /\ "settle" \in Playing \cup After
      /\ "rows" \in After => "settle" \in After
  BY DEF Playing, Reporting, Parts, After
<1>4. Moves(r)
  BY <1>1, <1>8, StepMoves
<1>5. PathLink(r)'
  BY <1>0, <1>1, <1>t DEF PathLink, Playing, Reporting, Parts, After, Greeted, HandedOn
<1>6. ReportLink(r)'
  BY <1>0, <1>1, <1>t DEF ReportLink
<1>7. HandedLink' /\ SeriesLink'
  BY <1>1, <1>3, <1>4, MovesKeepsSeries
<1>. QED  BY <1>3, <1>4, <1>5, <1>6, <1>7, MoveMade

(* The settlement is given up.                                             *)
LEMMA KeepsWindowCloses ==
  ASSUME KitInv, NEW r \in Roles, WindowCloses(r)
  PROVE  KitInv'
<1>0. Shape /\ PathLink(r) /\ ReportLink(r)
  BY DEF KitInv, RoleLink
<1>1. /\ backend[r].pc = "settle"
      /\ Steps(r, "linger") /\ UNCHANGED <<cursor, ready, collected, series, calls, peer, facts>>
  BY DEF WindowCloses, At, gateway
<1>2. "linger" \in Places
  BY DEF Places, Playing, Reporting, Parts, After
<1>t. /\ backend'[r].pc = "linger" /\ backend'[r].number = backend[r].number
      /\ backend'[r].audit = backend[r].audit /\ backend'[r].delivered = backend[r].delivered
      /\ backend'[r].settlement = backend[r].settlement /\ BackendShape'
  BY <1>0, <1>1, <1>2, StepsOf
<1>3. Shape'
  BY <1>0, <1>1, <1>t DEF Shape
<1>8. /\ "settle" \in Playing \cup After /\ "linger" \in Playing \cup After
      /\ "settle" \in After => "linger" \in After
  BY DEF Playing, Reporting, Parts, After
<1>4. Moves(r)
  BY <1>1, <1>8, StepMoves
<1>5. PathLink(r)'
  BY <1>0, <1>1, <1>t DEF PathLink, Playing, Reporting, Parts, After, Greeted, HandedOn
<1>6. ReportLink(r)'
  BY <1>0, <1>1, <1>t DEF ReportLink
<1>7. HandedLink' /\ SeriesLink'
  BY <1>1, <1>3, <1>4, MovesKeepsSeries
<1>. QED  BY <1>3, <1>4, <1>5, <1>6, <1>7, MoveMade

(* The process ends.                                                       *)
LEMMA KeepsFinish ==
  ASSUME KitInv, NEW r \in Roles, Finish(r)
  PROVE  KitInv'
<1>0. Shape /\ PathLink(r) /\ ReportLink(r)
  BY DEF KitInv, RoleLink
<1>1. /\ backend[r].pc = "linger"
      /\ Steps(r, "done") /\ UNCHANGED <<cursor, ready, collected, series, calls, peer, facts>>
  BY DEF Finish, At, gateway
<1>2. "done" \in Places
  BY DEF Places, Playing, Reporting, Parts, After
<1>t. /\ backend'[r].pc = "done" /\ backend'[r].number = backend[r].number
      /\ backend'[r].audit = backend[r].audit /\ backend'[r].delivered = backend[r].delivered
      /\ backend'[r].settlement = backend[r].settlement /\ BackendShape'
  BY <1>0, <1>1, <1>2, StepsOf
<1>3. Shape'
  BY <1>0, <1>1, <1>t DEF Shape
<1>8. /\ "linger" \in Playing \cup After /\ "done" \in Playing \cup After
      /\ "linger" \in After => "done" \in After
  BY DEF Playing, Reporting, Parts, After
<1>4. Moves(r)
  BY <1>1, <1>8, StepMoves
<1>5. PathLink(r)'
  BY <1>0, <1>1, <1>t DEF PathLink, Playing, Reporting, Parts, After, Greeted, HandedOn
<1>6. ReportLink(r)'
  BY <1>0, <1>1, <1>t DEF ReportLink
<1>7. HandedLink' /\ SeriesLink'
  BY <1>1, <1>3, <1>4, MovesKeepsSeries
<1>. QED  BY <1>3, <1>4, <1>5, <1>6, <1>7, MoveMade

(* A part is contributed.                                                  *)
LEMMA KeepsContribute ==
  ASSUME KitInv, NEW r \in Roles, Contribute(r)
  PROVE  KitInv'
<1>0. Shape /\ PathLink(r) /\ ReportLink(r)
  BY DEF KitInv, RoleLink
<1>. DEFINE part == backend[r].pc
            v == AfterPart(part)
<1>1. /\ part \in Parts /\ Steps(r, v)
      /\ collected' = [collected EXCEPT ![part] = @ \cup {backend[r].number}]
      /\ UNCHANGED <<cursor, ready, calls, peer, facts>>
  BY DEF Contribute
<1>2. /\ series'.agreed = series.agreed /\ series'.sent = series.sent /\ DOMAIN series' = DOMAIN series
  BY <1>0 DEF Contribute, WriteSeries, Shape
<1>c. \/ part = "row" /\ v = "entry"
      \/ part = "entry" /\ v = "documents"
      \/ part = "documents" /\ v = "settled"
  BY <1>1 DEF Parts, AfterPart
<1>v. v \in Reporting /\ part \in Reporting /\ part # "play"
  BY <1>c DEF Reporting, Parts
<1>. HIDE DEF v
<1>8. v \in Places /\ v \in Playing \cup After /\ part \in Playing \cup After /\ part \notin After
  BY <1>c, <1>v DEF Places, Playing, After
<1>t. /\ backend'[r].pc = v /\ backend'[r].number = backend[r].number
      /\ backend'[r].audit = backend[r].audit /\ backend'[r].delivered = backend[r].delivered
      /\ BackendShape'
  BY <1>0, <1>1, <1>8, StepsOf
<1>n. backend[r].number \in SubGame /\ collected \in [Parts -> SUBSET SubGame]
  BY <1>0 DEF Shape, BackendShape
<1>u. /\ collected' \in [Parts -> SUBSET SubGame]
      /\ \A p \in Parts : \A n : n \in collected[p] => n \in collected'[p]
      /\ backend[r].number \in collected'[part]
  BY <1>1, <1>n
<1>3. Shape'
  BY <1>0, <1>1, <1>2, <1>t, <1>u DEF Shape
<1>4. Moves(r)
  BY <1>1, <1>2, <1>u, <1>v, <1>8, StepMoves
<1>5. PathLink(r)'
  <2>1. v \notin After /\ v # "greet" /\ v # "booting"
    BY <1>c DEF After
  <2>2. /\ Greeted(backend[r].number)' /\ backend[r].audit # 0
        /\ Owner(backend[r].number) = r
    BY <1>0, <1>1, <1>t, <1>v, <1>8, Apartness DEF PathLink, Greeted
  <2>3. v # "opening" /\ v # "dead"
    BY <1>c
  <2>. QED  BY <1>t, <1>v, <2>1, <2>2, <2>3 DEF PathLink
<1>6. ReportLink(r)'
  <2>1. \A p \in Parts : backend[r].number \in collected[p] => backend[r].number \in collected'[p]
    BY <1>u
  <2>. QED  BY <1>0, <1>1, <1>c, <1>t, <1>u, <2>1 DEF ReportLink, Parts
<1>7. HandedLink' /\ SeriesLink'
  BY <1>1, <1>2, <1>3, <1>4, MovesKeepsSeries
<1>. QED  BY <1>3, <1>4, <1>5, <1>6, <1>7, MoveMade

(* The sub-game is handed back: all its parts are in.                      *)
LEMMA KeepsHandBack ==
  ASSUME KitInv, NEW r \in Roles, HandBack(r)
  PROVE  KitInv'
<1>0. Shape /\ PathLink(r) /\ ReportLink(r) /\ HandedLink
  BY DEF KitInv, RoleLink
<1>. DEFINE v == AfterLast(r)
            n == backend[r].number
<1>1. /\ backend[r].pc = "settled" /\ n = cursor /\ ready' = TRUE /\ Steps(r, v)
      /\ UNCHANGED <<cursor, collected, series, calls, peer, facts>>
  BY DEF HandBack, At
<1>n. n \in SubGame /\ n \in Nat /\ SubGames \in Nat /\ n <= SubGames /\ Owner(n) = r
  BY <1>0, <1>1, Numbers DEF Shape, BackendShape, PathLink, SubGame
<1>c. \/ v = "opening" /\ n + 2 <= SubGames
      \/ v = "rows" /\ n = SubGames
      \/ v = "done"
  <2>1. (\E m \in Owned(r) : m > n) <=> n + 2 <= SubGames
    BY <1>n, NextOwned
  <2>2. n + 1 = SubGames => Owner(SubGames) # r
    BY <1>n, Alternate
  <2>3. ~(n + 2 <= SubGames) => n = SubGames \/ n + 1 = SubGames
    BY <1>n
  <2>. QED  BY <2>1, <2>2, <2>3 DEF AfterLast, PlaysLast
<1>. HIDE DEF v
<1>8. v \in Places /\ v \in Playing \cup After /\ "settled" \in Playing /\ v \in After /\ v \notin Playing
  BY <1>c DEF Places, Playing, After, Reporting, Parts
<1>t. /\ backend'[r].pc = v /\ backend'[r].number = n
      /\ backend'[r].audit = backend[r].audit /\ backend'[r].delivered = backend[r].delivered
      /\ BackendShape'
  BY <1>0, <1>1, <1>8, StepsOf
<1>3. Shape'
  BY <1>0, <1>1, <1>t DEF Shape
<1>4. Moves(r)
  BY <1>1, <1>8, StepMoves
<1>5. PathLink(r)'
  <2>1. HandedOn(n)'
    BY <1>1, <1>t DEF HandedOn
  <2>2. Greeted(n)' /\ backend[r].audit # 0
    BY <1>0, <1>1, <1>t DEF PathLink, Playing, Reporting, Greeted
  <2>3. v # "greet" /\ v # "booting" /\ v # "dead"
    BY <1>c
  <2>. QED  BY <1>n, <1>c, <1>t, <1>8, <2>1, <2>2, <2>3 DEF PathLink
<1>6. ReportLink(r)'
  BY <1>0, <1>1, <1>c, <1>t DEF ReportLink
<1>7. HandedLink'
  <2>. SUFFICES ASSUME NEW m \in SubGame, HandedOn(m)'
                PROVE  Greeted(m) /\ \A part \in Parts : m \in collected[part]
    BY <1>1 DEF HandedLink, Greeted
  <2>1. HandedOn(m) \/ m = n
    BY <1>1 DEF HandedOn
  <2>2. CASE m = n
    BY <1>0, <1>1, <2>2 DEF PathLink, ReportLink, Playing, Reporting, Parts
  <2>. QED  BY <1>0, <2>1, <2>2 DEF HandedLink
<1>9. SeriesLink'
  BY <1>1, <1>3, <1>4, MovesKeepsSeries
<1>. QED  BY <1>3, <1>4, <1>5, <1>6, <1>7, <1>9, MoveMade

(* One turn of the settlement.                                             *)
LEMMA KeepsExchange ==
  ASSUME KitInv, NEW r \in Roles, NEW arrives \in BOOLEAN, Exchange(r, arrives)
  PROVE  KitInv'
<1>0. Shape /\ PathLink(r) /\ ReportLink(r)
  BY DEF KitInv, RoleLink
<1>. DEFINE one == [backend[r] EXCEPT !.delivered = @ \/ arrives]
            v == AfterExchange(one)
<1>1. /\ backend[r].pc = "settle" /\ backend' = [backend EXCEPT ![r] = [one EXCEPT !.pc = v]]
      /\ IF arrives THEN Says("settlement", SubGames) ELSE peer' = peer
      /\ UNCHANGED <<cursor, ready, collected, series, calls, facts>>
  BY DEF Exchange, At, gateway
<1>2. /\ DOMAIN backend = Roles
      /\ DOMAIN backend[r] = {"pc", "number", "greeting", "turn", "audit", "settlement", "delivered"}
      /\ backend[r].number \in SubGame
  BY <1>0 DEF Shape, BackendShape
<1>3. /\ DOMAIN one = DOMAIN backend[r]
      /\ one.delivered <=> (backend[r].delivered \/ arrives)
      /\ one.number = backend[r].number /\ one.greeting = backend[r].greeting
      /\ one.turn = backend[r].turn /\ one.audit = backend[r].audit
      /\ one.settlement = backend[r].settlement
  BY <1>2
<1>c. \/ v = "settle" \/ v = "linger"
      \/ v = "report" /\ one.delivered /\ one.settlement /\ facts.sameRows
  BY DEF AfterExchange, SettledBothWays
<1>. HIDE DEF one, v
<1>4. /\ backend'[r] = [one EXCEPT !.pc = v]
      /\ DOMAIN backend' = Roles
      /\ \A q \in Roles : q # r => backend'[q] = backend[q]
  BY <1>1, <1>2
<1>t. /\ backend'[r].pc = v /\ DOMAIN backend'[r] = DOMAIN backend[r]
      /\ backend'[r].number = backend[r].number /\ backend'[r].greeting = backend[r].greeting
      /\ backend'[r].turn = backend[r].turn /\ backend'[r].audit = backend[r].audit
      /\ backend'[r].settlement = backend[r].settlement
      /\ backend'[r].delivered = one.delivered
  BY <1>2, <1>3, <1>4
<1>u. /\ peer'.game = peer.game /\ peer'.stage = peer.stage /\ peer'.acked = peer.acked
      /\ \A x : x \in peer.heard => x \in peer'.heard
      /\ DOMAIN peer' = DOMAIN peer
      /\ arrives => <<"settlement", SubGames>> \in peer'.heard
      /\ \A n \in SubGame : Greeted(n)' => Greeted(n)
      /\ \A n \in SubGame : <<"gone", n>> \in peer'.heard => <<"gone", n>> \in peer.heard
  <2>1. CASE arrives
    BY <1>0, <1>1, <2>1, Told DEF Greeted
  <2>2. CASE ~arrives
    BY <1>1, <2>2 DEF Greeted
  <2>. QED  BY <2>1, <2>2
<1>8. v \in After /\ v \notin {"booting", "greet", "dead"} \cup Playing /\ backend[r].pc \in After
  BY <1>c, <1>1 DEF After, Playing, Reporting, Parts
<1>5. Shape'
  <2>1. BackendShape'
    <3>. SUFFICES ASSUME NEW q \in Roles
                  PROVE  /\ DOMAIN backend'[q] = {"pc", "number", "greeting", "turn", "audit", "settlement", "delivered"}
                         /\ backend'[q].pc \in {"booting", "greet", "dead"} \cup Playing \cup After
                         /\ backend'[q].number \in SubGame
      BY <1>4 DEF BackendShape
    <3>1. CASE q = r
      BY <1>2, <1>8, <1>t, <3>1
    <3>2. CASE q # r
      BY <1>0, <1>4, <3>2 DEF Shape, BackendShape
    <3>. QED  BY <3>1, <3>2
  <2>. QED  BY <1>0, <1>1, <1>u, <2>1 DEF Shape
<1>6. Moves(r)
  <2>1. Acts(r)
    BY <1>1, <1>4, <1>8, <1>t, <1>u DEF Acts
  <2>. QED  BY <1>1, <1>8, <1>t, <1>u, <2>1 DEF Moves
<1>7. PathLink(r)'
  <2>1. Greeted(backend[r].number)' /\ backend[r].audit # 0 /\ HandedOn(backend[r].number)'
    BY <1>0, <1>1, <1>t, <1>u, <1>8 DEF PathLink, Greeted, HandedOn
  <2>2. v # "opening"
    BY <1>c
  <2>. QED  BY <1>0, <1>1, <1>8, <1>t, <2>1, <2>2 DEF PathLink
<1>9. ReportLink(r)'
  BY <1>0, <1>1, <1>c, <1>3, <1>t, <1>u DEF ReportLink
<1>10. HandedLink' /\ SeriesLink'
  BY <1>1, <1>5, <1>6, MovesKeepsSeries
<1>. QED  BY <1>5, <1>6, <1>7, <1>9, <1>10, MoveMade

(* Where the series was handed on to its end, nothing is missing.          *)
LEMMA HandedToTheEnd ==
  ASSUME KitInv, HandedOn(SubGames)
  PROVE  Complete /\ \A n \in SubGame : HandedOn(n)
<1>1. cursor \in SubGame /\ collected \in [Parts -> SUBSET SubGame] /\ HandedLink
  BY DEF KitInv, Shape
<1>2. \A n \in SubGame : HandedOn(n)
  BY <1>1, Numbers DEF HandedOn, SubGame
<1>. QED  BY <1>1, <1>2 DEF HandedLink, Complete

(* The digest licenses the result.                                         *)
LEMMA KeepsReportSeries ==
  ASSUME KitInv, NEW r \in Roles, ReportSeries(r)
  PROVE  KitInv'
<1>0. Shape /\ PathLink(r) /\ ReportLink(r)
  BY DEF KitInv, RoleLink
<1>1. /\ backend[r].pc = "report" /\ Steps(r, "agree")
      /\ UNCHANGED <<cursor, ready, collected, calls, peer, facts>>
  BY DEF ReportSeries, At
<1>2. series'.agreed = TRUE /\ series'.sent = series.sent /\ DOMAIN series' = DOMAIN series
  BY <1>0 DEF ReportSeries, WriteSeries, Shape
<1>8. /\ "agree" \in Places /\ "report" \in After /\ "agree" \in After
      /\ "report" \notin Playing /\ "agree" \notin Playing
  BY DEF Places, Playing, Reporting, Parts, After
<1>t. /\ backend'[r].pc = "agree" /\ backend'[r].number = backend[r].number
      /\ backend'[r].audit = backend[r].audit /\ backend'[r].delivered = backend[r].delivered
      /\ backend'[r].settlement = backend[r].settlement /\ BackendShape'
  BY <1>0, <1>1, <1>8, StepsOf
<1>3. Shape'
  BY <1>0, <1>1, <1>2, <1>t DEF Shape
<1>4. Moves(r)
  BY <1>1, <1>2, <1>8, StepMoves
<1>5. PathLink(r)'
  BY <1>0, <1>1, <1>t, <1>8 DEF PathLink, Greeted, HandedOn
<1>6. ReportLink(r)'
  BY <1>0, <1>1, <1>2, <1>t DEF ReportLink
<1>7. HandedLink'
  BY <1>1, <1>3, <1>4, MovesKeepsSeries
<1>9. SeriesLink'
  <2>1. backend[r].number = SubGames /\ Owner(SubGames) = r /\ HandedOn(SubGames)
    BY <1>0, <1>1, <1>8 DEF PathLink, ReportLink
  <2>2. Complete
    BY <2>1, HandedToTheEnd
  <2>3. facts.sameRows /\ <<"settlement", SubGames>> \in peer.heard /\ backend[r].settlement
    BY <1>0, <1>1 DEF ReportLink
  <2>4. PlaysLast(r) /\ backend'[r].settlement
    BY <2>1, <2>3, <1>t DEF PlaysLast
  <2>. QED  BY <1>1, <1>2, <2>2, <2>3, <2>4 DEF SeriesLink, AgreedIsWholeAndMutual, Complete, PlaysLast
<1>. QED  BY <1>3, <1>4, <1>5, <1>6, <1>7, <1>9, MoveMade

(* Ours is asked for, and nothing of the backend changes.                  *)
LEMMA KeepsRequestResult ==
  ASSUME KitInv, NEW r \in Roles, RequestResult(r)
  PROVE  KitInv'
<1>0. Shape /\ PathLink(r) /\ ReportLink(r)
  BY DEF KitInv, RoleLink
<1>1. /\ backend[r].pc = "agree" /\ Says("result", SubGames)
      /\ series' = [series EXCEPT !.sent = TRUE]
      /\ UNCHANGED <<cursor, ready, collected, backend, calls, facts>>
  BY DEF RequestResult, At
<1>2. series'.agreed = series.agreed /\ series.agreed /\ DOMAIN series' = DOMAIN series
  BY <1>0, <1>1 DEF ReportLink, Shape
<1>u. /\ peer'.game = peer.game /\ peer'.stage = peer.stage /\ peer'.acked = peer.acked
      /\ peer'.heard = peer.heard \cup {<<"result", SubGames>>}
      /\ DOMAIN peer' = DOMAIN peer
  BY <1>0, <1>1, Told
<1>w. /\ \A n \in SubGame : Greeted(n)' => Greeted(n)
      /\ \A n \in SubGame : <<"gone", n>> \in peer'.heard => <<"gone", n>> \in peer.heard
  BY <1>u DEF Greeted
<1>3. Shape'
  BY <1>0, <1>1, <1>2, <1>u DEF Shape, BackendShape
<1>8. "agree" \in After /\ "agree" \notin Playing
  BY DEF After, Playing, Reporting, Parts
<1>4. Moves(r)
  <2>1. Acts(r)
    BY <1>1, <1>2, <1>u, <1>w DEF Acts
  <2>. QED  BY <1>1, <1>8, <1>w, <2>1 DEF Moves
<1>5. PathLink(r)'
  BY <1>0, <1>1, <1>u DEF PathLink, Greeted, HandedOn
<1>6. ReportLink(r)'
  BY <1>0, <1>1, <1>2, <1>u DEF ReportLink
<1>7. HandedLink' /\ SeriesLink'
  BY <1>1, <1>2, <1>3, <1>4, MovesKeepsSeries
<1>. QED  BY <1>3, <1>4, <1>5, <1>6, <1>7, MoveMade

LEMMA KeepsAgreeResult ==
  ASSUME KitInv, NEW r \in Roles, AgreeResult(r)
  PROVE  KitInv'
<1>0. Shape /\ PathLink(r) /\ ReportLink(r)
  BY DEF KitInv, RoleLink
<1>1. /\ backend[r].pc = "agree" /\ Steps(r, "linger")
      /\ UNCHANGED <<cursor, ready, collected, calls, peer, facts>>
  BY DEF AgreeResult, At
<1>2. series'.agreed = series.agreed /\ series'.sent = series.sent /\ DOMAIN series' = DOMAIN series
  BY <1>0 DEF AgreeResult, WriteSeries, Shape
<1>8. "agree" \in After /\ "linger" \in After /\ "linger" \in Places /\ "agree" \notin Playing
  BY DEF Places, Playing, Reporting, Parts, After
<1>t. /\ backend'[r].pc = "linger" /\ backend'[r].number = backend[r].number
      /\ backend'[r].audit = backend[r].audit /\ backend'[r].delivered = backend[r].delivered
      /\ BackendShape'
  BY <1>0, <1>1, <1>8, StepsOf
<1>3. Shape'
  BY <1>0, <1>1, <1>2, <1>t DEF Shape
<1>4. Moves(r)
  BY <1>1, <1>2, <1>8, StepMoves
<1>5. PathLink(r)'
  BY <1>0, <1>1, <1>t, <1>8 DEF PathLink, Greeted, HandedOn
<1>6. ReportLink(r)'
  BY <1>0, <1>1, <1>t DEF ReportLink
<1>7. HandedLink' /\ SeriesLink'
  BY <1>1, <1>2, <1>3, <1>4, MovesKeepsSeries
<1>. QED  BY <1>3, <1>4, <1>5, <1>6, <1>7, MoveMade

LEMMA ActsMade ==
  ASSUME KitInv, Shape', NEW r \in Roles, Acts(r), RoleLink(r)', HandedLink', CursorLink',
         SeriesLink', SilentLink'
  PROVE  KitInv'
<1>1. CallLink' /\ PeerLink'
  BY ActsKeepsCalls
<1>2. ASSUME NEW q \in Roles
      PROVE  RoleLink(q)'
  BY ActsKeepsOther
<1>. QED  BY <1>1, <1>2 DEF KitInv

(* Where nothing is said, collected or settled.                            *)
LEMMA SeriesStays ==
  ASSUME KitInv, NEW r \in Roles, Acts(r), UNCHANGED <<ready, collected, series>>,
         backend[r].settlement => backend'[r].settlement
  PROVE  HandedLink' /\ SeriesLink'
<1>0. HandedLink /\ SeriesLink
  BY DEF KitInv
<1>1. \A n : (HandedOn(n)' <=> HandedOn(n)) /\ (Greeted(n) => Greeted(n)')
  BY DEF HandedOn, Greeted, Acts
<1>2. HandedLink'
  BY <1>0, <1>1 DEF HandedLink
<1>3. \A q \in Roles : backend[q].settlement => backend'[q].settlement
  BY DEF Acts
<1>4. SeriesLink'
  BY <1>0, <1>3 DEF SeriesLink, AgreedIsWholeAndMutual, Complete, PlaysLast, Acts
<1>. QED  BY <1>2, <1>4

(* A run that ends early.                                                  *)
LEMMA KeepsFail ==
  ASSUME KitInv, NEW r \in Roles, Fail(r)
  PROVE  KitInv'
<1>0. /\ PathLink(r) /\ ReportLink(r) /\ GreetLink(r) /\ ReadyLink(r) /\ HeardLink(r)
      /\ AckLink(r) /\ AuditLink(r) /\ Shape /\ CursorLink /\ SilentLink
  BY DEF KitInv, RoleLink
<1>1. Steps(r, "dead") /\ UNCHANGED <<cursor, ready, collected, series, calls, peer, facts>>
  BY DEF Fail, gateway
<1>2. "dead" \in Places
  BY DEF Places
<1>t. /\ backend'[r].pc = "dead"
      /\ backend'[r].number = backend[r].number /\ backend'[r].greeting = backend[r].greeting
      /\ backend'[r].turn = backend[r].turn /\ backend'[r].audit = backend[r].audit
      /\ backend'[r].settlement = backend[r].settlement
      /\ backend'[r].delivered = backend[r].delivered
      /\ \A q \in Roles : q # r => backend'[q] = backend[q]
      /\ BackendShape'
  BY <1>0, <1>1, <1>2, StepsOf
<1>3. Shape'
  BY <1>0, <1>1, <1>t DEF Shape
<1>4. Acts(r)
  BY <1>1, <1>t DEF Acts, Greeted
<1>5. Undisclosed' <=> Undisclosed
  BY <1>4, SameStage
<1>6. RoleLink(r)'
  <2>0. "dead" \notin Playing /\ "dead" \notin After /\ "dead" \notin Reporting
    BY DEF Playing, After, Reporting, Parts
  <2>1. PathLink(r)' /\ ReportLink(r)'
    BY <1>0, <1>1, <1>t, <2>0 DEF PathLink, ReportLink
  <2>2. GreetLink(r)' /\ ReadyLink(r)'
    BY <1>0, <1>1, <1>t, Apartness DEF GreetLink, ReadyLink
  <2>3. HeardLink(r)' /\ AckLink(r)'
    BY <1>0, <1>1, <1>t DEF HeardLink, AckLink, Greeted
  <2>4. AuditLink(r)'
    BY <1>0, <1>1, <1>5, <1>t DEF AuditLink
  <2>. QED  BY <2>1, <2>2, <2>3, <2>4 DEF RoleLink
<1>7. CursorLink'
  BY <1>0, <1>1 DEF CursorLink, Greeted
<1>8. SilentLink'
  <2>1. SilentPeer'
    BY <1>0, <1>1 DEF SilentLink, SilentPeer, Doing, Greeted
  <2>2. SilentThief'
    BY <1>0, <1>1, <1>t DEF SilentLink, SilentThief, Roles
  <2>3. SilentPolice'
    BY <1>0, <1>1, <1>t DEF SilentLink, SilentPolice, Roles, Doing
  <2>. QED  BY <2>1, <2>2, <2>3 DEF SilentLink
<1>9. HandedLink' /\ SeriesLink'
  BY <1>1, <1>4, <1>t, SeriesStays
<1>. QED  BY <1>3, <1>4, <1>6, <1>7, <1>8, <1>9, ActsMade

(* What an opened backend is.                                              *)
LEMMA OpenedTo ==
  ASSUME Shape, NEW r \in Roles, NEW m \in SubGame, backend' = [backend EXCEPT ![r] = Opened(r, m)]
  PROVE  /\ backend'[r].pc = "greet" /\ backend'[r].number = m /\ backend'[r].greeting = 0
         /\ backend'[r].turn = 0 /\ backend'[r].audit = 0
         /\ backend'[r].settlement = backend[r].settlement
         /\ backend'[r].delivered = backend[r].delivered
         /\ \A q \in Roles : q # r => backend'[q] = backend[q]
         /\ BackendShape'
<1>1. /\ DOMAIN backend = Roles /\ BackendShape
      /\ DOMAIN backend[r] = {"pc", "number", "greeting", "turn", "audit", "settlement", "delivered"}
  BY DEF Shape, BackendShape
<1>2. /\ backend'[r] = Opened(r, m) /\ DOMAIN backend' = Roles
      /\ \A q \in Roles : q # r => backend'[q] = backend[q]
  BY <1>1
<1>3. /\ backend'[r].pc = "greet" /\ backend'[r].number = m /\ backend'[r].greeting = 0
      /\ backend'[r].turn = 0 /\ backend'[r].audit = 0
      /\ backend'[r].settlement = backend[r].settlement
      /\ backend'[r].delivered = backend[r].delivered
      /\ DOMAIN backend'[r] = DOMAIN backend[r]
  BY <1>1, <1>2 DEF Opened
<1>4. BackendShape'
  <2>. SUFFICES ASSUME NEW q \in Roles
                PROVE  /\ DOMAIN backend'[q] = {"pc", "number", "greeting", "turn", "audit", "settlement", "delivered"}
                       /\ backend'[q].pc \in {"booting", "greet", "dead"} \cup Playing \cup After
                       /\ backend'[q].number \in SubGame
    BY <1>2 DEF BackendShape
  <2>1. CASE q = r
    BY <1>1, <1>3, <2>1
  <2>2. CASE q # r
    BY <1>1, <1>2, <2>2 DEF BackendShape
  <2>. QED  BY <2>1, <2>2
<1>. QED  BY <1>2, <1>3, <1>4

(* The next sub-game is opened; nothing of the one before is kept, and the *)
(* peer cannot have disclosed it yet.                                      *)
LEMMA KeepsOpen ==
  ASSUME KitInv, NEW r \in Roles, Open(r)
  PROVE  KitInv'
<1>0. /\ PathLink(r) /\ ReportLink(r) /\ GreetLink(r) /\ ReadyLink(r) /\ HeardLink(r)
      /\ AckLink(r) /\ AuditLink(r) /\ Shape /\ CursorLink /\ SilentLink /\ PeerLink
  BY DEF KitInv, RoleLink
<1>1. UNCHANGED <<cursor, ready, collected, series, calls, peer, facts>>
  BY DEF Open, gateway
<1>n. /\ backend[r].number \in SubGame /\ backend[r].number \in Nat /\ backend[r].number >= 1
      /\ cursor \in Nat /\ cursor >= 1 /\ peer.game \in Nat /\ peer.game >= 1
      /\ SubGames \in Nat /\ 1 \in SubGame /\ 2 \in SubGame
  BY <1>0, Numbers DEF Shape, BackendShape, SubGame
<1>2. PICK m \in SubGame :
        /\ backend' = [backend EXCEPT ![r] = Opened(r, m)]
        /\ m \in Nat /\ Owner(m) = r
        /\ \/ backend[r].pc = "booting" /\ m \in {1, 2}
           \/ backend[r].pc = "opening" /\ m = backend[r].number + 2 /\ Owner(backend[r].number) = r
  <2>1. CASE At(r, "booting") /\ backend' = [backend EXCEPT ![r] = Opened(r, Min(Owned(r)))]
    <3>1. CASE r = "police"
      BY <1>n, <2>1, <3>1, FirstOwned, Alternate DEF At
    <3>2. CASE r = "thief"
      BY <1>n, <2>1, <3>2, FirstOwned, Alternate DEF At
    <3>. QED  BY <3>1, <3>2 DEF Roles
  <2>2. CASE /\ At(r, "opening")
             /\ LET next == Min({n \in Owned(r) : n > backend[r].number})
                IN backend' = [backend EXCEPT ![r] = Opened(r, next)]
    <3>1. backend[r].number + 2 <= SubGames /\ Owner(backend[r].number) = r
      BY <1>0, <2>2 DEF At, PathLink
    <3>2. Min({n \in Owned(r) : n > backend[r].number}) = backend[r].number + 2
      BY <1>n, <3>1, NextOwned
    <3>3. backend[r].number + 2 \in SubGame /\ Owner(backend[r].number + 2) = r
      BY <1>n, <3>1, Alternate DEF SubGame
    <3>4. backend' = [backend EXCEPT ![r] = Opened(r, backend[r].number + 2)]
      BY <2>2, <3>2
    <3>5. backend[r].number + 2 \in Nat /\ backend[r].pc = "opening"
      BY <1>n, <2>2 DEF At
    <3>. QED  BY <3>1, <3>3, <3>4, <3>5
  <2>. QED  BY <2>1, <2>2 DEF Open
<1>t. /\ backend'[r].pc = "greet" /\ backend'[r].number = m /\ backend'[r].greeting = 0
      /\ backend'[r].turn = 0 /\ backend'[r].audit = 0
      /\ backend'[r].settlement = backend[r].settlement
      /\ backend'[r].delivered = backend[r].delivered
      /\ \A q \in Roles : q # r => backend'[q] = backend[q]
      /\ BackendShape'
  BY <1>0, <1>2, OpenedTo
<1>3. Shape'
  BY <1>0, <1>1, <1>t DEF Shape
<1>4. Acts(r)
  BY <1>1, <1>t DEF Acts, Greeted
<1>5. Undisclosed' <=> Undisclosed
  BY <1>4, SameStage
<1>6. RoleLink(r)'
  <2>1. PathLink(r)'
    <3>1. m <= cursor + 2
      <4>1. CASE backend[r].pc = "booting"
        BY <1>n, <1>2, <4>1
      <4>2. CASE backend[r].pc = "opening"
        <5>1. HandedOn(backend[r].number)
          BY <1>0, <4>2 DEF PathLink, After
        <5>. QED  BY <1>n, <1>2, <4>2, <5>1 DEF HandedOn
      <4>. QED  BY <1>2, <4>1, <4>2
    <3>. QED  BY <1>1, <1>2, <1>t, <3>1, Apartness DEF PathLink, Playing, Reporting
  <2>2. ReportLink(r)' /\ GreetLink(r)'
    BY <1>0, <1>1, <1>t, Apartness DEF ReportLink, GreetLink
  <2>3. ReadyLink(r)'
    BY <1>0, <1>1, <1>2, <1>n, <1>t DEF ReadyLink
  <2>4. HeardLink(r)'
    <3>. SUFFICES ASSUME NEW n \in SubGame, Greeted(n), r = Owner(n)
                  PROVE  m > n
      BY <1>1, <1>t DEF HeardLink, Greeted
    <3>1. backend[r].pc # "booting" /\ backend[r].number >= n
      BY <1>0, <1>n, Numbers DEF HeardLink
    <3>. QED  BY <1>2, <1>n, <3>1, Numbers
  <2>5. AckLink(r)'
    <3>. SUFFICES ASSUME facts.declares, peer.stage = "negotiate", peer.acked, r = Owner(peer.game)
                  PROVE  m > peer.game \/ (facts.early /\ peer.game = 1)
      BY <1>1, <1>t DEF AckLink
    <3>. QED  BY <1>0, <1>2, <1>n DEF AckLink, PathLink
  <2>6. AuditLink(r)'
    <3>1. ASSUME facts.audited, Undisclosed, r = Owner(peer.game)
          PROVE  m <= peer.game
      <4>1. CASE backend[r].pc = "booting"
        <5>1. m = 2 => peer.game # 1
          BY <1>2, <3>1, Alternate
        <5>. QED  BY <1>2, <1>n, <4>1, <5>1
      <4>2. CASE backend[r].pc = "opening"
        <5>1. backend[r].audit # 0
          BY <1>0, <4>2 DEF PathLink, After
        <5>2. backend[r].number < peer.game
          BY <1>0, <1>n, <3>1, <5>1 DEF AuditLink
        <5>. QED  BY <1>2, <1>n, <3>1, <4>2, <5>2, Apart
      <4>. QED  BY <1>2, <4>1, <4>2
    <3>. QED  BY <1>1, <1>5, <1>t, <3>1 DEF AuditLink
  <2>. QED  BY <2>1, <2>2, <2>3, <2>4, <2>5, <2>6 DEF RoleLink
<1>7. CursorLink'
  BY <1>0, <1>1 DEF CursorLink, Greeted
<1>8. SilentLink'
  <2>1. SilentPeer'
    BY <1>0, <1>1 DEF SilentLink, SilentPeer, Doing, Greeted
  <2>2. SilentThief'
    <3>1. CASE r = "thief"
      BY <1>0, <1>1, <1>2, <1>t, <3>1 DEF SilentLink, SilentThief
    <3>2. CASE r # "thief"
      BY <1>0, <1>1, <1>t, <3>2 DEF SilentLink, SilentThief, Roles
    <3>. QED  BY <3>1, <3>2
  <2>3. SilentPolice'
    <3>1. CASE r # "police"
      BY <1>0, <1>1, <1>t, <3>1 DEF SilentLink, SilentPolice, Roles, Doing
    <3>2. CASE r = "police" /\ backend[r].pc = "booting"
      <4>1. m = 1
        BY <1>2, <3>2, Alternate
      <4>. QED  BY <1>t, <3>2, <4>1 DEF SilentPolice
    <3>3. CASE r = "police" /\ backend[r].pc = "opening" /\ ~facts.declares
      <4>1. backend[r].number = 1 /\ cursor = 1 /\ m = 3
        BY <1>0, <1>2, <3>3 DEF SilentLink, SilentPolice, SilentPeer
      <4>2. HandedOn(1) /\ backend[r].audit # 0
        BY <1>0, <3>3, <4>1 DEF PathLink, After
      <4>3. ready
        BY <4>1, <4>2 DEF HandedOn
      <4>4. ~(peer.game = 1 /\ Doing({"negotiate", "receive_turn"}))
        BY <1>0, <3>3, <4>2 DEF SilentLink, SilentPolice
      <4>. QED  BY <1>1, <1>t, <3>3, <4>1, <4>3, <4>4 DEF SilentPolice, Doing
    <3>4. CASE facts.declares
      BY <1>1, <3>4 DEF SilentPolice
    <3>. QED  BY <1>2, <3>1, <3>2, <3>3, <3>4
  <2>. QED  BY <2>1, <2>2, <2>3 DEF SilentLink
<1>9. HandedLink' /\ SeriesLink'
  BY <1>1, <1>4, <1>t, SeriesStays
<1>. QED  BY <1>3, <1>4, <1>6, <1>7, <1>8, <1>9, ActsMade

(* Greeted for the live sub-game, the backend greets in turn.              *)
LEMMA KeepsGreet ==
  ASSUME KitInv, NEW r \in Roles, Greet(r)
  PROVE  KitInv'
<1>0. /\ PathLink(r) /\ ReportLink(r) /\ GreetLink(r) /\ ReadyLink(r) /\ HeardLink(r)
      /\ AckLink(r) /\ AuditLink(r) /\ Shape /\ CursorLink /\ SilentLink /\ PeerLink
  BY DEF KitInv, RoleLink
<1>. DEFINE n == backend[r].number
<1>1. /\ backend[r].pc = "greet" /\ backend[r].greeting # 0 /\ Says("negotiate", n)
      /\ Steps(r, "play") /\ UNCHANGED <<cursor, ready, collected, series, calls, facts>>
  BY DEF Greet, At, gateway
<1>2. "play" \in Places /\ "play" \in Playing /\ "play" \notin After /\ "play" \notin Reporting
  BY DEF Places, Playing, After, Reporting, Parts
<1>t. /\ backend'[r].pc = "play"
      /\ backend'[r].number = backend[r].number /\ backend'[r].greeting = backend[r].greeting
      /\ backend'[r].turn = backend[r].turn /\ backend'[r].audit = backend[r].audit
      /\ backend'[r].settlement = backend[r].settlement
      /\ backend'[r].delivered = backend[r].delivered
      /\ \A q \in Roles : q # r => backend'[q] = backend[q]
      /\ BackendShape'
  BY <1>0, <1>1, <1>2, StepsOf
<1>u. /\ peer'.game = peer.game /\ peer'.stage = peer.stage /\ peer'.acked = peer.acked
      /\ peer'.heard = peer.heard \cup {<<"negotiate", n>>}
      /\ DOMAIN peer' = DOMAIN peer
  BY <1>0, <1>1, Told
<1>w. /\ \A k : Greeted(k)' <=> (Greeted(k) \/ k = n)
      /\ \A k \in SubGame : <<"gone", k>> \in peer'.heard => <<"gone", k>> \in peer.heard
  BY <1>u DEF Greeted
<1>n. n \in SubGame /\ n \in Nat /\ Owner(n) = r /\ cursor \in Nat /\ cursor >= 1
  BY <1>0, <1>1, Numbers DEF Shape, BackendShape, PathLink, SubGame
<1>3. Shape'
  BY <1>0, <1>1, <1>t, <1>u DEF Shape
<1>4. Acts(r)
  <2>1. \A x : x \in peer.heard => x \in peer'.heard
    BY <1>u
  <2>2. \A k \in SubGame : Greeted(k)' /\ ~Greeted(k) => Owner(k) = r
    BY <1>w, <1>n
  <2>. QED  BY <1>1, <1>t, <1>u, <1>w, <2>1, <2>2 DEF Acts
<1>5. Undisclosed' <=> Undisclosed
  BY <1>4, SameStage
<1>l. facts.declares => cursor = n /\ ~ready /\ backend[r].greeting = n
  <2>. SUFFICES ASSUME facts.declares
                PROVE  cursor = n /\ ~ready /\ backend[r].greeting = n
    OBVIOUS
  <2>1. cursor = n /\ backend[r].greeting = n
    BY <1>0, <1>1 DEF GreetLink
  <2>2. ~ready
    BY <1>0, <1>1, <1>n, <2>1 DEF ReadyLink
  <2>. QED  BY <2>1, <2>2
<1>6. RoleLink(r)'
  <2>1. PathLink(r)'
    <3>1. <<"negotiate", backend'[r].number>> \in peer'.heard
      BY <1>t, <1>u
    <3>. QED  BY <1>2, <1>n, <1>t, <3>1 DEF PathLink, Greeted
  <2>2. ReportLink(r)'
    BY <1>0, <1>1, <1>t, <1>u DEF ReportLink
  <2>3. GreetLink(r)'
    BY <1>0, <1>1, <1>l, <1>t DEF GreetLink
  <2>4. ReadyLink(r)'
    BY <1>0, <1>1, <1>n, <1>t DEF ReadyLink
  <2>5. HeardLink(r)'
    BY <1>0, <1>1, <1>n, <1>t, <1>w DEF HeardLink
  <2>6. AckLink(r)'
    <3>. SUFFICES ASSUME facts.declares, peer.stage = "negotiate", peer.acked, r = Owner(peer.game)
                  PROVE  (n = peer.game /\ backend[r].greeting = peer.game) \/ n > peer.game
      BY <1>1, <1>t, <1>u DEF AckLink
    <3>1. peer.game \in Nat /\ cursor <= peer.game
      BY <1>0, Numbers DEF Shape, PeerLink
    <3>. QED  BY <1>0, <1>1, <1>l, <1>n, <3>1 DEF AckLink
  <2>7. AuditLink(r)'
    BY <1>0, <1>1, <1>5, <1>t, <1>u DEF AuditLink
  <2>. QED  BY <2>1, <2>2, <2>3, <2>4, <2>5, <2>6, <2>7 DEF RoleLink
<1>7. CursorLink'
  BY <1>0, <1>1, <1>l, <1>n, <1>w DEF CursorLink
<1>8. SilentLink'
  <2>1. facts.declares \/ r = "police"
    BY <1>0, <1>1 DEF SilentLink, SilentThief, Roles
  <2>2. \A S : Doing(S)' <=> Doing(S)
    BY <1>4, SameStage
  <2>3. SilentPeer'
    BY <1>0, <1>1, <1>n, <1>u, <1>w, <2>1, <2>2 DEF SilentLink, SilentPeer
  <2>4. SilentThief'
    BY <1>0, <1>1, <1>t, <2>1 DEF SilentLink, SilentThief, Roles
  <2>5. SilentPolice'
    BY <1>0, <1>1, <1>t, <1>u, <2>1, <2>2 DEF SilentLink, SilentPolice
  <2>. QED  BY <2>3, <2>4, <2>5 DEF SilentLink
<1>9. HandedLink' /\ SeriesLink'
  BY <1>1, <1>4, <1>t, SeriesStays
<1>. QED  BY <1>3, <1>4, <1>6, <1>7, <1>8, <1>9, ActsMade

-----------------------------------------------------------------------------
(* The calls.                                                              *)

(* What is known of a call under way.                                      *)
LEMMA OneCall ==
  ASSUME KitInv, NEW call \in calls
  PROVE  /\ calls = {call} /\ ~peer.acked
         /\ call.game = peer.game /\ call.tool \in Stages /\ call.at \in Roles \cup {"gateway"}
         /\ DOMAIN call = {"tool", "game", "at"}
         /\ peer.stage \in {call.tool, "gone"}
         /\ call.tool = "result" => call.at = "gateway"
         /\ call.at \in Roles => call.at = Owner(cursor)
         /\ call.at \in Roles /\ facts.declares => cursor = peer.game
         /\ ~facts.early => Booted
         /\ call.tool # "negotiate" => cursor = peer.game /\ Greeted(peer.game)
         /\ \A S : call.tool \in S => Doing(S)
<1>0. CallLink /\ PeerLink
  BY DEF KitInv
<1>1. /\ calls = {call} /\ ~peer.acked
      /\ call = [tool |-> call.tool, game |-> peer.game, at |-> call.at]
      /\ call.tool \in Stages /\ call.at \in Roles \cup {"gateway"}
      /\ peer.stage \in {call.tool, "gone"}
      /\ call.tool = "result" => call.at = "gateway"
      /\ call.at \in Roles => call.at = Owner(cursor)
      /\ call.at \in Roles /\ facts.declares => cursor = peer.game
  BY <1>0 DEF CallLink
<1>2. call.game = peer.game /\ DOMAIN call = {"tool", "game", "at"}
  BY <1>1
<1>3. \A S : call.tool \in S => Doing(S)
  BY DEF Doing
<1>4. call.tool # "negotiate" => Doing(Later)
  BY <1>1, <1>3 DEF Stages, Later
<1>5. ~facts.early => Booted
  BY <1>0 DEF PeerLink
<1>6. call.tool # "negotiate" => cursor = peer.game /\ Greeted(peer.game)
  BY <1>0, <1>4 DEF PeerLink
<1>. QED  BY <1>1, <1>2, <1>3, <1>5, <1>6

(* A step that starts nothing and acknowledges no greeting.                *)
Quiet ==
  /\ Elsewhere
  /\ peer'.game = peer.game
  /\ peer'.stage \in Stages \cup {"over", "gone"}
  /\ DOMAIN peer' = DOMAIN peer /\ DOMAIN series' = DOMAIN series
  /\ \A S : "gone" \notin S /\ Doing(S)' => Doing(S)
  /\ Undisclosed' => Undisclosed
  /\ peer'.stage = "negotiate" /\ peer'.acked => peer.stage = "negotiate" /\ peer.acked
  /\ ~facts.early /\ (peer'.acked \/ calls' # {}) => Booted

LEMMA QuietKeeps ==
  ASSUME KitInv, Quiet, CallLink'
  PROVE  KitInv'
<1>0. PeerLink /\ SilentLink /\ Shape
  BY DEF KitInv
<1>1. /\ Elsewhere /\ cursor' = cursor /\ collected' = collected /\ backend' = backend
      /\ facts' = facts /\ peer'.game = peer.game /\ peer'.heard = peer.heard
      /\ ready' <=> ready
  BY DEF Quiet, Elsewhere
<1>2. Shape'
  BY <1>0, <1>1 DEF Shape, BackendShape, Quiet
<1>7. /\ Doing(Later)' => Doing(Later)
      /\ Doing({"negotiate", "receive_turn"})' => Doing({"negotiate", "receive_turn"})
  BY DEF Quiet, Later
<1>3. PeerLink'
  BY <1>0, <1>1, <1>7 DEF PeerLink, Quiet, Greeted, Booted
<1>4. SilentLink'
  <2>1. SilentPeer'
    BY <1>0, <1>1, <1>7 DEF SilentLink, SilentPeer, Greeted
  <2>2. SilentThief'
    BY <1>0, <1>1 DEF SilentLink, SilentThief
  <2>3. SilentPolice'
    BY <1>0, <1>1, <1>7 DEF SilentLink, SilentPolice
  <2>. QED  BY <2>1, <2>2, <2>3 DEF SilentLink
<1>5. ASSUME NEW r \in Roles
      PROVE  RoleLink(r)'
  <2>0. AckLink(r) /\ AuditLink(r)
    BY DEF KitInv, RoleLink
  <2>1. AckLink(r)'
    BY <1>1, <2>0 DEF AckLink, Quiet
  <2>2. AuditLink(r)'
    BY <1>1, <2>0 DEF AuditLink, Quiet
  <2>. QED  BY <1>1, <2>1, <2>2, ElsewhereKeeps DEF RoleLink
<1>6. HandedLink' /\ CursorLink' /\ SeriesLink'
  BY <1>1, ElsewhereKeeps
<1>. QED  BY <1>2, <1>3, <1>4, <1>5, <1>6 DEF KitInv

LEMMA KeepsSend ==
  ASSUME KitInv, Send
  PROVE  KitInv'
<1>0. Shape /\ PeerLink
  BY DEF KitInv
<1>. DEFINE new == [tool |-> peer.stage, game |-> peer.game, at |-> "gateway"]
<1>1. /\ peer.stage \in Stages /\ ~peer.acked /\ calls = {} /\ (facts.early \/ Booted)
      /\ calls' = {new}
      /\ UNCHANGED <<cursor, ready, collected, series, backend, peer, facts>>
  BY DEF Send, gateway
<1>2. \A S : Doing(S)' <=> Doing(S)
  BY <1>1 DEF Doing
<1>3. Undisclosed' <=> Undisclosed
  BY <1>1, <1>2 DEF Undisclosed
<1>4. Quiet
  BY <1>0, <1>1, <1>2, <1>3 DEF Quiet, Elsewhere
<1>5. CallLink'
  <2>1. new.tool = peer.stage /\ new.at = "gateway" /\ new.game = peer.game /\ "gateway" \notin Roles
    BY DEF Roles
  <2>. HIDE DEF new
  <2>2. new = [tool |-> new.tool, game |-> peer.game, at |-> new.at]
    BY <2>1 DEF new
  <2>. QED  BY <1>1, <2>1, <2>2 DEF CallLink
<1>. QED  BY <1>4, <1>5, QuietKeeps

LEMMA KeepsLeave ==
  ASSUME KitInv, Leave
  PROVE  KitInv'
<1>0. Shape /\ PeerLink /\ CallLink
  BY DEF KitInv
<1>1. /\ peer.stage \in Stages /\ peer' = [peer EXCEPT !.stage = "gone"]
      /\ UNCHANGED <<cursor, ready, collected, series, backend, calls, facts>>
  BY DEF Leave, gateway
<1>2. /\ peer'.game = peer.game /\ peer'.stage = "gone" /\ peer'.acked = peer.acked
      /\ peer'.heard = peer.heard /\ DOMAIN peer' = DOMAIN peer
  BY <1>0, <1>1 DEF Shape
<1>c. CallLink'
  BY <1>0, <1>1, <1>2 DEF CallLink
<1>4. Quiet
  <2>0. Elsewhere
    BY <1>1, <1>2 DEF Elsewhere
  <2>1. ASSUME NEW S, "gone" \notin S, Doing(S)'
        PROVE  Doing(S) /\ calls # {}
    BY <1>1, <1>2, <2>1 DEF Doing
  <2>2. Undisclosed' => Undisclosed
    <3>1. calls # {} => ~peer.acked
      BY <1>0 DEF CallLink
    <3>. QED  BY <1>2, <2>1, <3>1 DEF Undisclosed
  <2>. QED  BY <1>0, <1>1, <1>2, <2>0, <2>1, <2>2 DEF Quiet, PeerLink
<1>. QED  BY <1>4, <1>c, QuietKeeps

LEMMA KeepsLose ==
  ASSUME KitInv, NEW call \in calls, Lose(call)
  PROVE  KitInv'
<1>0. Shape /\ CallLink /\ PeerLink
  BY DEF KitInv
<1>1. /\ calls' = calls \ {call}
      /\ UNCHANGED <<cursor, ready, collected, series, backend, peer, facts>>
  BY DEF Lose, gateway
<1>2. calls' = {}
  BY <1>1, OneCall
<1>3. \A S : Doing(S)' => Doing(S)
  BY <1>1, <1>2 DEF Doing
<1>4. Quiet
  BY <1>0, <1>1, <1>2, <1>3 DEF Quiet, Elsewhere, Undisclosed, Shape, PeerLink
<1>5. CallLink'
  BY <1>2 DEF CallLink
<1>. QED  BY <1>4, <1>5, QuietKeeps

(* A call forwarded is the same call somewhere else.                       *)
LEMMA ForwardedOf ==
  ASSUME KitInv, NEW call \in calls, NEW r \in Roles, calls' = Forwarded(call, r), peer' = peer
  PROVE  /\ \A S : Doing(S)' <=> Doing(S)
         /\ Undisclosed' <=> Undisclosed
         /\ /\ call.tool # "result"
            /\ r' = Owner(cursor')
            /\ facts'.declares => cursor' = peer.game
            => CallLink'
<1>. DEFINE new == [call EXCEPT !.at = r]
<1>1. /\ calls = {call} /\ call.tool \in Stages /\ peer.stage \in {call.tool, "gone"}
      /\ call.game = peer.game /\ DOMAIN call = {"tool", "game", "at"} /\ ~peer.acked
  BY OneCall
<1>2. calls' = {new}
  BY <1>1 DEF Forwarded
<1>3. /\ new.tool = call.tool /\ new.game = peer.game /\ new.at = r
      /\ call = [tool |-> call.tool, game |-> peer.game, at |-> call.at]
  BY <1>1 DEF KitInv, CallLink
<1>4. new = [tool |-> new.tool, game |-> peer.game, at |-> new.at]
  BY <1>3
<1>. HIDE DEF new
<1>5. \A S : Doing(S)' <=> Doing(S)
  BY <1>1, <1>2, <1>3 DEF Doing
<1>6. Undisclosed' <=> Undisclosed
  BY <1>5 DEF Undisclosed
<1>7. ASSUME call.tool # "result", r' = Owner(cursor'), facts'.declares => cursor' = peer.game
      PROVE  CallLink'
  BY <1>1, <1>2, <1>3, <1>4, <1>7 DEF CallLink
<1>. QED  BY <1>5, <1>6, <1>7

LEMMA OwnerIsRole == \A n \in SubGame : Owner(n) \in Roles
  BY Numbers, Alternate

LEMMA KeepsRoute ==
  ASSUME KitInv, NEW call \in calls, Route(call)
  PROVE  KitInv'
<1>0. Shape /\ CallLink /\ PeerLink
  BY DEF KitInv
<1>1. /\ call.tool \in {"receive_turn", "submit_audit", "settlement"}
      /\ calls' = Forwarded(call, Owner(cursor))
      /\ UNCHANGED <<cursor, ready, collected, series, backend, peer, facts>>
  BY DEF Route, gateway
<1>2. Owner(cursor) \in Roles
  BY <1>0, OwnerIsRole DEF Shape
<1>3. /\ \A S : Doing(S)' <=> Doing(S)
      /\ Undisclosed' <=> Undisclosed
  BY <1>1, <1>2, ForwardedOf
<1>4. cursor = peer.game
  BY <1>1, OneCall
<1>5. CallLink'
  <2>. DEFINE r == Owner(cursor)
  <2>1. r \in Roles /\ calls' = Forwarded(call, r) /\ Owner(cursor') = r
    BY <1>1, <1>2
  <2>. HIDE DEF r
  <2>2. call.tool # "result" /\ cursor' = peer.game /\ peer' = peer
    BY <1>1, <1>4
  <2>. QED  BY <2>1, <2>2, ForwardedOf
<1>6. Quiet
  BY <1>0, <1>1, <1>3 DEF Quiet, Elsewhere, Shape, PeerLink
<1>. QED  BY <1>5, <1>6, QuietKeeps

(* What an acknowledgement changes of the peer.                            *)
LEMMA AcknowledgedOf ==
  ASSUME Shape, NEW call, peer' = Acknowledged(call)
  PROVE  /\ peer'.game = peer.game /\ peer'.stage = peer.stage /\ peer'.heard = peer.heard
         /\ DOMAIN peer' = DOMAIN peer
         /\ peer'.acked <=> peer.acked \/ (call.tool = peer.stage /\ call.game = peer.game)
  BY DEF Acknowledged, Shape

LEMMA KeepsAcceptResult ==
  ASSUME KitInv, NEW call \in calls, AcceptResult(call)
  PROVE  KitInv'
<1>0. Shape /\ CallLink /\ PeerLink
  BY DEF KitInv
<1>1. /\ call.tool = "result" /\ series' = [series EXCEPT !.handled = TRUE]
      /\ calls' = calls \ {call}
      /\ peer' = Acknowledged(call) \/ peer' = peer
      /\ UNCHANGED <<cursor, ready, collected, backend, facts>>
  BY DEF AcceptResult
<1>2. calls' = {} /\ ~peer.acked /\ peer.stage \in {"result", "gone"}
  BY <1>1, OneCall
<1>3. /\ series'.agreed = series.agreed /\ series'.sent = series.sent /\ DOMAIN series' = DOMAIN series
  BY <1>0, <1>1 DEF Shape
<1>4. /\ peer'.game = peer.game /\ peer'.stage = peer.stage /\ peer'.heard = peer.heard
      /\ DOMAIN peer' = DOMAIN peer
  BY <1>0, <1>1, AcknowledgedOf
<1>5. \A S : Doing(S)' => Doing(S)
  BY <1>2, <1>4 DEF Doing
<1>6. ~Undisclosed'
  BY <1>2, <1>4 DEF Undisclosed, Doing
<1>8. ~facts.early => Booted
  BY OneCall
<1>7. Quiet
  BY <1>0, <1>1, <1>2, <1>3, <1>4, <1>5, <1>6, <1>8 DEF Quiet, Elsewhere, Shape
<1>9. CallLink'
  BY <1>2 DEF CallLink
<1>. QED  BY <1>7, <1>9, QuietKeeps

(* A greeting for the live sub-game, or for the next one once the live one *)
(* was handed back: no backend is then greeted, plays or reports.          *)
LEMMA KeepsAssign ==
  ASSUME KitInv, NEW call \in calls, Assign(call)
  PROVE  KitInv'
<1>0. /\ Shape /\ CallLink /\ PeerLink /\ HandedLink /\ CursorLink /\ SeriesLink /\ SilentLink
      /\ \A r \in Roles : RoleLink(r)
  BY DEF KitInv
<1>. DEFINE n == Asked(call)
<1>1. /\ call.at = "gateway" /\ call.tool = "negotiate" /\ Assignable(n) /\ cursor' = n
      /\ ready' = (ready /\ n = cursor) /\ calls' = Forwarded(call, Owner(n))
      /\ UNCHANGED <<collected, series, backend, peer, facts>>
  BY DEF Assign
<1>2. /\ n = IF facts.declares THEN peer.game ELSE cursor
      /\ ~peer.acked /\ peer.stage \in {"negotiate", "gone"} /\ calls = {call}
      /\ ~facts.early => Booted
  BY <1>1, OneCall DEF Asked
<1>3. n \in SubGame /\ Owner(n) \in Roles
  BY <1>0, <1>2, OwnerIsRole DEF Shape
<1>4. (n = cursor) \/ (n = cursor + 1 /\ ready)
  BY <1>1 DEF Assignable
<1>. HIDE DEF n
<1>5. /\ \A S : Doing(S)' <=> Doing(S)
      /\ Undisclosed' <=> Undisclosed
  BY <1>1, <1>3, ForwardedOf
<1>6. CallLink'
  <2>. DEFINE r == Owner(n)
  <2>1. r \in Roles /\ calls' = Forwarded(call, r) /\ Owner(cursor') = r
    BY <1>1, <1>3
  <2>. HIDE DEF r
  <2>2. call.tool # "result" /\ (facts'.declares => cursor' = peer.game) /\ peer' = peer
    BY <1>1, <1>2
  <2>. QED  BY <2>1, <2>2, ForwardedOf
<1>7. CASE n = cursor
  <2>1. Quiet
    BY <1>0, <1>1, <1>2, <1>5, <1>7 DEF Quiet, Elsewhere, Shape, PeerLink
  <2>. QED  BY <1>6, <2>1, QuietKeeps
<1>8. CASE n = cursor + 1 /\ ready
  <2>n. cursor \in Nat /\ cursor >= 1 /\ peer.game \in Nat
    BY <1>0, Numbers DEF Shape, SubGame
  <2>1. facts.declares /\ n = peer.game /\ ~ready'
    <3>1. n # cursor
      BY <1>8, <2>n
    <3>. QED  BY <1>1, <1>2, <3>1
  <2>2. \A m \in SubGame : (HandedOn(m)' <=> HandedOn(m)) /\ (Greeted(m)' <=> Greeted(m))
    <3>. SUFFICES ASSUME NEW m \in SubGame
                  PROVE  (HandedOn(m)' <=> HandedOn(m)) /\ (Greeted(m)' <=> Greeted(m))
      OBVIOUS
    <3>1. m \in Nat /\ cursor' = cursor + 1 /\ ready
      BY <1>1, <1>8, Numbers
    <3>2. HandedOn(m)' <=> m < cursor + 1
      BY <2>1, <3>1 DEF HandedOn
    <3>3. HandedOn(m) <=> m < cursor + 1
      BY <2>n, <3>1 DEF HandedOn
    <3>. QED  BY <1>1, <3>2, <3>3 DEF Greeted
  <2>3. Shape'
    BY <1>0, <1>1, <1>3 DEF Shape, BackendShape
  <2>4. PeerLink'
    <3>1. ~Doing(Later)
      BY <1>1, <1>2 DEF Doing, Later
    <3>. QED  BY <1>0, <1>1, <1>2, <1>5, <2>1, <2>n, <3>1 DEF PeerLink, Booted, Shape
  <2>5. HandedLink' /\ CursorLink' /\ SeriesLink'
    <3>1. HandedLink'
      BY <1>0, <1>1, <2>2 DEF HandedLink
    <3>2. CursorLink'
      BY <1>0, <1>1, <1>8, <2>2, <2>n, Numbers DEF CursorLink
    <3>3. SeriesLink'
      BY <1>0, <1>1 DEF SeriesLink, AgreedIsWholeAndMutual, Complete
    <3>. QED  BY <3>1, <3>2, <3>3
  <2>6. SilentLink'
    BY <1>1, <2>1 DEF SilentLink, SilentPeer, SilentThief, SilentPolice
  <2>7. ASSUME NEW r \in Roles
        PROVE  RoleLink(r)'
    <3>0. /\ PathLink(r) /\ ReportLink(r) /\ GreetLink(r) /\ ReadyLink(r) /\ HeardLink(r)
          /\ AckLink(r) /\ AuditLink(r)
      BY <1>0 DEF RoleLink
    <3>n. backend[r].number \in SubGame /\ backend[r].number \in Nat
      BY <1>0, Numbers DEF Shape, BackendShape
    <3>1. PathLink(r)'
      BY <1>1, <1>8, <2>2, <2>n, <3>0, <3>n DEF PathLink
    <3>2. ReportLink(r)'
      BY <1>1, <3>0 DEF ReportLink
    <3>3. GreetLink(r)'
      <4>1. backend[r].pc \notin Playing
        BY <1>8, <2>1, <3>0 DEF GreetLink
      <4>2. ~(backend[r].pc = "greet" /\ backend[r].greeting # 0)
        <5>. SUFFICES ASSUME backend[r].pc = "greet", backend[r].greeting # 0
                      PROVE  FALSE
          OBVIOUS
        <5>1. cursor = backend[r].number /\ Owner(backend[r].number) = r
          BY <2>1, <3>0 DEF GreetLink, PathLink
        <5>. QED  BY <1>8, <2>n, <3>0, <5>1 DEF ReadyLink
      <4>. QED  BY <1>1, <3>0, <4>1, <4>2 DEF GreetLink
    <3>4. ReadyLink(r)'
      BY <2>1 DEF ReadyLink
    <3>5. HeardLink(r)'
      BY <1>1, <2>2, <3>0 DEF HeardLink
    <3>6. AckLink(r)'
      BY <1>1, <1>2 DEF AckLink
    <3>7. AuditLink(r)'
      BY <1>1, <1>5, <3>0 DEF AuditLink
    <3>. QED  BY <3>1, <3>2, <3>3, <3>4, <3>5, <3>6, <3>7 DEF RoleLink
  <2>. QED  BY <1>6, <2>3, <2>4, <2>5, <2>6, <2>7 DEF KitInv
<1>. QED  BY <1>4, <1>7, <1>8

(* The peer goes on: everything of its sub-game was acknowledged, and the  *)
(* backend of the next one has heard nothing of it.                        *)
LEMMA KeepsProceed ==
  ASSUME KitInv, Proceed
  PROVE  KitInv'
<1>0. /\ Shape /\ CallLink /\ PeerLink /\ SilentLink
      /\ \A r \in Roles : RoleLink(r)
  BY DEF KitInv
<1>1. /\ peer.acked /\ (peer.stage # "receive_turn" => Heard(peer.stage)) /\ calls' = {}
      /\ UNCHANGED <<cursor, ready, collected, series, backend, facts>>
  BY DEF Proceed, gateway
<1>2. calls = {}
  BY <1>1, OneCall
<1>n. /\ peer.game \in SubGame /\ peer.game \in Nat /\ peer.game >= 1 /\ cursor \in Nat /\ cursor >= 1
      /\ SubGames \in Nat /\ peer.game <= SubGames
  BY <1>0, Numbers DEF Shape, SubGame
<1>g. peer.stage # "gone"
  BY <1>0, <1>1, <1>n DEF PeerLink, Heard
<1>3. PICK next :
        /\ \/ peer.stage = "negotiate" /\ next = "receive_turn"
           \/ peer.stage = "receive_turn" /\ next = "submit_audit"
           \/ peer.stage = "submit_audit" /\ next = "settlement"
           \/ peer.stage = "submit_audit" /\ next = "negotiate" /\ peer.game # SubGames
           \/ peer.stage \in {"settlement", "result", "over"} /\ next \in {"result", "over"}
        /\ peer' = [peer EXCEPT !.stage = next, !.acked = FALSE,
                                !.game = IF next = "negotiate" THEN @ + 1 ELSE @]
  <2>1. peer.stage \in Stages \cup {"over"}
    BY <1>0, <1>g DEF Shape
  <2>2. CASE peer.stage = "negotiate"
    BY <2>2 DEF Proceed
  <2>3. CASE peer.stage = "receive_turn"
    BY <2>3 DEF Proceed
  <2>4. CASE peer.stage = "submit_audit"
    BY <2>4 DEF Proceed
  <2>5. CASE peer.stage = "settlement"
    BY <2>5 DEF Proceed
  <2>6. CASE peer.stage \in {"result", "over"}
    BY <2>6 DEF Proceed
  <2>. QED  BY <2>1, <2>2, <2>3, <2>4, <2>5, <2>6 DEF Stages
<1>t. /\ peer'.stage = next /\ peer'.acked = FALSE /\ peer'.heard = peer.heard
      /\ peer'.game = (IF next = "negotiate" THEN peer.game + 1 ELSE peer.game)
      /\ DOMAIN peer' = DOMAIN peer
  BY <1>0, <1>3 DEF Shape
<1>4. Elsewhere
  BY <1>1, <1>t DEF Elsewhere
<1>5. CallLink'
  BY <1>1 DEF CallLink
<1>6. Shape'
  BY <1>0, <1>1, <1>3, <1>n, <1>t DEF Shape, BackendShape, Stages, SubGame
<1>d. \A S : (Doing(S) <=> peer.stage \in S) /\ (Doing(S)' <=> next \in S)
  BY <1>1, <1>2, <1>t DEF Doing
<1>c. cursor = peer.game /\ Greeted(peer.game)
  <2>1. CASE peer.stage = "negotiate" /\ facts.declares
    BY <1>0, <1>1, <2>1 DEF PeerLink, Heard, Greeted
  <2>2. CASE peer.stage = "negotiate" /\ ~facts.declares
    <3>1. Greeted(peer.game)
      BY <1>1, <2>2 DEF Heard, Greeted
    <3>2. Owner(peer.game) = "police" /\ cursor = 1 /\ peer.game \in {1, 2}
      BY <1>0, <1>n, <2>2, <3>1 DEF SilentLink, SilentPeer
    <3>. QED  BY <1>n, <3>1, <3>2, Alternate
  <2>3. CASE peer.stage # "negotiate"
    <3>1. Doing(Later)
      BY <1>3, <1>d, <2>3 DEF Later
    <3>. QED  BY <1>0, <3>1 DEF PeerLink
  <2>. QED  BY <2>1, <2>2, <2>3
<1>7. PeerLink'
  <2>1. CASE next = "negotiate"
    BY <1>0, <1>1, <1>c, <1>d, <1>n, <1>t, <2>1 DEF PeerLink, Later, Greeted
  <2>2. CASE next # "negotiate"
    BY <1>0, <1>1, <1>c, <1>d, <1>n, <1>t, <2>2 DEF PeerLink, Later, Greeted
  <2>. QED  BY <2>1, <2>2
<1>s. facts.declares \/ peer.game = 1
  <2>1. CASE peer.stage = "negotiate"
    <3>1. ~facts.declares => cursor = 1
      BY <1>0 DEF SilentLink, SilentPeer
    <3>. QED  BY <1>c, <3>1
  <2>2. CASE peer.stage # "negotiate"
    <3>1. Doing(Later)
      BY <1>3, <1>d, <2>2 DEF Later
    <3>. QED  BY <1>0, <3>1 DEF SilentLink, SilentPeer
  <2>. QED  BY <2>1, <2>2
<1>8. SilentLink'
  <2>1. SilentPeer'
    BY <1>0, <1>1, <1>d, <1>n, <1>s, <1>t DEF SilentLink, SilentPeer, Later, Greeted
  <2>2. SilentThief'
    BY <1>0, <1>1 DEF SilentLink, SilentThief
  <2>3. SilentPolice'
    <3>1. peer'.game = 1 /\ Doing({"negotiate", "receive_turn"})'
            => peer.game = 1 /\ Doing({"negotiate", "receive_turn"})
      <4>1. CASE next = "negotiate"
        BY <1>n, <1>t, <4>1
      <4>2. CASE next # "negotiate"
        BY <1>3, <1>d, <1>t, <4>2
      <4>. QED  BY <4>1, <4>2
    <3>. QED  BY <1>0, <1>1, <3>1 DEF SilentLink, SilentPolice
  <2>. QED  BY <2>1, <2>2, <2>3 DEF SilentLink
<1>9. ASSUME NEW r \in Roles
      PROVE  RoleLink(r)'
  <2>0. AckLink(r) /\ AuditLink(r) /\ PathLink(r) /\ GreetLink(r)
    BY <1>0 DEF RoleLink
  <2>n. /\ backend[r].number \in Nat
        /\ backend[r].pc \in {"booting", "greet", "dead"} \cup Playing \cup After
    BY <1>0, Numbers DEF Shape, BackendShape
  <2>1. AckLink(r)'
    BY <1>t DEF AckLink
  <2>2. AuditLink(r)'
    <3>1. CASE next # "negotiate"
      <4>1. Undisclosed' => Undisclosed
        BY <1>3, <1>d, <1>t, <3>1 DEF Undisclosed
      <4>2. peer'.game = peer.game
        BY <1>t, <3>1
      <4>. QED  BY <1>1, <2>0, <4>1, <4>2 DEF AuditLink
    <3>2. CASE next = "negotiate"
      <4>1. peer'.game = peer.game + 1
        BY <1>t, <3>2
      <4>2. ASSUME r = Owner(peer.game + 1), backend[r].pc # "dead"
            PROVE  backend[r].number <= peer.game + 1
        <5>1. CASE backend[r].pc = "booting"
          BY <1>n, <2>0, <5>1 DEF PathLink
        <5>2. CASE backend[r].pc = "greet"
          <6>1. backend[r].number <= peer.game + 2 /\ Owner(backend[r].number) = r
            BY <1>c, <2>0, <5>2 DEF PathLink
          <6>2. Owner(peer.game + 2) # r
            <7>1. Owner(peer.game + 1) # Owner(peer.game) /\ Owner(peer.game + 2) = Owner(peer.game)
              BY <1>n, Alternate
            <7>. QED  BY <4>2, <7>1
          <6>3. backend[r].number # peer.game + 2
            BY <6>1, <6>2
          <6>. QED  BY <1>n, <2>n, <6>1, <6>3
        <5>3. CASE backend[r].pc \in After
          <6>1. HandedOn(backend[r].number)
            BY <2>0, <5>3 DEF PathLink
          <6>. QED  BY <1>c, <1>n, <2>n, <6>1 DEF HandedOn
        <5>4. CASE backend[r].pc \in Playing
          <6>1. CASE facts.declares
            BY <1>c, <1>n, <2>0, <2>n, <5>4, <6>1 DEF GreetLink
          <6>2. CASE ~facts.declares
            <7>1. peer.game = 1 /\ r = "thief"
              BY <1>n, <1>s, <4>2, <6>2, Alternate
            <7>. QED  BY <1>0, <5>4, <6>2, <7>1, Apartness DEF SilentLink, SilentThief
          <6>. QED  BY <6>1, <6>2
        <5>. QED  BY <2>n, <4>2, <5>1, <5>2, <5>3, <5>4
      <4>. QED  BY <1>1, <1>n, <2>0, <2>n, <4>1, <4>2 DEF AuditLink
    <3>. QED  BY <3>1, <3>2
  <2>. QED  BY <1>4, <2>1, <2>2, ElsewhereKeeps DEF RoleLink
<1>10. HandedLink' /\ CursorLink' /\ SeriesLink'
  BY <1>4, ElsewhereKeeps
<1>. QED  BY <1>5, <1>6, <1>7, <1>8, <1>9, <1>10 DEF KitInv

(* What a call changes of the backend it is served by.                     *)
LEMMA ReceivedOf ==
  ASSUME Shape, NEW call, NEW r \in Roles,
         call.tool \in {"negotiate", "receive_turn", "submit_audit", "settlement"},
         backend' = [backend EXCEPT ![r] = Received(r, call)]
  PROVE  /\ backend'[r].pc = backend[r].pc /\ backend'[r].number = backend[r].number
         /\ backend'[r].delivered = backend[r].delivered
         /\ backend'[r].greeting = (IF call.tool = "negotiate" THEN call.game ELSE backend[r].greeting)
         /\ backend'[r].turn = (IF call.tool = "receive_turn" /\ backend[r].turn = 0
                                THEN call.game ELSE backend[r].turn)
         /\ backend'[r].audit = (IF call.tool = "submit_audit" THEN call.game ELSE backend[r].audit)
         /\ backend[r].settlement => backend'[r].settlement
         /\ \A q \in Roles : q # r => backend'[q] = backend[q]
         /\ BackendShape'
<1>1. /\ DOMAIN backend = Roles /\ BackendShape
      /\ DOMAIN backend[r] = {"pc", "number", "greeting", "turn", "audit", "settlement", "delivered"}
  BY DEF Shape, BackendShape
<1>2. /\ backend'[r] = Received(r, call) /\ DOMAIN backend' = Roles
      /\ \A q \in Roles : q # r => backend'[q] = backend[q]
  BY <1>1
<1>3. /\ backend'[r].pc = backend[r].pc /\ backend'[r].number = backend[r].number
      /\ backend'[r].delivered = backend[r].delivered
      /\ backend'[r].greeting = (IF call.tool = "negotiate" THEN call.game ELSE backend[r].greeting)
      /\ backend'[r].turn = (IF call.tool = "receive_turn" /\ backend[r].turn = 0
                             THEN call.game ELSE backend[r].turn)
      /\ backend'[r].audit = (IF call.tool = "submit_audit" THEN call.game ELSE backend[r].audit)
      /\ backend[r].settlement => backend'[r].settlement
      /\ DOMAIN backend'[r] = DOMAIN backend[r]
  <2>1. CASE call.tool = "negotiate"
    <3>1. backend'[r] = [backend[r] EXCEPT !.greeting = call.game]
      BY <1>2, <2>1 DEF Received
    <3>. QED  BY <1>1, <2>1, <3>1
  <2>2. CASE call.tool = "receive_turn"
    <3>1. backend'[r] = [backend[r] EXCEPT !.turn = IF @ = 0 THEN call.game ELSE @]
      BY <1>2, <2>2 DEF Received
    <3>. QED  BY <1>1, <2>2, <3>1
  <2>3. CASE call.tool = "submit_audit"
    <3>1. backend'[r] = [backend[r] EXCEPT !.audit = call.game]
      BY <1>2, <2>3 DEF Received
    <3>. QED  BY <1>1, <2>3, <3>1
  <2>4. CASE call.tool = "settlement"
    <3>1. backend'[r] = [backend[r] EXCEPT !.settlement = TRUE]
      BY <1>2, <2>4 DEF Received
    <3>. QED  BY <1>1, <2>4, <3>1
  <2>. QED  BY <2>1, <2>2, <2>3, <2>4
<1>4. BackendShape'
  <2>. SUFFICES ASSUME NEW q \in Roles
                PROVE  /\ DOMAIN backend'[q] = {"pc", "number", "greeting", "turn", "audit", "settlement", "delivered"}
                       /\ backend'[q].pc \in {"booting", "greet", "dead"} \cup Playing \cup After
                       /\ backend'[q].number \in SubGame
    BY <1>2 DEF BackendShape
  <2>1. CASE q = r
    BY <1>1, <1>3, <2>1 DEF BackendShape
  <2>2. CASE q # r
    BY <1>1, <1>2, <2>2 DEF BackendShape
  <2>. QED  BY <2>1, <2>2
<1>. QED  BY <1>2, <1>3, <1>4

(* A turn or a disclosure that is served comes to the sub-game it is of,   *)
(* if disclosures are forwarded once.                                      *)
LEMMA ServedInItsSubGame ==
  ASSUME KitInv, facts.audited, NEW call \in calls, call.at \in Roles, Reachable(call.at),
         call.tool \in {"receive_turn", "submit_audit"}
  PROVE  backend[call.at].number = peer.game /\ Undisclosed
<1>. DEFINE r == call.at
<1>0. Shape /\ HeardLink(r) /\ AuditLink(r)
  BY DEF KitInv, RoleLink
<1>1. /\ cursor = peer.game /\ Greeted(peer.game) /\ r = Owner(cursor) /\ ~peer.acked
      /\ Doing({"negotiate", "receive_turn", "submit_audit"})
  BY OneCall
<1>2. Undisclosed
  BY <1>1 DEF Undisclosed
<1>3. backend[r].pc # "dead"
  BY DEF Reachable, Ended
<1>4. backend[r].number <= peer.game
  BY <1>0, <1>1, <1>2, <1>3 DEF AuditLink
<1>5. peer.game \in SubGame /\ peer.game \in Nat /\ backend[r].number \in Nat
  BY <1>0, Numbers DEF Shape, BackendShape
<1>6. backend[r].number >= peer.game
  BY <1>0, <1>1, <1>5 DEF HeardLink
<1>. QED  BY <1>2, <1>4, <1>5, <1>6

LEMMA KeepsDeliver ==
  ASSUME KitInv, NEW call \in calls, Deliver(call)
  PROVE  KitInv'
<1>. DEFINE r == call.at
<1>0. /\ Shape /\ CallLink /\ PeerLink /\ HandedLink /\ CursorLink /\ SeriesLink /\ SilentLink
      /\ \A q \in Roles : RoleLink(q)
  BY DEF KitInv
<1>1. /\ r \in Roles /\ Reachable(r) /\ Admits(r, call)
      /\ backend' = [backend EXCEPT ![r] = Received(r, call)]
      /\ Answer(call) \/ NoAnswer(call)
      /\ UNCHANGED <<cursor, ready, collected, series, facts>>
  BY DEF Deliver, gateway
<1>2. /\ calls = {call} /\ ~peer.acked /\ call.game = peer.game
      /\ call.tool \in Stages /\ call.tool # "result" /\ peer.stage \in {call.tool, "gone"}
      /\ r = Owner(cursor) /\ (facts.declares => cursor = peer.game)
      /\ ~facts.early => Booted
  BY <1>1, OneCall DEF Roles
<1>3. call.tool \in {"negotiate", "receive_turn", "submit_audit", "settlement"}
  BY <1>2 DEF Stages
<1>t. /\ backend'[r].pc = backend[r].pc /\ backend'[r].number = backend[r].number
      /\ backend'[r].delivered = backend[r].delivered
      /\ backend'[r].greeting = (IF call.tool = "negotiate" THEN call.game ELSE backend[r].greeting)
      /\ backend'[r].turn = (IF call.tool = "receive_turn" /\ backend[r].turn = 0
                             THEN call.game ELSE backend[r].turn)
      /\ backend'[r].audit = (IF call.tool = "submit_audit" THEN call.game ELSE backend[r].audit)
      /\ backend[r].settlement => backend'[r].settlement
      /\ \A q \in Roles : q # r => backend'[q] = backend[q]
      /\ BackendShape'
  BY <1>0, <1>1, <1>3, ReceivedOf
<1>n. /\ peer.game \in SubGame /\ peer.game \in Nat /\ peer.game >= 1
      /\ backend[r].number \in SubGame /\ backend[r].number \in Nat
  BY <1>0, <1>1, Numbers DEF Shape, BackendShape, SubGame
(* It was answered, or it may come once more.                              *)
<1>4. \/ calls' = {} /\ peer' = Acknowledged(call)
      \/ Unanswered(call) /\ peer' = peer /\ calls' \in {calls, {}}
  BY <1>1, <1>2 DEF Answer, NoAnswer
<1>u. /\ peer'.game = peer.game /\ peer'.stage = peer.stage /\ peer'.heard = peer.heard
      /\ DOMAIN peer' = DOMAIN peer
      /\ calls' = {} \/ (calls' = calls /\ peer' = peer)
      /\ peer'.acked => peer'.stage = call.tool
  <2>1. CASE calls' = {} /\ peer' = Acknowledged(call)
    BY <1>0, <1>2, <2>1, AcknowledgedOf
  <2>2. CASE Unanswered(call) /\ peer' = peer /\ calls' \in {calls, {}}
    BY <1>2, <2>2
  <2>. QED  BY <1>4, <2>1, <2>2
<1>5. \A S : Doing(S)' => Doing(S)
  BY <1>u DEF Doing
<1>6. Undisclosed' => Undisclosed
  BY <1>2, <1>5 DEF Undisclosed
<1>7. Shape'
  BY <1>0, <1>1, <1>t, <1>u DEF Shape
<1>8. CallLink'
  BY <1>0, <1>1, <1>u DEF CallLink
<1>b. Booted => Booted'
  BY <1>t DEF Booted
<1>9. PeerLink'
  BY <1>0, <1>1, <1>2, <1>5, <1>b, <1>u DEF PeerLink, Greeted
<1>10. HandedLink' /\ CursorLink' /\ SeriesLink'
  <2>1. HandedLink' /\ CursorLink'
    BY <1>0, <1>1, <1>u DEF HandedLink, CursorLink, HandedOn, Greeted
  <2>2. \A q \in Roles : backend[q].settlement => backend'[q].settlement
    BY <1>t
  <2>3. SeriesLink'
    BY <1>0, <1>1, <1>u, <2>2 DEF SeriesLink, AgreedIsWholeAndMutual, Complete, PlaysLast
  <2>. QED  BY <2>1, <2>3
<1>11. ASSUME NEW q \in Roles, q # r
       PROVE  RoleLink(q)'
  <2>0. /\ PathLink(q) /\ ReportLink(q) /\ GreetLink(q) /\ ReadyLink(q) /\ HeardLink(q)
        /\ AckLink(q) /\ AuditLink(q)
    BY <1>0 DEF RoleLink
  <2>1. backend'[q] = backend[q]
    BY <1>t, <1>11
  <2>2. PathLink(q)' /\ ReportLink(q)'
    BY <1>1, <1>u, <2>0, <2>1 DEF PathLink, ReportLink, Greeted, HandedOn
  <2>3. GreetLink(q)' /\ ReadyLink(q)' /\ HeardLink(q)'
    BY <1>1, <1>u, <2>0, <2>1 DEF GreetLink, ReadyLink, HeardLink, Greeted
  <2>4. AckLink(q)'
    BY <1>1, <1>2, <1>u, <1>11 DEF AckLink
  <2>5. AuditLink(q)'
    BY <1>1, <1>6, <1>u, <2>0, <2>1 DEF AuditLink
  <2>. QED  BY <2>2, <2>3, <2>4, <2>5 DEF RoleLink
<1>12. RoleLink(r)'
  <2>0. /\ PathLink(r) /\ ReportLink(r) /\ GreetLink(r) /\ ReadyLink(r) /\ HeardLink(r)
        /\ AckLink(r) /\ AuditLink(r)
    BY <1>0, <1>1 DEF RoleLink
  <2>1. PathLink(r)'
    <3>1. backend'[r].audit = 0 => backend[r].audit = 0
      BY <1>2, <1>n, <1>t
    <3>. QED  BY <1>1, <1>t, <1>u, <2>0, <3>1 DEF PathLink, Greeted, HandedOn
  <2>2. ReportLink(r)'
    BY <1>1, <1>t, <1>u, <2>0 DEF ReportLink
  <2>3. GreetLink(r)'
    BY <1>1, <1>2, <1>t, <2>0 DEF GreetLink, Admits
  <2>4. ReadyLink(r)' /\ HeardLink(r)'
    BY <1>1, <1>t, <1>u, <2>0 DEF ReadyLink, HeardLink, Greeted
  <2>5. AckLink(r)'
    <3>. SUFFICES ASSUME facts.declares, peer'.stage = "negotiate", peer'.acked
                  PROVE  \/ backend'[r].number = peer.game /\ backend'[r].greeting = peer.game
                              /\ backend'[r].pc # "booting"
                         \/ facts.early /\ peer.game = 1 /\ backend'[r].pc = "booting"
      BY <1>1, <1>u DEF AckLink
    <3>1. call.tool = "negotiate"
      BY <1>u
    <3>2. backend[r].number = peer.game
      BY <1>1, <1>2, <3>1 DEF Admits
    <3>3. backend[r].pc = "booting" => facts.early /\ peer.game = 1
      BY <1>1, <1>2, <2>0, <3>2 DEF Booted, PathLink
    <3>. QED  BY <1>2, <1>t, <3>1, <3>2, <3>3
  <2>6. AuditLink(r)'
    <3>. SUFFICES ASSUME facts.audited
                  PROVE  AuditLink(r)'
      BY <1>1 DEF AuditLink
    <3>1. CASE call.tool = "submit_audit"
      <4>1. backend[r].number = peer.game
        BY <1>1, <3>1, ServedInItsSubGame
      <4>2. calls' = {} /\ peer' = Acknowledged(call)
        BY <1>4, <3>1 DEF Unanswered
      <4>3. ~Undisclosed'
        <5>1. peer.stage = "submit_audit" => peer'.acked
          BY <1>0, <1>2, <3>1, <4>2, AcknowledgedOf
        <5>2. peer.stage \in {"submit_audit", "gone"}
          BY <1>2, <3>1
        <5>. QED  BY <1>u, <4>2, <5>1, <5>2 DEF Undisclosed, Doing
      <4>. QED  BY <1>1, <1>2, <1>n, <1>t, <1>u, <2>0, <3>1, <4>1, <4>3 DEF AuditLink
    <3>2. CASE call.tool = "receive_turn"
      <4>1. backend[r].number = peer.game
        BY <1>1, <3>2, ServedInItsSubGame
      <4>. QED  BY <1>1, <1>2, <1>6, <1>t, <1>u, <2>0, <3>2, <4>1 DEF AuditLink
    <3>3. CASE call.tool \in {"negotiate", "settlement"}
      BY <1>1, <1>6, <1>t, <1>u, <2>0, <3>3 DEF AuditLink
    <3>. QED  BY <1>3, <3>1, <3>2, <3>3
  <2>. QED  BY <2>1, <2>2, <2>3, <2>4, <2>5, <2>6 DEF RoleLink
<1>13. SilentLink'
  <2>. SUFFICES ASSUME ~facts.declares
                PROVE  SilentLink'
    BY <1>1 DEF SilentLink, SilentPeer, SilentThief, SilentPolice
  <2>1. r = "police"
    <3>1. cursor = 1
      BY <1>0 DEF SilentLink, SilentPeer
    <3>. QED  BY <1>2, <3>1, Alternate
  <2>2. SilentPeer'
    BY <1>0, <1>1, <1>5, <1>u DEF SilentLink, SilentPeer, Greeted
  <2>3. SilentThief'
    BY <1>0, <1>1, <1>t, <2>1 DEF SilentLink, SilentThief, Roles
  <2>4. SilentPolice'
    <3>1. backend[r].number = 3 => call.tool # "receive_turn"
      <4>1. call.tool = "receive_turn" => peer.game = 1 /\ Doing({"negotiate", "receive_turn"})
        <5>1. call.tool = "receive_turn" => Doing(Later) /\ Doing({"negotiate", "receive_turn"})
          BY OneCall DEF Later
        <5>. QED  BY <1>0, <5>1 DEF SilentLink, SilentPeer
      <4>. QED  BY <1>0, <2>1, <4>1 DEF SilentLink, SilentPolice
    <3>2. Doing({"negotiate", "receive_turn"})' => call.tool # "submit_audit"
      BY <1>2, <1>u DEF Doing
    <3>3. Doing({"negotiate", "receive_turn"})' => Doing({"negotiate", "receive_turn"})
      BY <1>5
    <3>. QED  BY <1>0, <1>1, <1>t, <1>u, <2>1, <3>1, <3>2, <3>3 DEF SilentLink, SilentPolice
  <2>. QED  BY <2>2, <2>3, <2>4 DEF SilentLink
<1>14. \A q \in Roles : RoleLink(q)'
  BY <1>11, <1>12
<1>. QED  BY <1>7, <1>8, <1>9, <1>10, <1>13, <1>14 DEF KitInv

-----------------------------------------------------------------------------
LEMMA KitNext == KitInv /\ [Next]_vars => KitInv'
<1>. SUFFICES ASSUME KitInv, [Next]_vars
              PROVE  KitInv'
  OBVIOUS
<1>1. CASE Send \/ Proceed \/ Leave
  BY <1>1, KeepsSend, KeepsProceed, KeepsLeave
<1>2. ASSUME NEW call \in calls,
             Lose(call) \/ Assign(call) \/ Route(call) \/ AcceptResult(call) \/ Deliver(call)
      PROVE  KitInv'
  BY <1>2, KeepsLose, KeepsAssign, KeepsRoute, KeepsAcceptResult, KeepsDeliver
<1>3. ASSUME NEW r \in Roles, Run(r)
      PROVE  KitInv'
  <2>1. CASE Open(r) \/ Greet(r) \/ Disclose(r) \/ Verify(r)
    BY <2>1, KeepsOpen, KeepsGreet, KeepsDisclose, KeepsVerify
  <2>2. CASE Contribute(r) \/ HandBack(r) \/ ReadRows(r) \/ ReportSeries(r)
    BY <2>2, KeepsContribute, KeepsHandBack, KeepsReadRows, KeepsReportSeries
  <2>3. CASE RequestResult(r) \/ AgreeResult(r) \/ Finish(r)
    BY <2>3, KeepsRequestResult, KeepsAgreeResult, KeepsFinish
  <2>. QED  BY <1>3, <2>1, <2>2, <2>3 DEF Run
<1>4. ASSUME NEW r \in Roles, WindowCloses(r) \/ Fail(r)
      PROVE  KitInv'
  BY <1>4, KeepsWindowCloses, KeepsFail
<1>5. ASSUME NEW r \in Roles, NEW arrives \in BOOLEAN, Exchange(r, arrives)
      PROVE  KitInv'
  BY <1>5, KeepsExchange
<1>6. CASE UNCHANGED vars
  BY <1>6 DEF vars, gateway, KitInv, Shape, BackendShape, CallLink, PeerLink, HandedLink, CursorLink,
     SeriesLink, AgreedIsWholeAndMutual, Complete, PlaysLast, SilentLink, SilentPeer, SilentThief,
     SilentPolice, RoleLink, PathLink, ReportLink, GreetLink, ReadyLink, HeardLink, AckLink,
     AuditLink, Doing, Undisclosed, Greeted, HandedOn, Booted
<1>. QED  BY <1>1, <1>2, <1>3, <1>4, <1>5, <1>6 DEF Next

LEMMA KitAlways == Spec => []KitInv
<1>. QED  BY KitInit, KitNext, PTL DEF Spec

-----------------------------------------------------------------------------
LEMMA KitOvertakesNobody == KitInv => NobodyOvertaken
<1>. SUFFICES ASSUME KitInv, facts.declares
              PROVE  NobodyOvertaken
  BY DEF NobodyOvertaken
<1>1. ASSUME NEW r \in Roles, backend[r].pc \in Playing
      PROVE  cursor = backend[r].number /\ ~ready
  BY <1>1 DEF KitInv, RoleLink, GreetLink
<1>2. ASSUME peer.stage = "negotiate", peer.acked
      PROVE  LET one == backend[Owner(peer.game)]
             IN \/ one.pc = "dead"
                \/ one.number = peer.game /\ one.greeting = peer.game
                \/ one.number > peer.game
                \/ facts.early /\ peer.game = 1 /\ one.pc \in {"booting", "greet"}
  <2>1. Owner(peer.game) \in Roles
    BY OwnerIsRole DEF KitInv, Shape
  <2>2. AckLink(Owner(peer.game))
    BY <2>1 DEF KitInv, RoleLink
  <2>. QED  BY <1>2, <2>2 DEF AckLink
<1>. QED  BY <1>1, <1>2 DEF NobodyOvertaken

(* The gateway moves on under nobody who still plays or reports, and the   *)
(* acknowledged greeting of a sub-game was taken by the backend that plays *)
(* it (`SeriesHandoff`, `KitGroupGateway.negotiate`).                      *)
THEOREM NobodyIsOvertaken == Spec => []NobodyOvertaken
  BY KitAlways, KitOvertakesNobody, PTL

LEMMA KitTrafficIsOwn == KitInv => TrafficIsOwn
<1>. SUFFICES ASSUME KitInv, NEW r \in Roles
              PROVE  LET one == backend[r]
                     IN /\ facts.declares => one.greeting \in {0, one.number}
                        /\ facts.declares /\ facts.audited => one.turn \in {0, one.number}
                        /\ facts.audited /\ one.pc \in Reporting => one.audit = one.number
  BY DEF TrafficIsOwn
<1>1. GreetLink(r) /\ AuditLink(r) /\ PathLink(r)
  BY DEF KitInv, RoleLink
<1>. QED  BY <1>1 DEF GreetLink, AuditLink, PathLink

(* Nobody is greeted for, plays or verifies another's sub-game             *)
(* (`_forward`, `open_sub_game`).                                          *)
THEOREM TrafficStaysOwn == Spec => []TrafficIsOwn
  BY KitAlways, KitTrafficIsOwn, PTL

LEMMA KitAgreed == KitInv => AgreedIsWholeAndMutual
  BY DEF KitInv, SeriesLink

(* A result both sides agreed covers the whole series, and the settlement  *)
(* went both ways (`SettlementExchange.settle`, `GroupResultAgreement`).   *)
THEOREM AgreementIsWholeAndMutual == Spec => []AgreedIsWholeAndMutual
  BY KitAlways, KitAgreed, PTL

-----------------------------------------------------------------------------
(* The promise of one series.                                              *)

Begun == {n \in SubGame : Greeted(n)}
Handed == {n \in SubGame : HandedOn(n)}
Reported == {n \in SubGame : HandedOn(n) /\ \A part \in Parts : n \in collected[part]}

LEMMA Counts == (KitInv => Reported = Handed) /\ (KitInv' => Reported' = Handed')
  BY DEF KitInv, HandedLink, Reported, Handed

LEMMA FiniteCounts ==
  ASSUME NEW S \in SUBSET SubGame
  PROVE  IsFiniteSet(S) /\ Cardinality(S) \in Nat /\ Cardinality(S) <= SubGames
<1>1. IsFiniteSet(SubGame) /\ Cardinality(SubGame) = SubGames
  BY Numbers, FS_Interval DEF SubGame
<1>. QED  BY <1>1, FS_Subset, FS_CardinalityType

LEMMA OneMore ==
  ASSUME NEW S \in SUBSET SubGame, NEW n \in SubGame, n \notin S
  PROVE  Cardinality(S \cup {n}) = Cardinality(S) + 1
  BY FiniteCounts, FS_AddElement

(* A step that begins, hands on and agrees nothing.                        *)
LEMMA GroupStays ==
  ASSUME KitInv, KitInv', Begun' = Begun, Handed' = Handed,
         series'.agreed = series.agreed,
         series'.written = series.written \/ (series.agreed /\ series'.written = TRUE)
  PROVE  [Group!Next]_Group!vars
<1>1. Reported' = Reported
  BY Counts
<1>2. /\ Cardinality({n \in SubGame : <<"negotiate", n>> \in peer'.heard})
           = Cardinality({n \in SubGame : <<"negotiate", n>> \in peer.heard})
      /\ Cardinality({n \in SubGame : HandedOn(n) /\ \A part \in Parts : n \in collected[part]})'
           = Cardinality({n \in SubGame : HandedOn(n) /\ \A part \in Parts : n \in collected[part]})
  BY <1>1 DEF Begun, Greeted, Reported
<1>. QED  BY <1>2 DEF Group!Next, Group!Write, Group!vars

(* What `WriteSeries` may do to the files.                                 *)
LEMMA Writes ==
  ASSUME Shape, series.written \in BOOLEAN, NEW s, NEW parts, series' = WriteSeries(s, parts),
         s.written = series.written, DOMAIN s = DOMAIN series
  PROVE  series'.written = series.written \/ (s.agreed /\ series'.written = TRUE)
  BY DEF WriteSeries, Shape

(* The gateway's files are there or not.                                   *)
LEMMA FilesNext ==
  KitInv /\ series.written \in BOOLEAN /\ [Next]_vars => (series.written \in BOOLEAN)'
<1>. SUFFICES ASSUME KitInv, series.written \in BOOLEAN, [Next]_vars
              PROVE  series'.written \in BOOLEAN
  OBVIOUS
<1>0. DOMAIN series = {"agreed", "sent", "handled", "written"}
  BY DEF KitInv, Shape
<1>1. CASE Send \/ Proceed \/ Leave
  BY <1>1 DEF Send, Proceed, Leave, gateway
<1>2. ASSUME NEW call \in calls,
             Lose(call) \/ Assign(call) \/ Route(call) \/ AcceptResult(call) \/ Deliver(call)
      PROVE  series'.written \in BOOLEAN
  BY <1>0, <1>2 DEF Lose, Assign, Route, AcceptResult, Deliver, gateway
<1>3. ASSUME NEW r \in Roles, Run(r)
      PROVE  series'.written \in BOOLEAN
  <2>1. CASE Open(r) \/ Greet(r) \/ Disclose(r) \/ Verify(r)
    BY <2>1 DEF Open, Greet, Disclose, Verify, gateway
  <2>2. CASE Contribute(r)
    BY <1>0, <2>2 DEF Contribute, WriteSeries
  <2>3. CASE HandBack(r) \/ ReadRows(r) \/ RequestResult(r) \/ Finish(r)
    BY <1>0, <2>3 DEF HandBack, ReadRows, RequestResult, Finish, gateway
  <2>4. CASE ReportSeries(r) \/ AgreeResult(r)
    BY <1>0, <2>4 DEF ReportSeries, AgreeResult, WriteSeries
  <2>. QED  BY <1>3, <2>1, <2>2, <2>3, <2>4 DEF Run
<1>4. ASSUME NEW r \in Roles, WindowCloses(r) \/ Fail(r)
      PROVE  series'.written \in BOOLEAN
  BY <1>4 DEF WindowCloses, Fail, gateway
<1>5. ASSUME NEW r \in Roles, NEW arrives \in BOOLEAN, Exchange(r, arrives)
      PROVE  series'.written \in BOOLEAN
  BY <1>5 DEF Exchange, gateway
<1>6. CASE UNCHANGED vars
  BY <1>6 DEF vars, gateway
<1>. QED  BY <1>1, <1>2, <1>3, <1>4, <1>5, <1>6 DEF Next

LEMMA FilesAlways == Spec => [](KitInv /\ series.written \in BOOLEAN)
<1>1. Init => series.written \in BOOLEAN
  BY DEF Init
<1>. QED  BY <1>1, KitAlways, FilesNext, PTL DEF Spec

LEMMA GroupInit == Init => Group!Init
<1>. SUFFICES ASSUME Init
              PROVE  Group!Init
  OBVIOUS
<1>1. {n \in SubGame : <<"negotiate", n>> \in peer.heard} = {}
  BY DEF Init
<1>2. {n \in SubGame : HandedOn(n) /\ \A part \in Parts : n \in collected[part]} = {}
  BY DEF Init, Parts
<1>. QED  BY <1>1, <1>2, FS_EmptySet DEF Init, Group!Init

(* The sub-game that begins comes after all that were handed on.           *)
LEMMA GroupBegins ==
  ASSUME KitInv, KitInv', NEW r \in Roles, Greet(r)
  PROVE  Group!Begin
<1>. DEFINE n == backend[r].number
<1>0. /\ PathLink(r) /\ GreetLink(r) /\ ReadyLink(r) /\ HeardLink(r)
      /\ Shape /\ CursorLink /\ SilentLink /\ HandedLink
  BY DEF KitInv, RoleLink
<1>1. /\ backend[r].pc = "greet" /\ backend[r].greeting # 0 /\ Says("negotiate", n)
      /\ UNCHANGED <<cursor, ready, collected, series>>
  BY DEF Greet, At, gateway
<1>n. n \in SubGame /\ n \in Nat /\ Owner(n) = r /\ cursor \in Nat
  BY <1>0, <1>1, Numbers DEF Shape, BackendShape, PathLink
<1>2. \A m \in SubGame : Greeted(m) /\ Owner(m) = r => m < n
  BY <1>0, <1>1, <1>n, Numbers DEF HeardLink
<1>3. ASSUME facts.declares
      PROVE  Begun = Handed /\ n \notin Begun
  <2>1. cursor = n
    BY <1>0, <1>1, <1>3 DEF GreetLink
  <2>2. ~ready
    BY <1>0, <1>1, <1>n, <2>1 DEF ReadyLink
  <2>3. \A m \in SubGame : HandedOn(m) <=> m < n
    BY <1>n, <2>1, <2>2, Numbers DEF HandedOn
  <2>4. \A m \in SubGame : Greeted(m) => m <= n /\ m # n
    BY <1>0, <1>2, <1>3, <1>n, <2>1, Numbers DEF CursorLink
  <2>5. \A m \in SubGame : Greeted(m) <=> m < n
    <3>. SUFFICES ASSUME NEW m \in SubGame
                  PROVE  Greeted(m) <=> m < n
      OBVIOUS
    <3>1. Greeted(m) => m < n
      <4>1. m \in Nat
        BY Numbers
      <4>. QED  BY <1>n, <2>4, <4>1
    <3>2. m < n => Greeted(m)
      BY <1>0, <2>3 DEF HandedLink
    <3>. QED  BY <3>1, <3>2
  <2>. QED  BY <1>n, <2>3, <2>5 DEF Begun, Handed
<1>4. ASSUME ~facts.declares
      PROVE  Begun = Handed /\ n \notin Begun
  <2>1. r = "police" /\ cursor = 1 /\ n \in {1, 3}
    BY <1>0, <1>1, <1>4 DEF SilentLink, SilentThief, SilentPolice, SilentPeer, Roles
  <2>2. \A m \in SubGame : Greeted(m) => m < n /\ Owner(m) = r
    BY <1>0, <1>2, <1>4, <2>1 DEF SilentLink, SilentPeer
  <2>3. \A m \in SubGame : m < n /\ Owner(m) = r => n = 3 /\ m = 1
    <3>. SUFFICES ASSUME NEW m \in SubGame, m < n, Owner(m) = r
                  PROVE  n = 3 /\ m = 1
      OBVIOUS
    <3>1. m \in Nat /\ m >= 1
      BY Numbers DEF SubGame
    <3>2. m # 2
      BY <2>1, <3>1, Alternate
    <3>. QED  BY <2>1, <3>1, <3>2
  <2>4. ready <=> n = 3
    BY <1>0, <1>1, <1>4, <1>n, <2>1, Alternate DEF ReadyLink, SilentLink, SilentPolice
  <2>5. \A m \in SubGame : HandedOn(m) <=> m = 1 /\ n = 3
    BY <2>1, <2>4, Numbers DEF HandedOn, SubGame
  <2>6. \A m \in SubGame : Greeted(m) <=> m = 1 /\ n = 3
    BY <1>0, <2>2, <2>3, <2>5 DEF HandedLink
  <2>. QED  BY <1>n, <2>5, <2>6 DEF Begun, Handed
<1>5. Begun = Handed /\ n \notin Begun
  BY <1>3, <1>4
<1>6. Begun' = Begun \cup {n} /\ Handed' = Handed
  BY <1>0, <1>1, <1>n, Told DEF Begun, Handed, Greeted, HandedOn
<1>7. Begun \in SUBSET SubGame /\ Begun' \in SUBSET SubGame
  BY DEF Begun
<1>8. /\ Cardinality(Begun') = Cardinality(Begun) + 1 /\ Cardinality(Begun) \in Nat
      /\ Cardinality(Begun') <= SubGames /\ SubGames \in Nat
  BY <1>n, <1>5, <1>6, <1>7, OneMore, FiniteCounts, Numbers
<1>9. Cardinality(Begun) < SubGames /\ Cardinality(Reported) = Cardinality(Begun)
      /\ Cardinality(Reported') = Cardinality(Reported)
  BY <1>5, <1>6, <1>8, Counts
<1>. QED  BY <1>1, <1>8, <1>9 DEF Group!Begin, Begun, Greeted, Reported

(* Handing back settles the sub-game that was begun.                       *)
LEMMA GroupSettles ==
  ASSUME KitInv, KitInv', NEW r \in Roles, HandBack(r)
  PROVE  Group!Settle
<1>. DEFINE n == backend[r].number
<1>0. PathLink(r) /\ ReadyLink(r) /\ Shape /\ HandedLink
  BY DEF KitInv, RoleLink
<1>1. /\ backend[r].pc = "settled" /\ n = cursor /\ ready' = TRUE
      /\ UNCHANGED <<cursor, collected, series, peer>>
  BY DEF HandBack, At
<1>2. "settled" \in Playing
  BY DEF Playing, Reporting
<1>n. n \in SubGame /\ n \in Nat /\ Owner(n) = r
  BY <1>0, <1>1, Numbers DEF Shape, BackendShape, PathLink
<1>3. ~ready
  BY <1>0, <1>1, <1>2, <1>n DEF ReadyLink
<1>4. n \notin Handed /\ Handed' = Handed \cup {n} /\ Begun' = Begun
  <2>1. \A m \in SubGame : (HandedOn(m) <=> m < n) /\ (HandedOn(m)' <=> m < n \/ m = n)
    BY <1>1, <1>3 DEF HandedOn
  <2>. QED  BY <1>1, <1>n, <2>1 DEF Handed, Begun, Greeted
<1>5. Handed \cup {n} \subseteq Begun
  <2>1. Greeted(n)
    BY <1>0, <1>1, <1>2 DEF PathLink
  <2>. QED  BY <1>0, <1>n, <2>1 DEF HandedLink, Handed, Begun
<1>6. Handed \in SUBSET SubGame /\ Begun \in SUBSET SubGame
  BY DEF Handed, Begun
<1>7. /\ Cardinality(Handed') = Cardinality(Handed) + 1
      /\ Cardinality(Handed') <= Cardinality(Begun)
      /\ Cardinality(Handed) \in Nat /\ Cardinality(Begun) \in Nat
  BY <1>n, <1>4, <1>5, <1>6, OneMore, FiniteCounts, FS_Subset
<1>8. /\ Cardinality(Reported) < Cardinality(Begun)
      /\ Cardinality(Reported') = Cardinality(Reported) + 1
  BY <1>7, Counts
<1>. QED  BY <1>1, <1>4, <1>8 DEF Group!Settle, Begun, Greeted, Reported

(* Agreed is a series that is over.                                        *)
LEMMA GroupAgrees ==
  ASSUME KitInv, KitInv', series.written \in BOOLEAN, NEW r \in Roles, ReportSeries(r)
  PROVE  [Group!Next]_Group!vars
<1>0. PathLink(r) /\ ReportLink(r) /\ Shape /\ SeriesLink
  BY DEF KitInv, RoleLink
<1>. DEFINE s == [series EXCEPT !.agreed = TRUE]
<1>1. /\ backend[r].pc = "report" /\ series' = WriteSeries(s, collected)
      /\ UNCHANGED <<cursor, ready, collected, peer>>
  BY DEF ReportSeries, At
<1>2. /\ s.agreed = TRUE /\ s.sent = series.sent /\ s.written = series.written
      /\ DOMAIN s = DOMAIN series
  BY <1>0 DEF Shape
<1>. HIDE DEF s
<1>3. /\ series'.agreed = TRUE
      /\ series'.written = series.written \/ series'.written = TRUE
      /\ ~series.sent => series'.written = series.written
  BY <1>0, <1>1, <1>2 DEF WriteSeries, Shape
<1>4. Begun' = Begun /\ Handed' = Handed
  BY <1>1 DEF Begun, Handed, Greeted, HandedOn
<1>5. Reported' = Reported
  BY <1>4, Counts
<1>6. CASE ~series.sent
  <2>1. HandedOn(SubGames)
    BY <1>0, <1>1 DEF PathLink, ReportLink, After
  <2>2. \A m \in SubGame : HandedOn(m)
    BY <2>1, HandedToTheEnd
  <2>3. Reported = SubGame
    BY <2>2, Counts DEF Handed
  <2>4. Cardinality(Reported) = SubGames
    BY <2>3, Numbers, FS_Interval DEF SubGame
  <2>. QED  BY <1>1, <1>3, <1>4, <1>5, <1>6, <2>4
       DEF Group!Next, Group!Agree, Begun, Greeted, Reported
<1>7. CASE series.sent
  <2>1. series.agreed
    BY <1>0, <1>7 DEF SeriesLink
  <2>. QED  BY <1>1, <1>3, <1>4, <1>5, <2>1
       DEF Group!Next, Group!Agree, Group!Write, Group!vars, Begun, Greeted, Reported
<1>. QED  BY <1>6, <1>7

(* Steps of a backend that tell the peer no greeting and move no cursor.   *)
LEMMA SameCounts ==
  ASSUME peer'.heard = peer.heard \/ (Shape /\ \E stage, n : stage # "negotiate" /\ Says(stage, n)),
         cursor' = cursor, ready' <=> ready
  PROVE  Begun' = Begun /\ Handed' = Handed
<1>1. \A n : Greeted(n)' <=> Greeted(n)
  <2>1. CASE peer'.heard = peer.heard
    BY <2>1 DEF Greeted
  <2>2. ASSUME Shape, NEW stage, NEW n, stage # "negotiate", Says(stage, n)
        PROVE  \A k : Greeted(k)' <=> Greeted(k)
    BY <2>2, Told DEF Greeted
  <2>. QED  BY <2>1, <2>2
<1>. QED  BY <1>1 DEF Begun, Handed, HandedOn

LEMMA GroupNext ==
  KitInv /\ series.written \in BOOLEAN /\ KitInv' /\ [Next]_vars => [Group!Next]_Group!vars
<1>. SUFFICES ASSUME KitInv, KitInv', series.written \in BOOLEAN, [Next]_vars
              PROVE  [Group!Next]_Group!vars
  OBVIOUS
<1>0. Shape
  BY DEF KitInv
<1>1. ASSUME Begun' = Begun, Handed' = Handed, series'.agreed = series.agreed,
             series'.written = series.written
      PROVE  [Group!Next]_Group!vars
  BY <1>1, GroupStays
<1>2. CASE Send \/ Proceed \/ Leave
  <2>1. peer'.heard = peer.heard /\ UNCHANGED <<cursor, ready, series>>
    BY <1>0, <1>2 DEF Send, Proceed, Leave, gateway, Shape
  <2>. QED  BY <1>1, <2>1, SameCounts
<1>3. ASSUME NEW call \in calls, Lose(call) \/ Route(call) \/ AcceptResult(call) \/ Deliver(call)
      PROVE  [Group!Next]_Group!vars
  <2>1. peer'.heard = peer.heard
    BY <1>0, <1>3, AcknowledgedOf DEF Lose, Route, AcceptResult, Deliver, Answer, NoAnswer
  <2>2. UNCHANGED <<cursor, ready>>
    BY <1>3 DEF Lose, Route, AcceptResult, Deliver, gateway
  <2>3. series'.agreed = series.agreed /\ series'.written = series.written
    BY <1>0, <1>3 DEF Lose, Route, AcceptResult, Deliver, gateway, Shape
  <2>. QED  BY <1>1, <2>1, <2>2, <2>3, SameCounts
<1>4. ASSUME NEW call \in calls, Assign(call)
      PROVE  [Group!Next]_Group!vars
  <2>. DEFINE n == Asked(call)
  <2>1. /\ Assignable(n) /\ cursor' = n /\ ready' = (ready /\ n = cursor)
        /\ UNCHANGED <<series, peer>> /\ cursor \in Nat
    BY <1>0, <1>4, Numbers DEF Assign, Shape
  <2>. HIDE DEF n
  <2>2. CASE n = cursor
    BY <1>1, <2>1, <2>2, SameCounts
  <2>3. CASE n = cursor + 1 /\ ready
    <3>0. n # cursor
      BY <2>1, <2>3
    <3>1. ~ready'
      BY <2>1, <3>0
    <3>2. \A m \in SubGame : HandedOn(m)' <=> HandedOn(m)
      <4>. SUFFICES ASSUME NEW m \in SubGame
                    PROVE  HandedOn(m)' <=> HandedOn(m)
        OBVIOUS
      <4>1. m \in Nat /\ cursor' = cursor + 1
        BY <2>1, <2>3, Numbers
      <4>2. HandedOn(m)' <=> m < cursor + 1
        BY <3>1, <4>1 DEF HandedOn
      <4>3. HandedOn(m) <=> m < cursor + 1
        BY <2>1, <2>3, <4>1 DEF HandedOn
      <4>. QED  BY <4>2, <4>3
    <3>3. Begun' = Begun /\ Handed' = Handed
      BY <2>1, <3>2 DEF Begun, Handed, Greeted
    <3>. QED  BY <1>1, <2>1, <3>3
  <2>. QED  BY <2>1, <2>2, <2>3 DEF Assignable
<1>5. ASSUME NEW r \in Roles, Run(r)
      PROVE  [Group!Next]_Group!vars
  <2>1. CASE Open(r) \/ Verify(r) \/ ReadRows(r) \/ Finish(r)
    <3>1. UNCHANGED <<cursor, ready, series, peer>>
      BY <2>1 DEF Open, Verify, ReadRows, Finish, gateway
    <3>. QED  BY <1>1, <3>1, SameCounts
  <2>2. CASE Greet(r)
    BY <2>2, GroupBegins DEF Group!Next
  <2>3. CASE Disclose(r) \/ RequestResult(r)
    <3>1. /\ \E stage, n : stage # "negotiate" /\ Says(stage, n)
          /\ UNCHANGED <<cursor, ready>>
      BY <2>3 DEF Disclose, RequestResult, gateway
    <3>2. series'.agreed = series.agreed /\ series'.written = series.written
      BY <1>0, <2>3 DEF Disclose, RequestResult, gateway, Shape
    <3>. QED  BY <1>0, <1>1, <3>1, <3>2, SameCounts
  <2>4. CASE Contribute(r)
    <3>1. UNCHANGED <<cursor, ready, peer>> /\ series'.agreed = series.agreed
      BY <1>0, <2>4 DEF Contribute, WriteSeries, Shape
    <3>2. series' = series \/ series' = WriteSeries(series, collected')
      BY <2>4 DEF Contribute
    <3>3. series'.written = series.written \/ (series.agreed /\ series'.written = TRUE)
      BY <1>0, <3>2, Writes
    <3>. QED  BY <3>1, <3>3, SameCounts, GroupStays
  <2>5. CASE HandBack(r)
    BY <2>5, GroupSettles DEF Group!Next
  <2>6. CASE ReportSeries(r)
    BY <2>6, GroupAgrees
  <2>7. CASE AgreeResult(r)
    <3>1. UNCHANGED <<cursor, ready, peer>> /\ series'.agreed = series.agreed
      BY <1>0, <2>7 DEF AgreeResult, WriteSeries, Shape
    <3>2. series' = WriteSeries(series, collected)
      BY <2>7 DEF AgreeResult
    <3>3. series'.written = series.written \/ (series.agreed /\ series'.written = TRUE)
      BY <1>0, <3>2, Writes
    <3>. QED  BY <3>1, <3>3, SameCounts, GroupStays
  <2>. QED  BY <1>5, <2>1, <2>2, <2>3, <2>4, <2>5, <2>6, <2>7 DEF Run
<1>6. ASSUME NEW r \in Roles, WindowCloses(r) \/ Fail(r)
      PROVE  [Group!Next]_Group!vars
  <2>1. UNCHANGED <<cursor, ready, series, peer>>
    BY <1>6 DEF WindowCloses, Fail, gateway
  <2>. QED  BY <1>1, <2>1, SameCounts
<1>7. ASSUME NEW r \in Roles, NEW arrives \in BOOLEAN, Exchange(r, arrives)
      PROVE  [Group!Next]_Group!vars
  <2>1. UNCHANGED <<cursor, ready, series>>
    BY <1>7 DEF Exchange, gateway
  <2>2. peer' = peer \/ \E stage, n : stage # "negotiate" /\ Says(stage, n)
    BY <1>7 DEF Exchange
  <2>. QED  BY <1>0, <1>1, <2>1, <2>2, SameCounts
<1>8. CASE UNCHANGED vars
  <2>1. UNCHANGED <<cursor, ready, series, peer>>
    BY <1>8 DEF vars, gateway
  <2>. QED  BY <1>1, <2>1, SameCounts
<1>. QED  BY <1>2, <1>3, <1>4, <1>5, <1>6, <1>7, <1>8 DEF Next

(* Whatever the peer leaves out or says twice, the group keeps the promise *)
(* of one series: its sub-games one at a time and in order, an agreement   *)
(* only on a series that is over, official files only of an agreed one     *)
(* (`SeriesHandoff`, `GroupResultAgreement`, `write_series`).              *)
THEOREM KeepsOneSeries == Spec => Group!Spec
<1>. QED  BY GroupInit, FilesAlways, GroupNext, PTL DEF Spec, Group!Spec

=============================================================================
