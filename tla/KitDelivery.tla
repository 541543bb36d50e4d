---------------------------- MODULE KitDelivery ----------------------------
(***************************************************************************)
(* One direction of the symmetric-push wire: a peer that pushes its turns  *)
(* and pushes one again until it is acknowledged, a network that loses,    *)
(* repeats, delays and reorders copies, and our receiver, from one         *)
(* sub-game to the next: `KitTurnInbox` behind `KitFriendlySession`.       *)
(*                                                                         *)
(* The pushing side is the contract's external client, not our own sender: *)
(* it may be `Window` turns ahead of the last one acknowledged. Copies are *)
(* a set: a delivered copy may stay in it, so it may come again.           *)
(***************************************************************************)
EXTENDS KitInbox

CONSTANTS NumGames,    \* sub-games played on this direction
          NumTurns     \* the most turns of one sub-game

ASSUME DeliveryAssumption == NumGames \in Nat \ {0} /\ NumTurns \in Nat \ {0}

VARIABLES
  game,    \* the sub-game both sides are on
  sealed,  \* how many turns the peer has sealed in it
  acked,   \* the steps whose acknowledgement reached the peer
  copies,  \* the copies in the network
  receiver, \* `KitFriendlySession.inbox`
  taken    \* the turns the loop has taken, in order

peer == <<sealed, acked>>
delivery == <<game, peer, copies, receiver, taken>>

Games == 1 .. NumGames
TurnNumbers == 1 .. NumTurns
Turn == [game : Games, step : TurnNumbers]
TurnOf(s) == [game |-> game, step |-> s]

DeliveryInit ==
  /\ game = 1
  /\ sealed = 0
  /\ acked = {}
  /\ copies = {}
  /\ receiver = EmptyInbox
  /\ taken = <<>>

(* The peer seals its next turn and pushes it, within the window.          *)
PushNext ==
  /\ sealed < NumTurns
  /\ \E s \in 0 .. sealed : 1 .. s \subseteq acked /\ sealed <= s + Window
  /\ sealed' = sealed + 1
  /\ copies' = copies \cup {TurnOf(sealed + 1)}
  /\ UNCHANGED <<game, acked, receiver, taken>>

(* A push that was not acknowledged is pushed again, byte for byte.        *)
PushAgain(s) ==
  /\ s \in 1 .. sealed \ acked
  /\ copies' = copies \cup {TurnOf(s)}
  /\ UNCHANGED <<game, peer, receiver, taken>>

Lose(turn) ==
  /\ turn \in copies
  /\ copies' = copies \ {turn}
  /\ UNCHANGED <<game, peer, receiver, taken>>

(* `deliver_turn`. A refusal is an error; an acknowledgement may be lost.  *)
Deliver(turn) ==
  /\ turn \in copies
  /\ receiver' = Offer(receiver, turn)
  /\ \/ acked' = IF ~Refuses(receiver, turn)
                 THEN acked \cup {turn.step} ELSE acked
     \/ acked' = acked
  /\ UNCHANGED <<game, sealed, copies, taken>>

(* `take`: the loop is woken by the event and takes everything applied.    *)
Take ==
  /\ receiver.arrived
  /\ taken' = taken \o receiver.ready
  /\ receiver' = Consumed(receiver)
  /\ UNCHANGED <<game, peer, copies>>

(* `open_sub_game`: a fresh inbox. The sub-game before it ended after any  *)
(* number of turns, all of them taken; no copy of it is left on the wire   *)
(* (`KitSeries` shows a late message of another kind).                     *)
OpenSubGame ==
  /\ game < NumGames
  /\ sealed > 0
  /\ Len(taken) = sealed
  /\ game' = game + 1
  /\ sealed' = 0
  /\ acked' = {}
  /\ copies' = {}
  /\ receiver' = EmptyInbox
  /\ taken' = <<>>

DeliveryNext ==
  \/ PushNext \/ Take \/ OpenSubGame
  \/ \E s \in TurnNumbers : PushAgain(s)
  \/ \E turn \in copies : Lose(turn) \/ Deliver(turn)

Accepted(s) == Deliver(TurnOf(s)) /\ (s \in acked' \/ s \in acked)

(* A client that was not acknowledged keeps pushing, the network does not  *)
(* lose every copy, and a woken loop runs. Nothing makes the peer seal.    *)
DeliveryFairness ==
  /\ WF_delivery(Take)
  /\ \A s \in TurnNumbers :
       WF_delivery(PushAgain(s)) /\ SF_delivery(Accepted(s))

DeliverySpec == DeliveryInit /\ [][DeliveryNext]_delivery /\ DeliveryFairness

-----------------------------------------------------------------------------
(* The window absorbs an honest retry race: no copy an honest peer has on  *)
(* the wire would be refused as a flood or as equivocation (`decide`).     *)
HonestTurnAccepted ==
  \A turn \in copies : ~Refuses(receiver, turn)

(* Every turn the peer sealed is taken, however often copies of it or of   *)
(* its acknowledgement were lost.                                          *)
EveryTurnTaken == \A s \in TurnNumbers : (sealed >= s) ~> (Len(taken) >= s)

Stream == INSTANCE TurnStream

(* The receiver is a stream of turns: each taken once, in the order the    *)
(* peer sealed them, nothing skipped and nothing added, and none of them   *)
(* left behind (`kit_inbox.py`).                                           *)
KeepsStream == Stream!Spec /\ EveryTurnTaken
=============================================================================
