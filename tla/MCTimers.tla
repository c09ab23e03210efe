------------------------------ MODULE MCTimers ------------------------------
(* Instances of Timers for TLC: scenes with few objects each, which between *)
(* them have every kind. *)
EXTENDS Timers

CONSTANTS l1, l2, l3, m1, lamp, candle, spare, corpse, troll, sack

LampScene   == {lamp, troll, sack}
CandleScene == {candle, spare}
RotScene    == {corpse, sack}
AllScenes   == {LampScene, CandleScene, RotScene}
=============================================================================
