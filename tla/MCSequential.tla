----------------------------- MODULE MCSequential -----------------------------
(* What one process does by itself, with nobody to interleave with: small   *)
(* files for MemDiff, with a sum of their bytes as the checksum; MemCodec;  *)
(* and a small Shop.  A behaviour is either a difference that is taken, or  *)
(* commands that are written as bits, or a visit to a shop.                 *)
EXTENDS MemDiff, Shop

CONSTANTS t1, t2, CrcBits, MaxCommands, goods, box, n1, n2

VARIABLES wmru, rmru, alike, left

\* The widths at which an argument needs a byte more, from both sides.
Arguments(name) ==
  LET sizes == {0, 1, 2^3, 2^7 - 1, 2^7, 2^11, 2^14}
  IN IF name = "seek" THEN sizes \cup {-n : n \in sizes} ELSE sizes

codec == <<wmru, rmru, alike, left>>

Codec == INSTANCE MemCodec

RECURSIVE SumCrc(_)
SumCrc(f) == IF f = <<>> THEN 0 ELSE (Head(f) + 2 * SumCrc(Tail(f))) % 8

SmallFiles == {[buf |-> <<0, 1, 1, 2, 3, 0>>, tag |-> (t1 :> 4 @@ t2 :> 1)],
               [buf |-> <<1, 1, 1, 1, 1>>,   tag |-> (t1 :> 0 @@ t2 :> NotTagged)]}

\* No difference is taken.
Idle ==
  /\ old = CHOOSE o \in Olds : TRUE
  /\ buf = <<>>
  /\ w = [mnew EXCEPT !.flushed = TRUE]
  /\ r = [Nobody EXCEPT !.st = "ended"]
  /\ marks = [tags |-> 0, hints |-> 0]

\* A stack of two, and room for two entries on the bill: for a player with one
\* piece of gold, or else with a box, which is for sale too.
MCInit ==
  /\ ShopInit
  /\ hero.purse = 0 <=> obj[Box].where = "floor"
  /\ Codec!CInit
  /\ \/ left = 0 /\ hero.purse = 0 /\ Init
     \/ (left > 0 => hero.purse = 0) /\ Idle

MCNext ==
  \/ Next /\ UNCHANGED <<codec, shopVars>>
  \/ Codec!CNext /\ UNCHANGED <<vars, shopVars>>
  \/ Idle /\ Codec!CInit /\ left = 0 /\ ShopNext /\ UNCHANGED <<vars, codec>>

MCSpec == MCInit /\ [][MCNext]_<<vars, codec, shopVars>>

ReadsBack == Codec!ReadsBack
===============================================================================
