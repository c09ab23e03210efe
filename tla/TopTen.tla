-------------------------------- MODULE TopTen ---------------------------------
(****************************************************************************)
(* The score list of topten.c: entries by falling points, of one player at  *)
(* most PLAYERMAX.  Where a new entry goes, and which one it pushes out, as *)
(* toptenlist_insert decides it.  (For every entry after ins the code looks *)
(* at the name of the entry at ins, not at that entry's own.)               *)
(****************************************************************************)
EXTENDS Integers, Sequences, FiniteSets

CONSTANTS
  TTLISTLEN,   \* the entries that the list has room for
  PLAYERMAX    \* the entries that one player may have

ASSUME ListAssumption == {TTLISTLEN, PLAYERMAX} \subseteq Nat \ {0}

Entries == [game : Nat, time : Nat, name : STRING, points : Nat]

\* The first loop: behind the entries that have as many points, or more.
Ins(ttlist, newtt) ==
  CHOOSE i \in 1..(Len(ttlist) + 1) :
    /\ \A j \in 1..(i - 1) : newtt.points <= ttlist[j].points
    /\ i <= Len(ttlist) => newtt.points > ttlist[i].points

OccCnt(ttlist, newtt) ==
  Cardinality({j \in 1..(Ins(ttlist, newtt) - 1) : ttlist[j].name = newtt.name})

GetsOnList(ttlist, newtt) ==
  OccCnt(ttlist, newtt) < PLAYERMAX /\ Ins(ttlist, newtt) <= TTLISTLEN

Least(m, n) == IF m <= n THEN m ELSE n

\* The second loop: the entry that is overwritten, or the first empty place.
Del(ttlist, newtt) ==
  LET ins == Ins(ttlist, newtt)
      end == Least(Len(ttlist) + 1, TTLISTLEN)
  IN  IF ins <= Len(ttlist) /\ ttlist[ins].name = newtt.name
      THEN Least(ins + PLAYERMAX - OccCnt(ttlist, newtt) - 1, end)
      ELSE end

\* The entries from ins up to del move down by one.
Shifted(ttlist, newtt, ins, del) ==
  [i \in 1..(IF del > Len(ttlist) THEN del ELSE Len(ttlist)) |->
     IF i = ins THEN newtt
     ELSE IF ins < i /\ i <= del THEN ttlist[i - 1] ELSE ttlist[i]]

toptenlist_insert(ttlist, newtt) ==
  IF GetsOnList(ttlist, newtt)
  THEN Shifted(ttlist, newtt, Ins(ttlist, newtt), Del(ttlist, newtt))
  ELSE ttlist

Sorted(ttlist) ==
  \A i, j \in 1..Len(ttlist) : i < j => ttlist[i].points >= ttlist[j].points
================================================================================
