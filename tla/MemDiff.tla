-------------------------------- MODULE MemDiff --------------------------------
(****************************************************************************)
(* A binary save written as its difference from the one before (memfile.c). *)
(* The game writes a new file byte by byte and tags the parts of it that    *)
(* move; the writer counts what is to be copied, edited and skipped, and    *)
(* gives it as commands whenever one kind of change ends.  The reader       *)
(* rebuilds the new file from the old one and the commands, which it gets   *)
(* in the order they were written: it is run in step with the writer.       *)
(*                                                                          *)
(* mdiffflush takes the shortest of the encodings that fit.  Here it may    *)
(* take any of them: the file must come out right whichever is shortest.    *)
(* How a command becomes bits is in MemCodec.                               *)
(****************************************************************************)
EXTENDS Integers, Sequences

CONSTANTS
  Base,               \* the values of a byte are 0 .. Base - 1
  SAVE_SIZE_MONST,    \* the distance at which coordinates are expected again
  Tags,
  Olds,               \* the files that the difference may be taken from
  Crc(_),             \* the checksum of a file
  MaxLen,             \* bound: bytes of the new file
  MaxTags,            \* bound: tags that are met again
  MaxHints,           \* bound: coordinates of monsters
  Overrun             \* may one or two bytes past the old file's end be edited?

Byte == 0..(Base - 1)

\* A file that was saved before: its bytes, and the places of its tags.
File == [buf : Seq(Byte), tag : [Tags -> Int]]
NotTagged == -1

ASSUME FileAssumption ==
  /\ Base \in Nat \ {0, 1} /\ SAVE_SIZE_MONST \in Nat \ {0}
  /\ Olds \subseteq File
  /\ \A o \in Olds : \A t \in Tags : o.tag[t] \in {NotTagged} \cup 0..Len(o.buf)

VARIABLES
  old,       \* mf->relativeto
  buf,       \* the bytes written; pos is its length
  w,         \* the writer's counts and marks
  r,         \* what the reader has made of the commands so far
  marks      \* tags met and hints given, for the bounds

vars == <<old, buf, w, r, marks>>

pos == Len(buf)

Writer == [relativepos : Int, copies : Nat, edits : Nat, seeks : Int,
           coord : Nat, hint : Int, flushed : BOOLEAN]

\* The writer of a new file.
mnew == [relativepos |-> 0, copies |-> 0, edits |-> 0, seeks |-> 0,
         coord |-> 0, hint |-> -2, flushed |-> FALSE]

Nobody == [buf |-> <<>>, dbpos |-> 0, coord |-> 0, st |-> "reading"]

Command(c, a, b) == [cmd |-> c, arg1 |-> a, arg2 |-> b]
None == Command("none", 0, 0)

\* Commands that say nothing are not written.
Omitted(c) ==
  \/ c.cmd = "none"
  \/ c.cmd \in {"copy", "seek"} /\ c.arg1 = 0
  \/ c.cmd = "edit" /\ c.arg1 = -1

------------------------------------------------------------------------------
(* The eight directions: dir is DIR_W .. DIR_SW, and the changes of the two *)
(* coordinates are counted modulo Base.                                     *)

xdir == <<-1, -1,  0,  1, 1, 1, 0, -1>>
ydir == << 0, -1, -1, -1, 0, 1, 1,  1>>

Dirs == 0..7
DIR_W == 0
DIR_E == 4

DIR_NONE == -1

\* arg_from_delta.
Moved(dx, dy) ==
  LET fits == {d \in Dirs : /\ (dx - xdir[d + 1]) % Base = 0
                            /\ (dy - ydir[d + 1]) % Base = 0}
  IN IF fits = {} THEN DIR_NONE ELSE CHOOSE d \in fits : TRUE

OneByte(dir) == dir \in {DIR_W, DIR_E}

------------------------------------------------------------------------------
(* The reader.                                                              *)

\* The bytes that follow a command.
DataLength(c) ==
  CASE c.cmd = "edit"      -> c.arg1 + 1
    [] c.cmd = "copyedit"  -> c.arg2 + 1
    [] c.cmd = "copyedit1" -> 1
    [] OTHER               -> 0

Copied(q, c) ==
  CASE c.cmd \in {"seek", "edit"} -> 0
    [] c.cmd = "coord" -> c.arg1 * SAVE_SIZE_MONST
                          + ((q.coord - Len(q.buf)) % SAVE_SIZE_MONST)
    [] OTHER -> c.arg1

Edited(c) ==
  CASE c.cmd = "erase"     -> c.arg2 + 3
    [] c.cmd = "increment" -> 1
    [] c.cmd = "coord"     -> IF OneByte(c.arg2) THEN 1 ELSE 2
    [] OTHER               -> DataLength(c)

\* The bytes that the edit part of a command makes, from the old ones at "at".
NewBytes(c, data, at) ==
  CASE c.cmd = "erase" -> [i \in 1..Edited(c) |-> 0]
    [] c.cmd = "increment" -> <<(old.buf[at + 1] + 1) % Base>>
    [] c.cmd = "coord" ->
         [i \in 1..Edited(c) |->
            (old.buf[at + i] + (IF i = 1 THEN xdir ELSE ydir)[c.arg2 + 1]) % Base]
    [] OTHER -> data

\* Old bytes that are not there cannot be copied or changed, and nothing comes
\* after the end.
Fails(q, c) ==
  LET at == q.dbpos + Copied(q, c)
  IN \/ q.st # "reading"
     \/ Copied(q, c) # 0 /\ (q.dbpos < 0 \/ at > Len(old.buf))
     \/ c.cmd \in {"increment", "coord"} /\ (at < 0 \/ at + Edited(c) > Len(old.buf))

\* One command of mdiffapply.
Apply(q, c, data) ==
  LET at   == q.dbpos + Copied(q, c)
      copy == q.buf \o SubSeq(old.buf, q.dbpos + 1, at)
      made == copy \o NewBytes(c, data, at)
  IN IF Omitted(c) THEN q
     ELSE IF Fails(q, c) THEN [q EXCEPT !.st = "error"]
     ELSE [buf   |-> made,
           dbpos |-> at + Edited(c) - (IF c.cmd = "seek" THEN c.arg1 ELSE 0),
           coord |-> IF c.cmd = "copy" THEN Len(copy) ELSE q.coord,
           st    |-> IF c.cmd # "eof_crc32" THEN "reading"
                     ELSE IF Crc(made) = c.arg2 THEN "ended" ELSE "error"]

------------------------------------------------------------------------------
(* The writer.                                                              *)

firstCopy == pos - w.copies - w.edits

\* Byte i of the bytes that are to be edited, and the byte that the old file
\* has there; past its end is whatever the memory behind it held.
Edit(i) == buf[pos - w.edits + i]
Orig(i, stray) ==
  LET at == w.relativepos - w.edits + i
  IN IF at \in 1..Len(old.buf) THEN old.buf[at] ELSE stray[i]

\* Where the hint or the distance from the last copy says that the first of
\* two coordinates is.
preferX == \/ w.hint = pos - 1
           \/ (pos - w.edits - w.coord) % SAVE_SIZE_MONST = 0

\* A single edit that is not of an x coordinate is taken as one of a y
\* coordinate whose x stays: the byte before is copied by adding 0 to it.
yAlone == w.edits = 1 /\ ~preferX /\ w.copies >= 1

coordPos == pos - w.edits - (IF yAlone THEN 1 ELSE 0)

Direction(stray) ==
  CASE w.edits = 2 /\ Edit(2) # Orig(2, stray) ->
         Moved(Edit(1) - Orig(1, stray), Edit(2) - Orig(2, stray))
    [] w.edits = 1 /\ preferX -> Moved(Edit(1) - Orig(1, stray), 0)
    [] yAlone                 -> Moved(0, Edit(1) - Orig(1, stray))
    [] OTHER                  -> DIR_NONE

OnlyZero == \A i \in 1..w.edits : Edit(i) = 0

\* The one or two commands that mdiffflush tries for copies and edits.
Encodings(eof, dir) ==
  LET large == (coordPos - firstCopy) \div SAVE_SIZE_MONST
      small == (coordPos - firstCopy) % SAVE_SIZE_MONST
      Two(c0, c1) == [c0 |-> c0, c1 |-> c1]
      One(c0) == Two(c0, None)
      If(can, e) == IF can THEN {e} ELSE {}
  IN UNION {
       If(w.edits \in 1..4, One(Command("copyedit", w.copies, w.edits - 1))),
       {Two(Command("copy", w.copies, 0), Command("edit", w.edits - 1, 0))},
       If(eof /\ w.edits = 0, One(Command("eof_crc32", w.copies, Crc(buf)))),
       If(w.edits \in 3..10 /\ OnlyZero, One(Command("erase", w.copies, w.edits - 3))),
       If(dir # DIR_NONE /\ (coordPos - w.coord) % SAVE_SIZE_MONST = 0,
          One(Command("coord", large, dir))),
       If(dir # DIR_NONE /\ small # 0,
          Two(Command("copy", small, 0), Command("coord", large, dir))),
       If(dir # DIR_NONE /\ large > 0,
          Two(Command("copy", SAVE_SIZE_MONST + small, 0),
              Command("coord", large - 1, dir))),
       If(w.edits = 1, One(Command("copyedit1", w.copies, 0)))}

Incremented == [c0 |-> Command("increment", w.copies, 0), c1 |-> None]

Skip == [c0 |-> Command("seek", w.seeks, 0), c1 |-> None]

\* What mdiffflush may write; a skip is written alone.
Offered(eof, stray) ==
  IF w.seeks # 0 THEN {Skip}
  ELSE Encodings(eof, Direction(stray))
       \cup (IF w.edits = 1 /\ (Edit(1) - Orig(1, stray)) % Base = 1 % Base
             THEN {Incremented} ELSE {})

\* Mutant: the end is not marked after a seek.
Commands_SeekEnds(e, eof) ==
  <<e.c0, e.c1,
    IF eof /\ e.c0.cmd \notin {"eof_crc32", "seek"}
    THEN Command("eof_crc32", 0, Crc(buf)) ELSE None>>

\* The commands of a flush: at the end of the file the checksum comes last.
Commands(e, eof) ==
  <<e.c0, e.c1,
    IF eof /\ e.c0.cmd # "eof_crc32" THEN Command("eof_crc32", 0, Crc(buf)) ELSE None>>

Data(c) == SubSeq(buf, pos - DataLength(c) + 1, pos)

\* The reader's part, for the commands and data as it sees them.
Received(cs) ==
  LET Next1(q, c) == Apply(q, c, Data(c))
  IN Next1(Next1(Next1(r, cs[1]), cs[2]), cs[3])

\* Mutant: a copy is no new start for coordinates.
Flushed_KeepsCoord(e) == [w EXCEPT !.copies = 0, !.edits = 0, !.seeks = 0]

\* mdiffflush, once it has taken encoding e: the counts start again.
Flushed(e) ==
  [w EXCEPT !.copies = 0, !.edits = 0, !.seeks = 0,
            !.coord = IF e.c0.cmd = "copy" /\ e.c0.arg1 # 0
                      THEN firstCopy + e.c0.arg1 ELSE @]

Strays == [{1, 2} -> IF Overrun THEN Byte ELSE {0}]

\* No more than two bytes are compared with the old file, and they are there;
\* past its end mdiffflush compares with memory nobody wrote.
InReach    == w.edits \in {1, 2} => w.relativepos <= Len(old.buf)
Comparable == Overrun \/ InReach

------------------------------------------------------------------------------

Init ==
  /\ old \in Olds
  /\ buf = <<>>
  /\ w = mnew
  /\ r = Nobody
  /\ marks = [tags |-> 0, hints |-> 0]

\* The writer goes on from v with one byte more, the same as the old or not.
Count(v, same) ==
  [v EXCEPT !.relativepos = @ + 1,
            !.copies = IF same THEN @ + 1 ELSE @,
            !.edits  = IF same THEN @ ELSE @ + 1]

IsSame(b) == w.relativepos < Len(old.buf) /\ b = old.buf[w.relativepos + 1]

EndsRun(b) == w.seeks # 0 \/ (IsSame(b) /\ w.edits # 0)

\* mwrite of one byte, and the flush before it when a run ends there.
Write(b, e) ==
  /\ ~w.flushed /\ pos < MaxLen
  /\ EndsRun(b) => Comparable
  /\ w' = Count(IF EndsRun(b) THEN Flushed(e) ELSE w, IsSame(b))
  /\ r' = IF EndsRun(b) THEN Received(Commands(e, FALSE)) ELSE r
  /\ buf' = Append(buf, b)
  /\ UNCHANGED <<old, marks>>

\* The old file is read on from "at".
SeekTo(v, at) ==
  [v EXCEPT !.seeks = @ + v.relativepos - at, !.relativepos = at]

Seeks(t) == old.tag[t] \notin {NotTagged, w.relativepos}

Counting == w.edits # 0 \/ w.copies # 0

\* mtag: what was counted is flushed before the old file's tag is looked up.
Tag(t, e) ==
  /\ ~w.flushed /\ marks.tags < MaxTags
  /\ Seeks(t) /\ Counting => Comparable
  /\ w' = IF ~Seeks(t) THEN w
          ELSE SeekTo(IF Counting THEN Flushed(e) ELSE w, old.tag[t])
  /\ r' = IF Seeks(t) /\ Counting THEN Received(Commands(e, FALSE)) ELSE r
  /\ marks' = [marks EXCEPT !.tags = @ + 1]
  /\ UNCHANGED <<old, buf>>

\* mhint_mon_coordinates.
Hint ==
  /\ ~w.flushed /\ marks.hints < MaxHints
  /\ w' = [w EXCEPT !.hint = pos]
  /\ marks' = [marks EXCEPT !.hints = @ + 1]
  /\ UNCHANGED <<old, buf, r>>

\* The last flush: log_save_line then reads the difference back and compares.
Finish(e) ==
  /\ ~w.flushed /\ Comparable
  /\ w' = [Flushed(e) EXCEPT !.flushed = TRUE]
  /\ r' = Received(Commands(e, TRUE))
  /\ UNCHANGED <<old, buf, marks>>

Next ==
  \/ \E stray \in Strays :
       \/ \E e \in Offered(FALSE, stray) :
            \/ \E b \in Byte : Write(b, e)
            \/ \E t \in Tags : Tag(t, e)
       \/ \E e \in Offered(TRUE, stray) : Finish(e)
  \/ Hint

Spec == Init /\ [][Next]_vars

------------------------------------------------------------------------------

\* State is of the right shape; seeks never wait beside copies or edits
\* (mdiffflush writes a seek alone and forgets the rest: memfile.c:616).
TypeOK ==
  /\ old \in Olds
  /\ buf \in Seq(Byte)
  /\ w \in Writer
  /\ w.seeks # 0 => w.copies = 0 /\ w.edits = 0
  /\ r.buf \in Seq(Byte) /\ r.dbpos \in Int /\ r.coord \in Nat
  /\ r.st \in {"reading", "ended", "error"}

\* At every moment the reader has rebuilt the new file up to the bytes that
\* the writer still counts, stands where the writer was in the old file when
\* that count began, and measures coordinates from the same place
\* (memfile.c:741: "we calculate the value of pos as of the previous flush").
InStep ==
  ~w.flushed =>
    /\ r.st = "reading"
    /\ r.buf = SubSeq(buf, 1, firstCopy)
    /\ r.dbpos = w.relativepos + w.seeks - w.copies - w.edits
    /\ r.coord = w.coord

\* What the reader has at the end is the file that was written, and the check
\* of log_save_line (log.c:1196: "Verify that the diffing algorithm is
\* working correctly") finds nothing.
RoundTrip == w.flushed => r.st = "ended" /\ r.buf = buf
================================================================================
