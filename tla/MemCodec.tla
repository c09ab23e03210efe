------------------------------- MODULE MemCodec --------------------------------
(****************************************************************************)
(* The commands of MemDiff as the bits that memfile.c writes and reads.     *)
(* Each side keeps the commands in the order of their last use: a command   *)
(* is written as its place in that list, and then its arguments.  The       *)
(* first argument has a least width of its own, takes what is left of the   *)
(* last byte, and can be widened by whole bytes with a command in front.    *)
(*                                                                          *)
(* The numbers are the code's own.  Data that follows a command starts on a *)
(* whole byte, and is left out.                                             *)
(****************************************************************************)
EXTENDS Integers, Sequences

CONSTANTS
  CrcBits,       \* the bits of a checksum: 32
  Arguments(_),  \* bound: the first arguments that a command is tried with
  MaxCommands    \* bound: the commands of one difference

BYTE == 8

Names == {"copyedit", "copy", "edit", "seek", "wider", "eof", "coord", "erase",
          "increment", "copyedit1", "eof_crc32", "rle"}

VARIABLES
  wmru,     \* the writer's mdiff_command_mru
  rmru,     \* the reader's
  alike,    \* what was read last is what was written, and nothing was left over
  left      \* commands still to come

cvars == <<wmru, rmru, alike, left>>

\* enum mdiff_command, in which order both lists start.
mdiff_commands ==
  <<"copyedit", "copy", "edit", "seek", "wider", "eof", "coord", "erase",
    "increment", "copyedit1", "eof_crc32", "rle">>

\* mdiff_command_sizes: the least bits of the first argument, and those of
\* the second.
Arg1Bits(name) ==
  CASE name \in {"copyedit", "eof", "increment", "eof_crc32"} -> 12
    [] name = "seek"                  -> 8
    [] name = "erase"                 -> 7
    [] name = "copy"                  -> 6
    [] name \in {"edit", "copyedit1"} -> 4
    [] name = "rle"                   -> 2
    [] name = "coord"                 -> 1
    [] OTHER                          -> 0

Arg2Bits(name) ==
  CASE name = "copyedit"           -> 2
    [] name \in {"coord", "erase"} -> 3
    [] name = "eof_crc32"          -> CrcBits
    [] OTHER                       -> 0

Signed(name) == name = "seek"

------------------------------------------------------------------------------

Command(c, a, b) == [cmd |-> c, arg1 |-> a, arg2 |-> b]

\* The n lowest bits of v, highest first; and the number that bits stand for.
Bits(v, n) == [i \in 1..n |-> (v \div 2^(n - i)) % 2]
RECURSIVE Number(_)
Number(bits) ==
  IF bits = <<>> THEN 0
  ELSE 2 * Number(SubSeq(bits, 1, Len(bits) - 1)) + bits[Len(bits)]

Place(mru, name) == (CHOOSE i \in 1..Len(mru) : mru[i] = name) - 1

\* Two places have one bit behind "0", the next four two behind "10", ...
Half(place) == CHOOSE n \in 1..3 : place \in (2^n - 2)..(2^(n + 1) - 3)
PlaceBits(place) ==
  LET n == Half(place)
  IN [i \in 1..(n - 1) |-> 1] \o <<0>> \o Bits(place - (2^n - 2), n)

ToFront(mru, name) == <<name>> \o SelectSeq(mru, LAMBDA c : c # name)

\* mdiffcmd_mru: the places of a command with so many widenings in front of it.
Places(mru, name, widenings) ==
  LET wider == Place(mru, "wider")
      place == Place(mru, name)
  IN IF widenings = 0 THEN <<place>>
     ELSE <<wider>> \o [i \in 1..(widenings - 1) |-> 0]
          \o <<IF place < wider THEN place + 1 ELSE place>>

RECURSIVE MruBits(_)
MruBits(places) ==
  IF places = <<>> THEN <<>> ELSE PlaceBits(Head(places)) \o MruBits(Tail(places))

UpToByte(n) == n + ((-n) % BYTE)

\* The bits in front of the first argument, and those that it then has.
Ahead(mru, c, widenings) ==
  Len(MruBits(Places(mru, c.cmd, widenings))) + Arg2Bits(c.cmd)
Arg1Width(mru, c, widenings) ==
  LET ahead == Ahead(mru, c, widenings)
  IN UpToByte(ahead + Arg1Bits(c.cmd) + widenings * BYTE) - ahead

\* mdiffcmd_width: how often; a signed argument has a bit for its sign.
Widenings(mru, c) ==
  LET size == IF Signed(c.cmd) THEN 2 * (IF c.arg1 < 0 THEN -c.arg1 ELSE c.arg1)
              ELSE c.arg1
      fits(n) == size < 2^Arg1Width(mru, c, n)
  IN CHOOSE n \in 0..4 : fits(n) /\ (n > 0 => ~fits(n - 1))

\* Mutant: the writer forgets that it used the widening.
mdiffwritecmd_WiderStays(mru, c) ==
  LET n == Widenings(mru, c)
  IN [bits |-> MruBits(Places(mru, c.cmd, n)) \o Bits(c.arg2, Arg2Bits(c.cmd))
                    \o Bits(c.arg1, Arg1Width(mru, c, n)),
      mru  |-> ToFront(mru, c.cmd)]

\* mdiffwritecmd: the bits, and the list with what was used in front.
mdiffwritecmd(mru, c) ==
  LET n == Widenings(mru, c)
      front == IF n = 0 THEN mru ELSE ToFront(mru, "wider")
  IN [bits |-> MruBits(Places(mru, c.cmd, n)) \o Bits(c.arg2, Arg2Bits(c.cmd))
                    \o Bits(c.arg1, Arg1Width(mru, c, n)),
      mru  |-> ToFront(front, c.cmd)]

------------------------------------------------------------------------------
(* The reader's side of mdiffapply.                                         *)

\* The command that starts behind bit "at", past any widenings.
RECURSIVE ReadHead(_, _, _, _)
ReadHead(mru, bits, at, widenings) ==
  LET n     == CHOOSE i \in 1..3 : bits[at + i] = 0 /\ \A j \in 1..(i - 1) : bits[at + j] = 1
      place == 2^n - 2 + Number(SubSeq(bits, at + n + 1, at + 2 * n))
      name  == IF place < Len(mru) THEN mru[place + 1] ELSE "unknown"
      front == ToFront(mru, name)
  IN IF name = "wider" THEN ReadHead(front, bits, at + 2 * n, widenings + 1)
     ELSE [cmd |-> name, mru |-> front, at |-> at + 2 * n, widenings |-> widenings]

\* The argument goes on to the end of a byte, and over as many more bytes as
\* it needs; its first bit is its sign if it has one.
mdiffreadcmd(mru, bits) ==
  LET head == ReadHead(mru, bits, 0, 0)
      from == head.at + Arg2Bits(head.cmd)
      rest == UpToByte(from) - from
      need == head.widenings * BYTE + Arg1Bits(head.cmd) - rest
      more == IF need <= 0 THEN 0 ELSE (need + BYTE - 1) \div BYTE
      to   == from + rest + more * BYTE
      arg1 == Number(SubSeq(bits, from + 1, to))
  IN [cmd  |-> Command(head.cmd,
                      arg1 - (IF Signed(head.cmd) /\ bits[from + 1] = 1
                              THEN 2^(to - from) ELSE 0),
                      Number(SubSeq(bits, head.at + 1, from))),
           mru  |-> head.mru,
           read |-> to]

------------------------------------------------------------------------------

CInit ==
  /\ wmru = mdiff_commands
  /\ rmru = mdiff_commands
  /\ alike = TRUE
  /\ left \in {0, MaxCommands}

\* A command is written, and read with what follows it: zeros, for a reader
\* that reads too far.
Send(c) ==
  LET wrote == mdiffwritecmd(wmru, c)
      got   == mdiffreadcmd(rmru, wrote.bits \o [i \in 1..64 |-> 0])
  IN /\ wmru' = wrote.mru
     /\ rmru' = got.mru
     /\ alike' = (got.cmd = c /\ got.read = Len(wrote.bits))
     /\ left' = left - 1

CNext ==
  /\ left > 0
  /\ \E name \in Names \ {"wider"} : \E a \in Arguments(name) :
       \E b \in {0, 2^Arg2Bits(name) - 1} : Send(Command(name, a, b))

------------------------------------------------------------------------------

\* Every command is read as it was written, with both arguments, whatever was
\* written before it and however often its argument has to be widened; and
\* the two lists stay the same (memfile.c:829: "this matches the MRU state
\* used when encoding").
ReadsBack == alike /\ wmru = rmru
================================================================================
