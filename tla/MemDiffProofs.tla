----------------------------- MODULE MemDiffProofs -----------------------------
(****************************************************************************)
(* Proofs about MemDiff: whatever is written, wherever the tags lead and    *)
(* whichever of the encodings that fit is taken, the reader rebuilds the    *)
(* file.  For all files, all sizes of a byte and of a monster.              *)
(****************************************************************************)
EXTENDS MemDiff, SequenceTheorems, TLAPS

------------------------------------------------------------------------------
(* Division with remainder, for any divisor.                                *)

LEMMA DivMod ==
  ASSUME NEW n \in Int, NEW d \in Nat \ {0}
  PROVE  /\ n % d \in 0..(d-1)
         /\ n \div d \in Int
         /\ n = d * (n \div d) + (n % d)
  OBVIOUS
LEMMA NoMultiple ==
  ASSUME NEW m \in Int, NEW d \in Nat \ {0}, NEW x \in Int, x = d * m, -d < x, x < d
  PROVE  x = 0
<1>1. CASE m >= 1
  <2>1. d * (m-1) >= 0
    BY <1>1
  <2> QED BY <2>1
<1>2. CASE m <= -1
  <2>1. d * (-1-m) >= 0
    BY <1>2
  <2> QED BY <2>1
<1>3. CASE m = 0
  BY <1>3
<1> QED BY <1>1, <1>2, <1>3

LEMMA Rest ==
  ASSUME NEW n \in Int, NEW d \in Nat \ {0}, NEW q \in Int, NEW t \in 0..(d-1),
         n = d * q + t
  PROVE  n % d = t
<1> DEFINE p == n \div d
           s == n % d
<1>1. p \in Int /\ s \in 0..(d-1) /\ n = d * p + s
  BY DivMod
<1> HIDE DEF p, s
<1>2. d * (q - p) = d * q - d * p /\ d * q \in Int /\ d * p \in Int
  BY <1>1
<1> DEFINE dp == d * p
           dq == d * q
           x  == d * (q - p)
<1>3. n = dp + s /\ n = dq + t /\ x = dq - dp /\ dp \in Int /\ dq \in Int
  BY <1>1, <1>2
<1>4. ASSUME x = s - t PROVE s = t
  <2>1. s - t \in Int /\ -d < s - t /\ s - t < d /\ q - p \in Int
    BY <1>1
  <2>2. s - t = d * (q - p)
    BY <1>4
  <2>3. s - t = 0
    BY <2>1, <2>2, NoMultiple
  <2> QED
    BY <1>1, <2>3
<1> HIDE DEF dp, dq, x
<1>5. x = s - t
  BY <1>1, <1>3
<1>6. s = t
  BY <1>4, <1>5
<1> QED
  BY <1>6 DEF s

LEMMA ModEqual ==
  ASSUME NEW a \in Int, NEW b \in Int, NEW d \in Nat \ {0}, (a - b) % d = 0
  PROVE  a % d = b % d
<1> DEFINE k == (a-b) \div d
           p == b \div d
           s == b % d
<1>1. k \in Int /\ p \in Int /\ s \in 0..(d-1)
  BY DivMod
<1>2. a - b = d * k /\ b = d * p + s
  BY DivMod
<1> HIDE DEF k, p, s
<1>3. d * (k + p) = d * k + d * p /\ d * k \in Int /\ d * p \in Int
  BY <1>1
<1>4. a = d * (k + p) + s
  <2> DEFINE dp == d * p
             dk == d * k
             x  == d * (k + p)
  <2>1. a - b = dk /\ b = dp + s /\ x = dk + dp /\ dk \in Int /\ dp \in Int
    BY <1>2, <1>3
  <2> HIDE DEF dp, dk, x
  <2>2. a = x + s
    BY <1>1, <2>1
  <2> QED
    BY <2>2 DEF x
<1>5. a % d = s
  BY <1>1, <1>4, Rest
<1> QED
  BY <1>5 DEF s

LEMMA ModSmall ==
  ASSUME NEW d \in Nat \ {0}, NEW b \in 0..(d-1)
  PROVE b % d = b
<1>1. b = d * 0 + b
  OBVIOUS
<1> QED 
  BY <1>1, Rest

\* The quotient of naturals is one.
LEMMA DivNat ==
  ASSUME NEW n \in Nat, NEW d \in Nat \ {0}
  PROVE  n \div d \in Nat /\ (n \div d > 0 => d <= n)
<1> DEFINE q == n \div d
           t == n % d
<1>1. q \in Int /\ t \in 0..(d - 1) /\ n = d * q + t
  BY DivMod
<1> HIDE DEF q, t
<1>2. ASSUME q <= -1 PROVE FALSE
  <2>1. d * (-1 - q) >= 0 /\ d * (-1 - q) = -d - d * q /\ d * q \in Int
    BY <1>1, <1>2
  <2> DEFINE p == d * q
             x == d * (-1 - q)
  <2>2. x >= 0 /\ x = -d - p /\ p \in Int /\ n = p + t
    BY <1>1, <2>1
  <2> HIDE DEF p, x
  <2> QED
    BY <1>1, <2>2
<1>3. ASSUME q >= 1 PROVE d <= n
  <2>1. d * (q - 1) >= 0 /\ d * (q - 1) = d * q - d /\ d * q \in Int
    BY <1>1, <1>3
  <2> DEFINE p == d * q
             x == d * (q - 1)
  <2>2. x >= 0 /\ x = p - d /\ p \in Int /\ n = p + t
    BY <1>1, <2>1
  <2> HIDE DEF p, x
  <2> QED
    BY <1>1, <2>2
<1>4. q \in Nat /\ (q > 0 => d <= n)
  BY <1>1, <1>2, <1>3
<1> QED
  BY <1>4 DEF q

------------------------------------------------------------------------------
(* The reader.                                                              *)

\* The reader once it has n bytes of the new file.
Reader(n, d, c, s) == [buf |-> SubSeq(buf, 1, n), dbpos |-> d, coord |-> c, st |-> s]

\* The k bytes behind the n-th are those behind the d-th of the old file.
Matches(n, d, k) ==
  /\ 0 <= d /\ d + k <= Len(old.buf)
  /\ \A i \in 1..k : buf[n + i] = old.buf[d + i]

Bytes == buf \in Seq(Byte) /\ old.buf \in Seq(Byte)

\* A part of a file is a sequence of bytes.
LEMMA PartIsSeq ==
  ASSUME NEW f \in Seq(Byte), NEW m \in 1..(Len(f) + 1), NEW n \in (m - 1)..Len(f)
  PROVE  /\ SubSeq(f, m, n) \in Seq(Byte)
         /\ Len(SubSeq(f, m, n)) = n - m + 1
         /\ \A i \in 1..(n - m + 1) : SubSeq(f, m, n)[i] = f[m + i - 1]
<1>1. Len(f) \in Nat
  BY LenProperties
<1>2. \A i \in m..n : f[i] \in Byte
  BY <1>1, ElementOfSeq
<1> QED
  BY <1>1, <1>2, SubSeqProperties

\* Bytes that match are copied as they are.
LEMMA CopyIsPart ==
  ASSUME Bytes, NEW n \in Nat, NEW d \in Int, NEW k \in Nat, n + k <= pos,
         k # 0 => Matches(n, d, k)
  PROVE  SubSeq(buf, 1, n) \o SubSeq(old.buf, d + 1, d + k) = SubSeq(buf, 1, n + k)
<1>1. Len(buf) \in Nat /\ Len(old.buf) \in Nat
  BY LenProperties DEF Bytes
<1>2. SubSeq(old.buf, d + 1, d + k) = SubSeq(buf, n + 1, n + k)
  <2>1. CASE k = 0
    BY <2>1, <1>1, SubSeqEmpty
  <2>2. CASE k # 0
    <3>1. /\ SubSeq(old.buf, d + 1, d + k) \in Seq(Byte)
          /\ Len(SubSeq(old.buf, d + 1, d + k)) = k
          /\ \A i \in 1..k : SubSeq(old.buf, d + 1, d + k)[i] = old.buf[d + i]
      <4>1. d + 1 \in 1..(Len(old.buf) + 1) /\ d + k \in d..Len(old.buf)
        BY <2>2, <1>1 DEF Matches
      <4>2. (d + k) - (d + 1) + 1 = k /\ \A i \in 1..k : (d + 1) + i - 1 = d + i
        OBVIOUS
      <4> QED
        BY <4>1, <4>2, PartIsSeq DEF Bytes
    <3>2. /\ SubSeq(buf, n + 1, n + k) \in Seq(Byte)
          /\ Len(SubSeq(buf, n + 1, n + k)) = k
          /\ \A i \in 1..k : SubSeq(buf, n + 1, n + k)[i] = buf[n + i]
      <4>1. n + 1 \in 1..(Len(buf) + 1) /\ n + k \in n..Len(buf)
        BY <1>1 DEF pos
      <4>2. (n + k) - (n + 1) + 1 = k /\ \A i \in 1..k : (n + 1) + i - 1 = n + i
        OBVIOUS
      <4> QED
        BY <4>1, <4>2, PartIsSeq DEF Bytes
    <3> QED
      BY <2>2, <3>1, <3>2, SeqEqual DEF Matches
  <2> QED
    BY <2>1, <2>2
<1>3. SubSeq(buf, 1, n) \o SubSeq(buf, n + 1, n + k) = SubSeq(buf, 1, n + k)
  BY <1>1, ConcatAdjacentSubSeq DEF Bytes, pos
<1> QED
  BY <1>2, <1>3

\* The parts of the new file that a command copies and makes, put together.
Join(n, d, k, e) ==
  /\ SubSeq(buf, 1, n) \o SubSeq(old.buf, d + 1, d + k) = SubSeq(buf, 1, n + k)
  /\ Len(SubSeq(buf, 1, n + k)) = n + k
  /\ SubSeq(buf, 1, n + k) \o SubSeq(buf, n + k + 1, n + k + e)
       = SubSeq(buf, 1, n + k + e)
  /\ ~(k # 0 /\ (d < 0 \/ d + k > Len(old.buf)))

LEMMA Joined ==
  ASSUME Bytes, NEW n \in Nat, NEW d \in Int, NEW k \in Nat, NEW e \in Nat,
         n + k + e <= pos, k # 0 => Matches(n, d, k)
  PROVE  Join(n, d, k, e)
<1>0. Len(buf) \in Nat /\ Len(old.buf) \in Nat
  BY LenProperties DEF Bytes
<1>1. n + k <= pos
  BY <1>0 DEF pos
<1>2. Len(SubSeq(buf, 1, n + k)) = n + k
  <2>1. 1 \in 1..(Len(buf) + 1) /\ n + k \in 0..Len(buf) /\ (n + k) - 1 + 1 = n + k
    BY <1>0, <1>1 DEF pos
  <2> QED
    BY <2>1, PartIsSeq DEF Bytes
<1>3. SubSeq(buf, 1, n + k) \o SubSeq(buf, n + k + 1, n + k + e) = SubSeq(buf, 1, n + k + e)
  BY <1>0, ConcatAdjacentSubSeq DEF Bytes, pos
<1>4. ~(k # 0 /\ (d < 0 \/ d + k > Len(old.buf)))
  BY <1>0 DEF Matches
<1>5. SubSeq(buf, 1, n) \o SubSeq(old.buf, d + 1, d + k) = SubSeq(buf, 1, n + k)
  BY <1>1, CopyIsPart
<1> QED
  BY <1>2, <1>3, <1>4, <1>5 DEF Join

\* The last e bytes of the new file.
Behind(e) == SubSeq(buf, pos - e + 1, pos)

\* What a command copies and makes is the next part of the new file.
Continues(n, d, co, c, data, k, e) ==
  /\ n + k + e <= pos
  /\ k # 0 => Matches(n, d, k)
  /\ ~Omitted(c)
  /\ Copied(Reader(n, d, co, "reading"), c) = k
  /\ Edited(c) = e
  /\ c.cmd \in {"increment", "coord"} => 0 <= d + k /\ d + k + e <= Len(old.buf)
  /\ NewBytes(c, data, d + k) = SubSeq(buf, n + k + 1, n + k + e)

Grown(n, d, co, c, k, e) ==
  Reader(n + k + e, d + k + e - (IF c.cmd = "seek" THEN c.arg1 ELSE 0),
         IF c.cmd = "copy" THEN n + k ELSE co,
         IF c.cmd # "eof_crc32" THEN "reading"
         ELSE IF Crc(SubSeq(buf, 1, n + k + e)) = c.arg2 THEN "ended" ELSE "error")

\* What such a command adds to the reader's file.
LEMMA Reads ==
  ASSUME Bytes, NEW n \in Nat, NEW d \in Int, NEW co, NEW c, NEW k \in Nat, NEW e \in Nat,
         NEW data, Continues(n, d, co, c, data, k, e)
  PROVE  Apply(Reader(n, d, co, "reading"), c, data) = Grown(n, d, co, c, k, e)
<1>1. Join(n, d, k, e)
  BY Joined, Zenon DEF Continues
<1>2. /\ Reader(n, d, co, "reading").st = "reading"
      /\ Reader(n, d, co, "reading").dbpos = d
      /\ Reader(n, d, co, "reading").coord = co
      /\ Reader(n, d, co, "reading").buf = SubSeq(buf, 1, n)
  BY DEF Reader
<1>3. ~(c.cmd \in {"increment", "coord"} /\ (d + k < 0 \/ d + k + e > Len(old.buf)))
  <2>1. Len(old.buf) \in Nat
    BY LenProperties DEF Bytes
  <2>2. d + k \in Int /\ d + k + e \in Int
    OBVIOUS
  <2>3. ASSUME NEW x \in Int, 0 <= x PROVE ~(x < 0)
    BY <2>3
  <2>4. ASSUME NEW x \in Int, x <= Len(old.buf) PROVE ~(x > Len(old.buf))
    BY <2>1, <2>4
  <2> QED
    BY <2>2, <2>3, <2>4, Zenon DEF Continues
<1> QED
  BY <1>1, <1>2, <1>3, Zenon DEF Apply, Fails, Reader, Join, Continues, Grown

\* A command without data is followed by nothing.
LEMMA NoData ==
  ASSUME Bytes, NEW x \in Nat
  PROVE  Behind(0) = <<>> /\ SubSeq(buf, x + 1, x) = <<>>
<1>1. pos \in Nat
  BY LenProperties DEF Bytes, pos
<1> QED
  BY <1>1, SubSeqEmpty DEF Behind

\* The last e bytes are what comes next, if the command goes to the end.
LEMMA NextIsLast ==
  ASSUME Bytes, NEW n \in Nat, NEW k \in Nat, NEW e \in Nat, n + k + e = pos
  PROVE  /\ n + k + e <= pos
         /\ SubSeq(buf, n + k + 1, n + k + e) = Behind(e)
<1>1. pos \in Nat
  BY LenProperties DEF Bytes, pos
<1>2. n + k + e <= pos /\ n + k + 1 = pos - e + 1
  BY <1>1
<1> QED
  BY <1>2 DEF Behind

LEMMA ReadsCopy ==
  ASSUME Bytes, NEW n \in Nat, NEW d \in Int, NEW co, NEW k \in Nat, k # 0,
         n + k <= pos, Matches(n, d, k), NEW c, c = Command("copy", k, 0)
  PROVE  Apply(Reader(n, d, co, "reading"), c, Data(c))
              = Reader(n + k, d + k, n + k, "reading")
<1>1. c.cmd = "copy" /\ c.arg1 = k
  BY Zenon DEF Command
<1>2. ~Omitted(c) /\ DataLength(c) = 0 /\ Edited(c) = 0
  BY <1>1, Zenon DEF Omitted, DataLength, Edited
<1>3. Copied(Reader(n, d, co, "reading"), c) = k
  BY <1>1, Zenon DEF Copied
<1>4. n + k + 0 = n + k /\ d + k + 0 - 0 = d + k /\ n + k \in Nat
  OBVIOUS
<1>5. NewBytes(c, Data(c), d + k) = SubSeq(buf, n + k + 1, n + k + 0)
  <2>1. NewBytes(c, Data(c), d + k) = Data(c)
    BY <1>1, Zenon DEF NewBytes
  <2>2. Data(c) = Behind(0)
    BY <1>2, Zenon DEF Data, Behind
  <2> QED
    BY <2>1, <2>2, <1>4, NoData
<1>6. Continues(n, d, co, c, Data(c), k, 0)
  BY <1>1, <1>2, <1>3, <1>4, <1>5, Zenon DEF Continues
<1>7. Apply(Reader(n, d, co, "reading"), c, Data(c)) = Grown(n, d, co, c, k, 0)
  <2>1. 0 \in Nat
    OBVIOUS
  <2> QED
    BY <2>1, <1>6, Reads
<1> QED
  BY <1>1, <1>4, <1>7, Zenon DEF Grown

\* The commands that go to the end of what is written, and say nothing else.
ReachesEnd(n, d, co, c, k, e) ==
  /\ n + k + e = pos
  /\ k # 0 => Matches(n, d, k)
  /\ c.cmd \in {"edit", "copyedit", "copyedit1", "erase", "increment", "coord"}
  /\ ~Omitted(c)
  /\ Copied(Reader(n, d, co, "reading"), c) = k
  /\ Edited(c) = e
  /\ c.cmd \in {"increment", "coord"} => 0 <= d + k /\ d + k + e <= Len(old.buf)
  /\ NewBytes(c, Data(c), d + k) = Behind(e)

LEMMA ReadsToEnd ==
  ASSUME Bytes, NEW n \in Nat, NEW d \in Int, NEW co, NEW c, NEW k \in Nat, NEW e \in Nat,
         ReachesEnd(n, d, co, c, k, e)
  PROVE  Apply(Reader(n, d, co, "reading"), c, Data(c)) = Reader(pos, d + k + e, co, "reading")
<1>1. n + k + e = pos
  BY DEF ReachesEnd
<1>2. n + k + e <= pos /\ SubSeq(buf, n + k + 1, n + k + e) = Behind(e)
  BY <1>1, NextIsLast
<1>3. Continues(n, d, co, c, Data(c), k, e)
  BY <1>2, Zenon DEF ReachesEnd, Continues
<1>4. Apply(Reader(n, d, co, "reading"), c, Data(c)) = Grown(n, d, co, c, k, e)
  BY <1>3, Reads
<1>5. c.cmd # "seek" /\ c.cmd # "copy" /\ c.cmd # "eof_crc32"
  BY DEF ReachesEnd
<1>6. d + k + e - 0 = d + k + e
  OBVIOUS
<1> QED
  BY <1>1, <1>4, <1>5, <1>6, Zenon DEF Grown

\* The file is n bytes, k that are to be copied and e that are not.
Parts(n, d, k, e) == n + k + e = pos /\ (k # 0 => Matches(n, d, k))

LEMMA ReadsCopyEdit ==
  ASSUME Bytes, NEW n \in Nat, NEW d \in Int, NEW co, NEW k \in Nat, NEW e \in Nat,
         Parts(n, d, k, e), NEW c,
         c = Command("copyedit", k, e - 1) \/ (c = Command("copyedit1", k, 0) /\ e = 1)
  PROVE  Apply(Reader(n, d, co, "reading"), c, Data(c)) = Reader(pos, d + k + e, co, "reading")
<1>1. /\ c.arg1 = k
      /\ (c.cmd = "copyedit" /\ c.arg2 = e - 1) \/ (c.cmd = "copyedit1" /\ e = 1)
  <2>1. CASE c = Command("copyedit", k, e - 1)
    BY <2>1 DEF Command
  <2>2. CASE c = Command("copyedit1", k, 0) /\ e = 1
    BY <2>2 DEF Command
  <2> QED
    BY <2>1, <2>2
<1>2. (e - 1) + 1 = e
  OBVIOUS
<1>3. DataLength(c) = e
  BY <1>1, <1>2, Zenon DEF DataLength
<1>4. NewBytes(c, Data(c), d + k) = Behind(e)
  BY <1>1, <1>3, Zenon DEF NewBytes, Data, Behind
<1>5. ~Omitted(c) /\ Copied(Reader(n, d, co, "reading"), c) = k /\ Edited(c) = e
  BY <1>1, <1>3, Zenon DEF Omitted, Copied, Edited
<1>6. ReachesEnd(n, d, co, c, k, e)
  BY <1>1, <1>4, <1>5, Zenon DEF ReachesEnd, Parts
<1> QED
  BY <1>6, ReadsToEnd

\* The last e bytes, byte for byte.
LEMMA BehindIs ==
  ASSUME Bytes, NEW e \in Nat, e <= pos
  PROVE  /\ Behind(e) \in Seq(Byte)
         /\ Len(Behind(e)) = e
         /\ \A i \in 1..e : Behind(e)[i] = buf[pos - e + i]
<1>1. Len(buf) \in Nat /\ buf \in Seq(Byte)
  BY LenProperties DEF Bytes
<1> DEFINE m == pos - e + 1
<1>2. m \in 1..(Len(buf) + 1) /\ pos \in (m - 1)..Len(buf)
  BY <1>1 DEF pos
<1>3. pos - m + 1 = e /\ \A i \in 1..e : m + i - 1 = pos - e + i
  BY <1>1 DEF pos
<1>4. Behind(e) = SubSeq(buf, m, pos)
  BY DEF Behind
<1> HIDE DEF m
<1>5. /\ SubSeq(buf, m, pos) \in Seq(Byte)
      /\ Len(SubSeq(buf, m, pos)) = pos - m + 1
      /\ \A i \in 1..(pos - m + 1) : SubSeq(buf, m, pos)[i] = buf[m + i - 1]
  BY <1>1, <1>2, PartIsSeq
<1> QED
  BY <1>3, <1>4, <1>5

\* A part of the new file, given by its bytes.
LEMMA ByBytes ==
  ASSUME Bytes, NEW e \in Nat, e <= pos, NEW f \in [1..e -> Byte],
         \A i \in 1..e : f[i] = buf[pos - e + i]
  PROVE  f = Behind(e)
<1>1. f \in Seq(Byte) /\ Len(f) = e
  OBVIOUS
<1>2. /\ Behind(e) \in Seq(Byte) /\ Len(Behind(e)) = e
      /\ \A i \in 1..e : f[i] = Behind(e)[i]
  BY BehindIs
<1> QED
  BY <1>1, <1>2, SeqEqual

LEMMA ReadsErase ==
  ASSUME Bytes, NEW n \in Nat, NEW d \in Int, NEW co, NEW k \in Nat, NEW e \in Nat,
         Parts(n, d, k, e), \A i \in 1..e : buf[pos - e + i] = 0,
         NEW c, c = Command("erase", k, e - 3)
  PROVE  Apply(Reader(n, d, co, "reading"), c, Data(c)) = Reader(pos, d + k + e, co, "reading")
<1>1. c.cmd = "erase" /\ c.arg1 = k /\ c.arg2 = e - 3
  BY Zenon DEF Command
<1>2. (e - 3) + 3 = e
  OBVIOUS
<1>3. ~Omitted(c) /\ Copied(Reader(n, d, co, "reading"), c) = k /\ Edited(c) = e
  BY <1>1, <1>2, Zenon DEF Omitted, Copied, Edited
<1>4. NewBytes(c, Data(c), d + k) = [i \in 1..e |-> 0]
  BY <1>1, <1>3, Zenon DEF NewBytes
<1>5. [i \in 1..e |-> 0] = Behind(e)
  <2>1. 0 \in Byte
    BY FileAssumption DEF Byte
  <2>2. pos \in Nat
    BY LenProperties DEF Bytes, pos
  <2>3. e <= pos
    BY <2>2 DEF Parts
  <2> DEFINE f == [i \in 1..e |-> 0]
  <2>4. f \in [1..e -> Byte] /\ \A i \in 1..e : f[i] = buf[pos - e + i]
    BY <2>1
  <2> HIDE DEF f
  <2>5. f = Behind(e)
    BY <2>3, <2>4, ByBytes
  <2> QED
    BY <2>5 DEF f
<1>6. ReachesEnd(n, d, co, c, k, e)
  BY <1>1, <1>3, <1>4, <1>5, Zenon DEF ReachesEnd, Parts
<1> QED
  BY <1>6, ReadsToEnd

LEMMA ReadsIncrement ==
  ASSUME Bytes, NEW n \in Nat, NEW d \in Int, NEW co, NEW k \in Nat,
         Parts(n, d, k, 1),
         0 <= d + k, d + k + 1 <= Len(old.buf), buf[pos] = (old.buf[d + k + 1] + 1) % Base,
         NEW c, c = Command("increment", k, 0)
  PROVE  Apply(Reader(n, d, co, "reading"), c, Data(c)) = Reader(pos, d + k + 1, co, "reading")
<1>1. c.cmd = "increment" /\ c.arg1 = k
  BY Zenon DEF Command
<1>2. 1 \in Nat
  OBVIOUS
<1>3. ~Omitted(c) /\ Copied(Reader(n, d, co, "reading"), c) = k /\ Edited(c) = 1
  BY <1>1, Zenon DEF Omitted, Copied, Edited
<1>4. NewBytes(c, Data(c), d + k) = <<buf[pos]>>
  BY <1>1, Zenon DEF NewBytes
<1>5. <<buf[pos]>> = Behind(1)
  <2>1. pos \in Nat /\ pos = Len(buf) /\ buf \in Seq(Byte)
    BY LenProperties DEF Bytes, pos
  <2>2. 1 <= pos /\ pos - 1 + 1 = pos
    BY <2>1 DEF Parts
  <2>3. buf[pos] \in Byte
    BY <2>1, <2>2, ElementOfSeq
  <2> DEFINE f == <<buf[pos]>>
  <2>4. f \in Seq(Byte) /\ Len(f) = 1 /\ f[1] = buf[pos]
    BY <2>3
  <2> HIDE DEF f
  <2>5. /\ Behind(1) \in Seq(Byte) /\ Len(Behind(1)) = 1
        /\ \A i \in 1..1 : Behind(1)[i] = buf[pos - 1 + i]
    BY <1>2, <2>2, BehindIs, Zenon
  <2>6. \A i \in 1..1 : i = 1
    OBVIOUS
  <2>7. \A i \in 1..1 : f[i] = Behind(1)[i]
    BY <2>2, <2>4, <2>5, <2>6, Zenon
  <2>8. f = Behind(1)
    BY <2>4, <2>5, <2>7, SeqEqual
  <2> QED
    BY <2>8 DEF f
<1>6. ReachesEnd(n, d, co, c, k, 1)
  BY <1>1, <1>3, <1>4, <1>5, Zenon DEF ReachesEnd, Parts
<1> QED
  BY <1>2, <1>6, ReadsToEnd

LEMMA ReadsSeek ==
  ASSUME Bytes, NEW d \in Int, NEW co, NEW s \in Int, s # 0,
         NEW c, c = Command("seek", s, 0)
  PROVE  Apply(Reader(pos, d, co, "reading"), c, Data(c)) = Reader(pos, d - s, co, "reading")
<1>1. c.cmd = "seek" /\ c.arg1 = s
  BY Zenon DEF Command
<1>2. pos \in Nat
  BY LenProperties DEF Bytes, pos
<1>3. ~Omitted(c) /\ DataLength(c) = 0 /\ Edited(c) = 0
  BY <1>1, Zenon DEF Omitted, DataLength, Edited
<1>4. Copied(Reader(pos, d, co, "reading"), c) = 0
  BY <1>1, Zenon DEF Copied
<1>5. pos + 0 + 0 = pos /\ pos + 0 + 0 <= pos /\ pos + 0 + 1 = pos + 1 /\ 0 \in Nat
      /\ d + 0 + 0 - s = d - s
  BY <1>2
<1>6. NewBytes(c, Data(c), d + 0) = SubSeq(buf, pos + 0 + 1, pos + 0 + 0)
  <2>1. NewBytes(c, Data(c), d + 0) = Data(c)
    BY <1>1, Zenon DEF NewBytes
  <2>2. Data(c) = Behind(0)
    BY <1>3, Zenon DEF Data, Behind
  <2> QED
    BY <1>2, <1>5, <2>1, <2>2, NoData
<1>7. Continues(pos, d, co, c, Data(c), 0, 0)
  BY <1>1, <1>3, <1>4, <1>5, <1>6, Zenon DEF Continues
<1>8. Apply(Reader(pos, d, co, "reading"), c, Data(c)) = Grown(pos, d, co, c, 0, 0)
  BY <1>2, <1>5, <1>7, Reads
<1> QED
  BY <1>1, <1>5, <1>8, Zenon DEF Grown

\* At the end the checksum is that of the file that was written.
LEMMA ReadsEof ==
  ASSUME Bytes, NEW n \in Nat, NEW d \in Int, NEW co, NEW k \in Nat, n + k = pos,
         k # 0 => Matches(n, d, k), NEW c, c = Command("eof_crc32", k, Crc(buf))
  PROVE  Apply(Reader(n, d, co, "reading"), c, Data(c)) = Reader(pos, d + k, co, "ended")
<1>1. c.cmd = "eof_crc32" /\ c.arg1 = k /\ c.arg2 = Crc(buf)
  BY Zenon DEF Command
<1>2. pos \in Nat /\ 0 \in Nat
  BY LenProperties DEF Bytes, pos
<1>3. ~Omitted(c) /\ DataLength(c) = 0 /\ Edited(c) = 0
  BY <1>1, Zenon DEF Omitted, DataLength, Edited
<1>4. Copied(Reader(n, d, co, "reading"), c) = k
  BY <1>1, Zenon DEF Copied
<1>5. n + k + 0 = pos /\ n + k + 0 <= pos /\ n + k + 1 = pos + 1 /\ d + k + 0 - 0 = d + k
  BY <1>2
<1>6. NewBytes(c, Data(c), d + k) = SubSeq(buf, n + k + 1, n + k + 0)
  <2>1. NewBytes(c, Data(c), d + k) = Data(c)
    BY <1>1, Zenon DEF NewBytes
  <2>2. Data(c) = Behind(0)
    BY <1>3, Zenon DEF Data, Behind
  <2> QED
    BY <1>2, <1>5, <2>1, <2>2, NoData
<1>7. Continues(n, d, co, c, Data(c), k, 0)
  BY <1>1, <1>3, <1>4, <1>5, <1>6, Zenon DEF Continues
<1>8. Apply(Reader(n, d, co, "reading"), c, Data(c)) = Grown(n, d, co, c, k, 0)
  BY <1>2, <1>7, Reads
<1>9. SubSeq(buf, 1, pos) = buf
  BY SubSeqFull DEF Bytes, pos
<1> QED
  BY <1>1, <1>5, <1>8, <1>9, Zenon DEF Grown

\* What a coord command copies: a multiple of a monster's size, and as much as
\* brings it back to where coordinates are expected.
Jumps(k, a, co, n) == k = a * SAVE_SIZE_MONST + ((co - n) % SAVE_SIZE_MONST)

\* What a direction adds to the first or second of two coordinates.
Step1(i, dir) == (IF i = 1 THEN xdir ELSE ydir)[dir + 1]

\* The k bytes behind the n-th are copied, and the e bytes behind those are the
\* old ones a step further; with them the file ends.
StepAt(n, d, k, e, dir) ==
  /\ dir \in Dirs /\ e = (IF OneByte(dir) THEN 1 ELSE 2)
  /\ n + k + e = pos
  /\ k # 0 => Matches(n, d, k)
  /\ 0 <= d + k /\ d + k + e <= Len(old.buf)
  /\ \A i \in 1..e : buf[pos - e + i] = (old.buf[d + k + i] + Step1(i, dir)) % Base

LEMMA ReadsCoord ==
  ASSUME Bytes, NEW n \in Nat, NEW d \in Int, NEW co \in Int, NEW k \in Nat, NEW e \in Nat,
         NEW a \in Nat, NEW dir, StepAt(n, d, k, e, dir), Jumps(k, a, co, n),
         NEW c, c = Command("coord", a, dir)
  PROVE  Apply(Reader(n, d, co, "reading"), c, Data(c)) = Reader(pos, d + k + e, co, "reading")
<1> USE DEF StepAt
<1>1. c.cmd = "coord" /\ c.arg1 = a /\ c.arg2 = dir
  BY Zenon DEF Command
<1>2. pos \in Nat /\ pos = Len(buf) /\ buf \in Seq(Byte)
  BY LenProperties DEF Bytes, pos
<1>3. Len(SubSeq(buf, 1, n)) = n
  <2>1. n \in 0..Len(buf) /\ 1 \in 1..(Len(buf) + 1) /\ n - 1 + 1 = n /\ 1 - 1 = 0
    BY <1>2
  <2> QED
    BY <1>2, <2>1, PartIsSeq
<1>4. ~Omitted(c) /\ Edited(c) = e
  BY <1>1, Zenon DEF Omitted, Edited
<1>5. Copied(Reader(n, d, co, "reading"), c) = k
  <2>1. /\ Reader(n, d, co, "reading").buf = SubSeq(buf, 1, n)
        /\ Reader(n, d, co, "reading").coord = co
    BY DEF Reader
  <2> QED
    BY <1>1, <1>3, <2>1, Zenon DEF Copied, Jumps
<1>6. NewBytes(c, Data(c), d + k)
        = [i \in 1..e |-> (old.buf[d + k + i] + Step1(i, dir)) % Base]
  BY <1>1, <1>4, Zenon DEF NewBytes, Step1
<1>7. [i \in 1..e |-> (old.buf[d + k + i] + Step1(i, dir)) % Base] = Behind(e)
  <2> DEFINE f == [i \in 1..e |-> (old.buf[d + k + i] + Step1(i, dir)) % Base]
  <2>1. e <= pos
    BY <1>2
  <2>2. \A i \in 1..e : f[i] = buf[pos - e + i]
    OBVIOUS
  <2>3. \A i \in 1..e : buf[pos - e + i] \in Byte
    <3>1. \A i \in 1..e : pos - e + i \in 1..Len(buf)
      BY <1>2, <2>1
    <3> QED
      BY <1>2, <3>1, ElementOfSeq
  <2>4. f \in [1..e -> Byte]
    BY <2>2, <2>3
  <2> HIDE DEF f
  <2>5. f = Behind(e)
    BY <2>1, <2>2, <2>4, ByBytes
  <2> QED
    BY <2>5 DEF f
<1>8. ReachesEnd(n, d, co, c, k, e)
  BY <1>1, <1>4, <1>5, <1>6, <1>7, Zenon DEF ReachesEnd
<1> HIDE DEF StepAt
<1> QED
  BY <1>8, ReadsToEnd

------------------------------------------------------------------------------
(* Directions.                                                              *)

\* A change that fits is the one that leads from the old byte to the new.
LEMMA Changed ==
  ASSUME NEW x \in Byte, NEW y \in Byte, NEW z \in Int, ((x - y) - z) % Base = 0
  PROVE  (y + z) % Base = x
<1>1. Base \in Nat \ {0} /\ x \in 0..(Base - 1) /\ x \in Int /\ y \in Int
  BY FileAssumption DEF Byte
<1>2. x - (y + z) = (x - y) - z
  BY <1>1
<1>3. x % Base = (y + z) % Base
  <2>1. (x - (y + z)) % Base = 0 /\ y + z \in Int
    BY <1>1, <1>2
  <2> DEFINE s == y + z
  <2>2. s \in Int /\ (x - s) % Base = 0
    BY <2>1
  <2> HIDE DEF s
  <2>3. x % Base = s % Base
    BY <1>1, <2>2, ModEqual
  <2> QED
    BY <2>3 DEF s
<1> QED
  BY <1>1, <1>3, ModSmall

LEMMA MovedIs ==
  ASSUME NEW dx, NEW dy, Moved(dx, dy) # DIR_NONE
  PROVE  /\ Moved(dx, dy) \in Dirs
         /\ (dx - xdir[Moved(dx, dy) + 1]) % Base = 0
         /\ (dy - ydir[Moved(dx, dy) + 1]) % Base = 0
<1> DEFINE fits == {d \in Dirs : /\ (dx - xdir[d + 1]) % Base = 0
                                 /\ (dy - ydir[d + 1]) % Base = 0}
<1>1. Moved(dx, dy) = IF fits = {} THEN DIR_NONE ELSE CHOOSE d \in fits : TRUE
  BY DEF Moved
<1>2. fits # {}
  BY <1>1
<1>3. Moved(dx, dy) \in fits
  BY <1>1, <1>2
<1> QED
  BY <1>3

\* Of two bytes only the first changes in the directions west and east, and no
\* others are counted as changes of one byte.
LEMMA DirectionIs ==
  ASSUME NEW dir \in Dirs
  PROVE  /\ xdir[dir + 1] \in -1..1 /\ ydir[dir + 1] \in -1..1
         /\ OneByte(dir) <=> ydir[dir + 1] = 0
         /\ xdir[dir + 1] = 0 => ydir[dir + 1] # 0
<1>1. dir \in {0, 1, 2, 3, 4, 5, 6, 7}
  BY DEF Dirs
<1> QED
  BY <1>1 DEF xdir, ydir, OneByte, DIR_W, DIR_E

\* Changes by less than one byte's values are told apart.
LEMMA NoChange ==
  ASSUME NEW z \in -1..1, (0 - z) % Base = 0
  PROVE  z = 0
<1>1. Base \in Nat \ {0, 1}
  BY FileAssumption
<1>2. CASE z = 1
  <2>1. 0 - z = Base * (-1) + (Base - 1) /\ Base - 1 \in 0..(Base - 1)
    BY <1>1, <1>2
  <2>2. (0 - z) % Base = Base - 1
    BY <1>1, <2>1, Rest
  <2> QED
    BY <1>1, <2>2
<1>3. CASE z = -1
  <2>1. 0 - z = Base * 0 + 1 /\ 1 \in 0..(Base - 1)
    BY <1>1, <1>3
  <2>2. (0 - z) % Base = 1
    BY <1>1, <2>1, Rest
  <2> QED
    BY <2>2
<1> QED
  BY <1>2, <1>3

------------------------------------------------------------------------------
(* The invariant.                                                           *)

\* Where the old file was when the count began.
Began == w.relativepos - w.copies - w.edits

Shape ==
  /\ old \in Olds /\ buf \in Seq(Byte) /\ w \in Writer
  /\ w.seeks # 0 => w.copies = 0 /\ w.edits = 0
  /\ w.relativepos \in Nat

\* Before the last flush: the bytes that are counted are the last ones written,
\* those that are to be copied are the same in the old file, and the reader has
\* all that come before them.
Counted ==
  /\ firstCopy \in Nat
  /\ Began \in Nat
  /\ w.copies # 0 => Matches(firstCopy, Began, w.copies)
  /\ r = Reader(firstCopy, Began + w.seeks, w.coord, "reading")

\* After it.
Ended == \E d \in Int, co \in Nat : r = Reader(pos, d, co, "ended")

IInv == Shape /\ (~w.flushed => Counted) /\ (w.flushed => Ended)

LEMMA ShapeTypes ==
  ASSUME Shape
  PROVE  /\ Bytes /\ old.tag \in [Tags -> Int]
         /\ pos \in Nat /\ pos = Len(buf) /\ Len(old.buf) \in Nat
         /\ \A t \in Tags : old.tag[t] \in {NotTagged} \cup 0..Len(old.buf)
         /\ w.relativepos \in Nat /\ w.copies \in Nat /\ w.edits \in Nat
         /\ w.seeks \in Int /\ w.coord \in Nat /\ w.hint \in Int
         /\ w.flushed \in BOOLEAN
<1>1. old \in File
  BY FileAssumption DEF Shape
<1>2. Bytes /\ old.tag \in [Tags -> Int]
  BY <1>1 DEF Shape, Bytes, File
<1>3. pos \in Nat /\ pos = Len(buf) /\ Len(old.buf) \in Nat
  BY <1>2, LenProperties DEF Bytes, pos
<1>4. \A t \in Tags : old.tag[t] \in {NotTagged} \cup 0..Len(old.buf)
  BY FileAssumption DEF Shape
<1> QED
  BY <1>2, <1>3, <1>4 DEF Shape, Writer

\* The names for the numbers of a flush.
LEMMA CountedNumbers ==
  ASSUME Shape, Counted
  PROVE  /\ firstCopy + w.copies + w.edits = pos
         /\ Began + w.copies + w.edits = w.relativepos
         /\ firstCopy \in Nat /\ Began \in Nat
<1>1. /\ pos \in Nat /\ w.relativepos \in Nat /\ w.copies \in Nat /\ w.edits \in Nat
  BY ShapeTypes
<1>2. firstCopy \in Nat /\ Began \in Nat
  BY DEF Counted
<1> QED
  BY <1>1, <1>2 DEF firstCopy, Began

\* A shorter copy matches too, and so does what it leaves.
LEMMA MatchesPart ==
  ASSUME NEW n \in Nat, NEW d \in Nat, NEW k \in Nat, NEW x \in Nat, NEW y \in Nat,
         x + y <= k, k # 0 => Matches(n, d, k), Len(old.buf) \in Nat
  PROVE  /\ x # 0 => Matches(n, d, x)
         /\ y # 0 => Matches(n + x, d + x, y)
<1>1. ASSUME x # 0 PROVE Matches(n, d, x)
  BY <1>1 DEF Matches
<1>2. ASSUME y # 0 PROVE Matches(n + x, d + x, y)
  <2>1. Matches(n, d, k)
    BY <1>2
  <2>2. 0 <= d + x /\ d + x + y <= Len(old.buf)
    BY <2>1 DEF Matches
  <2>3. \A i \in 1..y : buf[n + x + i] = old.buf[d + x + i]
    <3>1. SUFFICES ASSUME NEW i \in 1..y PROVE buf[n + x + i] = old.buf[d + x + i]
      OBVIOUS
    <3>2. x + i \in 1..k /\ n + (x + i) = n + x + i /\ d + (x + i) = d + x + i
      OBVIOUS
    <3>3. buf[n + (x + i)] = old.buf[d + (x + i)]
      BY <2>1, <3>2 DEF Matches
    <3> QED
      BY <3>2, <3>3
  <2> QED
    BY <2>2, <2>3 DEF Matches
<1> QED
  BY <1>1, <1>2

------------------------------------------------------------------------------
(* What may be written.                                                     *)

Large == (coordPos - firstCopy) \div SAVE_SIZE_MONST
Small == (coordPos - firstCopy) % SAVE_SIZE_MONST

IsPair(e, c0, c1) == e.c0 = c0 /\ e.c1 = c1

LEMMA EncodingCases ==
  ASSUME NEW eof, NEW dir, NEW e \in Encodings(eof, dir)
  PROVE  \/ w.edits \in 1..4 /\ IsPair(e, Command("copyedit", w.copies, w.edits - 1), None)
         \/ IsPair(e, Command("copy", w.copies, 0), Command("edit", w.edits - 1, 0))
         \/ eof /\ w.edits = 0 /\ IsPair(e, Command("eof_crc32", w.copies, Crc(buf)), None)
         \/ OnlyZero /\ IsPair(e, Command("erase", w.copies, w.edits - 3), None)
         \/ /\ dir # DIR_NONE /\ (coordPos - w.coord) % SAVE_SIZE_MONST = 0
            /\ IsPair(e, Command("coord", Large, dir), None)
         \/ /\ dir # DIR_NONE /\ Small # 0
            /\ IsPair(e, Command("copy", Small, 0), Command("coord", Large, dir))
         \/ /\ dir # DIR_NONE /\ Large > 0
            /\ IsPair(e, Command("copy", SAVE_SIZE_MONST + Small, 0),
                      Command("coord", Large - 1, dir))
         \/ w.edits = 1 /\ IsPair(e, Command("copyedit1", w.copies, 0), None)
  BY DEF Encodings, IsPair, Large, Small

LEMMA StepCases ==
  ASSUME NEW stray, Direction(stray) # DIR_NONE
  PROVE  \/ /\ w.edits = 2 /\ Edit(2) # Orig(2, stray)
            /\ Direction(stray) = Moved(Edit(1) - Orig(1, stray), Edit(2) - Orig(2, stray))
         \/ /\ w.edits = 1 /\ preferX
            /\ Direction(stray) = Moved(Edit(1) - Orig(1, stray), 0)
         \/ yAlone /\ Direction(stray) = Moved(0, Edit(1) - Orig(1, stray))
<1>1. ~(w.edits = 2 /\ w.edits = 1) /\ (yAlone => w.edits = 1 /\ ~preferX)
  BY DEF yAlone
<1>2. ASSUME w.edits = 2, Edit(2) # Orig(2, stray)
      PROVE  Direction(stray) = Moved(Edit(1) - Orig(1, stray), Edit(2) - Orig(2, stray))
  BY <1>1, <1>2, Zenon DEF Direction
<1>3. ASSUME w.edits = 1, preferX
      PROVE  Direction(stray) = Moved(Edit(1) - Orig(1, stray), 0)
  BY <1>1, <1>3, Zenon DEF Direction
<1>4. ASSUME yAlone
      PROVE  Direction(stray) = Moved(0, Edit(1) - Orig(1, stray))
  BY <1>1, <1>4, Zenon DEF Direction
<1>5. \/ w.edits = 2 /\ Edit(2) # Orig(2, stray)
      \/ w.edits = 1 /\ preferX
      \/ yAlone
  BY Zenon DEF Direction
<1> QED
  BY <1>2, <1>3, <1>4, <1>5, Zenon

\* The i-th of the last g of p bytes, counted from the other end.
LEMMA Offset ==
  ASSUME NEW n \in Nat, NEW k \in Nat, NEW g \in Nat, NEW p \in Nat, NEW l \in Nat,
         n + k + g = p, p <= l, NEW i \in 1..g
  PROVE  p - g + i = n + k + i /\ n + k + i \in 1..l
  OBVIOUS

Known(i, stray) ==
  /\ Orig(i, stray) = old.buf[Began + w.copies + i]
  /\ Edit(i) \in Byte /\ Orig(i, stray) \in Byte
  /\ Edit(i) = buf[firstCopy + w.copies + i]

LEMMA Compared ==
  ASSUME Shape, Counted, InReach, NEW stray, w.edits \in {1, 2}
  PROVE  /\ w.relativepos <= Len(old.buf)
         /\ \A i \in 1..w.edits : Known(i, stray)
<1>1. /\ pos \in Nat /\ pos = Len(buf) /\ Len(old.buf) \in Nat
      /\ w.relativepos \in Nat /\ w.copies \in Nat /\ w.edits \in Nat
      /\ buf \in Seq(Byte) /\ old.buf \in Seq(Byte)
  BY ShapeTypes DEF Bytes
<1>2. /\ firstCopy + w.copies + w.edits = pos
      /\ Began + w.copies + w.edits = w.relativepos
      /\ firstCopy \in Nat /\ Began \in Nat
  BY CountedNumbers
<1>3. w.relativepos <= Len(old.buf)
  BY DEF InReach
<1>4. SUFFICES ASSUME NEW i \in 1..w.edits
               PROVE  Known(i, stray)
  BY <1>3
<1>5. /\ pos - w.edits + i = firstCopy + w.copies + i
      /\ w.relativepos - w.edits + i = Began + w.copies + i
      /\ firstCopy + w.copies + i \in 1..Len(buf)
      /\ Began + w.copies + i \in 1..Len(old.buf)
  <2>1. pos \in Nat /\ pos <= pos /\ w.copies \in Nat /\ w.edits \in Nat
    BY <1>1
  <2>2. /\ pos - w.edits + i = firstCopy + w.copies + i
        /\ firstCopy + w.copies + i \in 1..pos
    BY <1>2, <2>1, Offset
  <2>3. /\ w.relativepos - w.edits + i = Began + w.copies + i
        /\ Began + w.copies + i \in 1..Len(old.buf)
    BY <1>1, <1>2, <1>3, Offset
  <2> QED
    BY <1>1, <2>2, <2>3
<1>6. Orig(i, stray) = old.buf[Began + w.copies + i]
  BY <1>5 DEF Orig
<1>7. Edit(i) = buf[firstCopy + w.copies + i]
  BY <1>5 DEF Edit
<1>8. buf[firstCopy + w.copies + i] \in Byte /\ old.buf[Began + w.copies + i] \in Byte
  BY <1>1, <1>5, ElementOfSeq
<1> QED
  BY <1>6, <1>7, <1>8 DEF Known

\* Where the coordinates of a direction begin, and what they add up to.
IsStep(dir, k, m) ==
  /\ dir \in Dirs /\ m = (IF OneByte(dir) THEN 1 ELSE 2)
  /\ k \in Nat /\ k <= w.copies
  /\ coordPos \in Int /\ coordPos - firstCopy = k
  /\ firstCopy + k + m = pos
  /\ Began + k + m = w.relativepos /\ Began + k + m <= Len(old.buf)
  /\ \A i \in 1..m : buf[pos - m + i] = (old.buf[Began + k + i] + Step1(i, dir)) % Base

\* Two bytes that change, the second one at least.
LEMMA BothStep ==
  ASSUME Shape, Counted, InReach, NEW stray, w.edits = 2,
         Edit(2) # Orig(2, stray), NEW dir, dir # DIR_NONE,
         dir = Moved(Edit(1) - Orig(1, stray), Edit(2) - Orig(2, stray))
  PROVE  IsStep(dir, w.copies, 2)
<1>1. /\ dir \in Dirs
      /\ ((Edit(1) - Orig(1, stray)) - xdir[dir + 1]) % Base = 0
      /\ ((Edit(2) - Orig(2, stray)) - ydir[dir + 1]) % Base = 0
  BY MovedIs
<1>2. /\ pos \in Nat /\ w.relativepos \in Nat /\ w.copies \in Nat
      /\ firstCopy + w.copies + 2 = pos
      /\ Began + w.copies + 2 = w.relativepos
      /\ firstCopy \in Nat /\ Began \in Nat
  BY ShapeTypes, CountedNumbers
<1>3. /\ w.relativepos <= Len(old.buf)
      /\ \A i \in 1..2 :
              /\ Orig(i, stray) = old.buf[Began + w.copies + i]
              /\ Edit(i) \in Byte /\ Orig(i, stray) \in Byte
              /\ Edit(i) = buf[firstCopy + w.copies + i]
  <2>1. w.edits \in {1, 2}
    OBVIOUS
  <2>2. w.relativepos <= Len(old.buf) /\ \A i \in 1..w.edits : Known(i, stray)
    BY <2>1, Compared
  <2> QED
    BY <2>2 DEF Known
<1>4. 1 \in 1..2 /\ 2 \in 1..2
  OBVIOUS
<1>5. /\ xdir[dir + 1] \in Int /\ ydir[dir + 1] \in Int
      /\ OneByte(dir) <=> ydir[dir + 1] = 0
  BY <1>1, DirectionIs
<1>6. (Orig(1, stray) + xdir[dir + 1]) % Base = Edit(1)
  BY <1>1, <1>3, <1>4, <1>5, Changed
<1>7. (Orig(2, stray) + ydir[dir + 1]) % Base = Edit(2)
  BY <1>1, <1>3, <1>4, <1>5, Changed
<1>8. ~OneByte(dir)
  <2>1. SUFFICES ASSUME ydir[dir + 1] = 0 PROVE FALSE
    BY <1>5
  <2>2. Base \in Nat \ {0} /\ Orig(2, stray) \in 0..(Base - 1)
    BY <1>3, <1>4, FileAssumption DEF Byte
  <2>3. Orig(2, stray) + 0 = Orig(2, stray)
    BY <2>2
  <2>4. Orig(2, stray) % Base = Edit(2)
    BY <1>7, <2>1, <2>3
  <2> QED
    BY <2>2, <2>4, ModSmall
<1>9. ~yAlone /\ coordPos = pos - 2
  BY <1>2 DEF yAlone, coordPos
<1>10. pos - 2 = firstCopy + w.copies /\ coordPos - firstCopy = w.copies
  BY <1>2, <1>9
<1>11. \A i \in 1..2 : buf[pos - 2 + i] = (old.buf[Began + w.copies + i] + Step1(i, dir)) % Base
  <2>1. SUFFICES ASSUME NEW i \in 1..2
                 PROVE  buf[pos - 2 + i] = (old.buf[Began + w.copies + i] + Step1(i, dir)) % Base
    OBVIOUS
  <2>2. /\ buf[firstCopy + w.copies + i] = Edit(i)
        /\ old.buf[Began + w.copies + i] = Orig(i, stray)
    BY <1>3
  <2>3. i = 1 \/ i = 2
    OBVIOUS
  <2>4. (Orig(i, stray) + Step1(i, dir)) % Base = Edit(i)
    BY <1>6, <1>7, <2>3 DEF Step1
  <2> QED
    BY <1>10, <2>2, <2>4
<1> QED
  BY <1>1, <1>2, <1>3, <1>8, <1>9, <1>10, <1>11 DEF IsStep

\* One byte that changes, of an x coordinate.
LEMMA XStep ==
  ASSUME Shape, Counted, InReach, NEW stray, w.edits = 1, preferX,
         NEW dir, dir # DIR_NONE, dir = Moved(Edit(1) - Orig(1, stray), 0)
  PROVE  IsStep(dir, w.copies, 1)
<1>1. /\ dir \in Dirs
      /\ ((Edit(1) - Orig(1, stray)) - xdir[dir + 1]) % Base = 0
      /\ (0 - ydir[dir + 1]) % Base = 0
  BY MovedIs
<1>2. /\ pos \in Nat /\ w.relativepos \in Nat /\ w.copies \in Nat
      /\ firstCopy + w.copies + 1 = pos
      /\ Began + w.copies + 1 = w.relativepos
      /\ firstCopy \in Nat /\ Began \in Nat
  BY ShapeTypes, CountedNumbers
<1>3. w.relativepos <= Len(old.buf) /\ Known(1, stray)
  <2>1. w.edits \in {1, 2} /\ 1 \in 1..w.edits
    OBVIOUS
  <2> QED
    BY <2>1, Compared
<1>4. /\ xdir[dir + 1] \in Int /\ ydir[dir + 1] \in -1..1
      /\ OneByte(dir) <=> ydir[dir + 1] = 0
  BY <1>1, DirectionIs
<1>5. OneByte(dir)
  BY <1>1, <1>4, NoChange
<1>6. (Orig(1, stray) + xdir[dir + 1]) % Base = Edit(1)
  BY <1>1, <1>3, <1>4, Changed DEF Known
<1>7. ~yAlone /\ coordPos = pos - 1
  BY <1>2 DEF yAlone, coordPos
<1>8. pos - 1 = firstCopy + w.copies /\ coordPos - firstCopy = w.copies
  BY <1>2, <1>7
<1>9. \A i \in 1..1 : buf[pos - 1 + i] = (old.buf[Began + w.copies + i] + Step1(i, dir)) % Base
  <2>1. SUFFICES ASSUME NEW i \in 1..1
                 PROVE  buf[pos - 1 + i] = (old.buf[Began + w.copies + i] + Step1(i, dir)) % Base
    OBVIOUS
  <2>2. i = 1
    OBVIOUS
  <2> QED
    BY <1>3, <1>6, <1>8, <2>2 DEF Known, Step1
<1> QED
  BY <1>1, <1>2, <1>3, <1>5, <1>7, <1>8, <1>9 DEF IsStep

\* One byte that changes, of a y coordinate: the byte before it is copied by
\* adding nothing to it.
LEMMA YStep ==
  ASSUME Shape, Counted, InReach, NEW stray, yAlone,
         NEW dir, dir # DIR_NONE, dir = Moved(0, Edit(1) - Orig(1, stray))
  PROVE  IsStep(dir, w.copies - 1, 2)
<1>1. /\ dir \in Dirs
      /\ (0 - xdir[dir + 1]) % Base = 0
      /\ ((Edit(1) - Orig(1, stray)) - ydir[dir + 1]) % Base = 0
  BY MovedIs
<1>2. /\ pos \in Nat /\ w.relativepos \in Nat /\ w.copies \in Nat /\ w.copies >= 1
      /\ w.edits = 1
      /\ firstCopy + w.copies + 1 = pos
      /\ Began + w.copies + 1 = w.relativepos
      /\ firstCopy \in Nat /\ Began \in Nat
  BY ShapeTypes, CountedNumbers DEF yAlone
<1>3. w.relativepos <= Len(old.buf) /\ Known(1, stray)
  <2>1. w.edits \in {1, 2} /\ 1 \in 1..w.edits
    BY <1>2
  <2> QED
    BY <2>1, Compared
<1>4. /\ xdir[dir + 1] \in -1..1 /\ ydir[dir + 1] \in Int
      /\ OneByte(dir) <=> ydir[dir + 1] = 0
      /\ xdir[dir + 1] = 0 => ydir[dir + 1] # 0
  BY <1>1, DirectionIs
<1>5. xdir[dir + 1] = 0 /\ ~OneByte(dir)
  BY <1>1, <1>4, NoChange
<1>6. (Orig(1, stray) + ydir[dir + 1]) % Base = Edit(1)
  BY <1>1, <1>3, <1>4, Changed DEF Known
<1>7. coordPos = pos - 2
  BY <1>2 DEF coordPos
<1>8. /\ pos - 2 = firstCopy + (w.copies - 1)
      /\ coordPos - firstCopy = w.copies - 1
      /\ pos - 1 = firstCopy + w.copies
      /\ Began + (w.copies - 1) + 1 = Began + w.copies
      /\ Began + (w.copies - 1) + 2 = Began + w.copies + 1
      /\ pos - 2 + 1 = firstCopy + w.copies /\ pos - 2 + 2 = firstCopy + w.copies + 1
  BY <1>2, <1>7
<1>9. buf[firstCopy + w.copies] = (old.buf[Began + w.copies] + xdir[dir + 1]) % Base
  <2>1. Matches(firstCopy, Began, w.copies) /\ w.copies \in 1..w.copies
    BY <1>2 DEF Counted
  <2>2. buf[firstCopy + w.copies] = old.buf[Began + w.copies]
    BY <2>1 DEF Matches
  <2>3. old.buf[Began + w.copies] \in Byte
    <3>1. Len(old.buf) \in Nat /\ old.buf \in Seq(Byte)
      BY ShapeTypes DEF Bytes
    <3>2. Began + w.copies \in 1..Len(old.buf)
      BY <1>2, <1>3, <3>1
    <3> QED
      BY <3>1, <3>2, ElementOfSeq
  <2> DEFINE b == old.buf[Began + w.copies]
  <2>4. b \in 0..(Base - 1) /\ Base \in Nat \ {0}
    BY <2>3, FileAssumption DEF Byte
  <2>5. b + 0 = b
    BY <2>4
  <2>6. b % Base = b
    BY <2>4, ModSmall
  <2> QED
    BY <1>5, <2>2, <2>5, <2>6
<1>10. \A i \in 1..2 : buf[pos - 2 + i]
         = (old.buf[Began + (w.copies - 1) + i] + Step1(i, dir)) % Base
  <2>1. SUFFICES ASSUME NEW i \in 1..2
                 PROVE  buf[pos - 2 + i]
                          = (old.buf[Began + (w.copies - 1) + i] + Step1(i, dir)) % Base
    OBVIOUS
  <2>2. CASE i = 1
    BY <1>8, <1>9, <2>2 DEF Step1
  <2>3. CASE i = 2
    BY <1>3, <1>6, <1>8, <2>3 DEF Step1, Known
  <2> QED
    BY <2>2, <2>3
<1>11. /\ w.copies - 1 \in Nat /\ w.copies - 1 <= w.copies /\ coordPos \in Int
       /\ firstCopy + (w.copies - 1) + 2 = pos
       /\ Began + (w.copies - 1) + 2 = w.relativepos
  BY <1>2, <1>7
<1> QED
  BY <1>1, <1>3, <1>5, <1>8, <1>10, <1>11 DEF IsStep

\* Whichever it is, it is told from where the bytes begin.
LEMMA StepIs ==
  ASSUME Shape, Counted, InReach, NEW stray, NEW dir, dir = Direction(stray), dir # DIR_NONE
  PROVE  \E k, m \in Nat : IsStep(dir, k, m)
<1>1. w.copies \in Nat /\ 1 \in Nat /\ 2 \in Nat
  BY ShapeTypes
<1>2. CASE /\ w.edits = 2 /\ Edit(2) # Orig(2, stray)
           /\ dir = Moved(Edit(1) - Orig(1, stray), Edit(2) - Orig(2, stray))
  BY <1>1, <1>2, BothStep
<1>3. CASE w.edits = 1 /\ preferX /\ dir = Moved(Edit(1) - Orig(1, stray), 0)
  BY <1>1, <1>3, XStep
<1>4. CASE yAlone /\ dir = Moved(0, Edit(1) - Orig(1, stray))
  <2>1. w.copies - 1 \in Nat
    BY <1>1, <1>4 DEF yAlone
  <2> QED
    BY <1>1, <1>4, <2>1, YStep
<1> QED
  BY <1>2, <1>3, <1>4, StepCases

------------------------------------------------------------------------------
(* Whatever is written, the reader gets to the end of what was counted.     *)

LEMMA ReadsNone ==
  ASSUME NEW q, NEW data
  PROVE  Apply(q, None, data) = q
<1>1. Omitted(None)
  BY Zenon DEF Omitted, None, Command
<1> QED
  BY <1>1, Zenon DEF Apply

\* A copy of nothing is not written, and changes nothing.
LEMMA ReadsCopies ==
  ASSUME Bytes, NEW n \in Nat, NEW d \in Int, NEW co, NEW k \in Nat,
         n + k <= pos, k # 0 => Matches(n, d, k), NEW c, c = Command("copy", k, 0)
  PROVE  Apply(Reader(n, d, co, "reading"), c, Data(c))
              = Reader(n + k, d + k, IF k # 0 THEN n + k ELSE co, "reading")
<1>1. CASE k = 0
  <2>1. Omitted(c)
    BY <1>1, Zenon DEF Omitted, Command
  <2>2. n + k = n /\ d + k = d
    BY <1>1
  <2> QED
    BY <1>1, <2>1, <2>2, Zenon DEF Apply
<1>2. CASE k # 0
  BY <1>2, ReadsCopy
<1> QED
  BY <1>1, <1>2

LastAre(n, e) == n + e = pos

LEMMA ReadsEdits ==
  ASSUME Bytes, NEW n \in Nat, NEW d \in Int, NEW co, NEW e \in Nat,
         LastAre(n, e), NEW c, c = Command("edit", e - 1, 0)
  PROVE  Apply(Reader(n, d, co, "reading"), c, Data(c)) = Reader(pos, d + e, co, "reading")
<1>1. CASE e = 0
  <2>1. c.cmd = "edit" /\ c.arg1 = -1
    <3>1. e - 1 = -1
      BY <1>1
    <3> QED
      BY <3>1, Zenon DEF Command
  <2>2. Omitted(c)
    BY <2>1, Zenon DEF Omitted
  <2>3. n = pos /\ d + e = d
    BY <1>1 DEF LastAre
  <2> QED
    BY <2>2, <2>3, Zenon DEF Apply
<1>2. CASE e # 0
  <2>1. c.cmd = "edit" /\ c.arg1 = e - 1
    BY Zenon DEF Command
  <2>2. e - 1 # -1 /\ (e - 1) + 1 = e /\ n + 0 + e = n + e /\ d + 0 + e = d + e /\ 0 \in Nat
    BY <1>2
  <2>3. DataLength(c) = e
    BY <2>1, <2>2, Zenon DEF DataLength
  <2>4. NewBytes(c, Data(c), d + 0) = Behind(e)
    BY <2>1, <2>3, Zenon DEF NewBytes, Data, Behind
  <2>5. ~Omitted(c) /\ Copied(Reader(n, d, co, "reading"), c) = 0 /\ Edited(c) = e
    BY <2>1, <2>2, <2>3, Zenon DEF Omitted, Copied, Edited
  <2>6. ReachesEnd(n, d, co, c, 0, e)
    BY <2>1, <2>2, <2>4, <2>5, Zenon DEF ReachesEnd, LastAre
  <2> QED
    BY <2>2, <2>6, ReadsToEnd
<1> QED
  BY <1>1, <1>2

\* What is left of a sum.
Sum(n, x, y, k, m, p) ==
  /\ n + x \in Nat /\ 0 <= (n + x) + y
  /\ (n + x) + y = n + k
  /\ (n + x) + y + m = p

LEMMA Sums ==
  ASSUME NEW n \in Nat, NEW x \in Nat, NEW y \in Nat, NEW k \in Nat, NEW m \in Nat,
         NEW p, x + y = k, n + k + m = p
  PROVE  Sum(n, x, y, k, m, p)
  BY DEF Sum

\* What is to be copied is copied in two parts.
Split(x, y, k) == x + y = k

\* A step, behind a copy of the first x bytes.
LEMMA ReadsStep ==
  ASSUME Shape, Counted, NEW dir, NEW k \in Nat, NEW m \in Nat, IsStep(dir, k, m),
         NEW x \in Nat, NEW y \in Nat, Split(x, y, k), NEW a \in Nat, NEW co \in Int,
         Jumps(y, a, co, firstCopy + x),
         NEW c, c = Command("coord", a, dir)
  PROVE  Apply(Reader(firstCopy + x, Began + x, co, "reading"), c, Data(c))
           = Reader(pos, w.relativepos, co, "reading")
<1>1. /\ dir \in Dirs /\ m = (IF OneByte(dir) THEN 1 ELSE 2)
      /\ k <= w.copies
      /\ firstCopy + k + m = pos
      /\ Began + k + m = w.relativepos /\ Began + k + m <= Len(old.buf)
      /\ \A i \in 1..m : buf[pos - m + i] = (old.buf[Began + k + i] + Step1(i, dir)) % Base
  BY DEF IsStep
<1>2. Bytes /\ Len(old.buf) \in Nat /\ w.copies \in Nat
  BY ShapeTypes
<1>3. firstCopy \in Nat /\ Began \in Nat
  BY CountedNumbers
<1>4. y # 0 => Matches(firstCopy + x, Began + x, y)
  <2>1. x + y <= w.copies
    BY <1>1, <1>2 DEF Split
  <2>2. w.copies # 0 => Matches(firstCopy, Began, w.copies)
    BY DEF Counted
  <2> QED
    BY <1>2, <1>3, <2>1, <2>2, MatchesPart
<1>5. Sum(firstCopy, x, y, k, m, pos) /\ Sum(Began, x, y, k, m, w.relativepos)
  BY <1>1, <1>3, Sums DEF Split
<1> DEFINE n == firstCopy + x
           d == Began + x
<1>6. n \in Nat /\ d \in Int /\ n + y + m = pos /\ d + y + m = w.relativepos
      /\ 0 <= d + y /\ d + y = Began + k
  BY <1>3, <1>5 DEF Sum
<1>7. (y # 0 => Matches(n, d, y)) /\ Jumps(y, a, co, n)
  BY <1>4
<1> HIDE DEF n, d
<1>8. StepAt(n, d, y, m, dir)
  BY <1>1, <1>6, <1>7 DEF StepAt
<1>9. Apply(Reader(n, d, co, "reading"), c, Data(c)) = Reader(pos, d + y + m, co, "reading")
  BY <1>2, <1>6, <1>7, <1>8, ReadsCoord
<1> QED
  BY <1>6, <1>9 DEF n, d

\* The reader after the two commands of an encoding.
Twice(e) == Apply(Apply(r, e.c0, Data(e.c0)), e.c1, Data(e.c1))

NewCoord(e) ==
  IF e.c0.cmd = "copy" /\ e.c0.arg1 # 0 THEN firstCopy + e.c0.arg1 ELSE w.coord

ReadsAll(e) ==
  Twice(e) = Reader(pos, w.relativepos, NewCoord(e),
                    IF e.c0.cmd = "eof_crc32" THEN "ended" ELSE "reading")

\* One command that says everything.
LEMMA OneSays ==
  ASSUME NEW e, e.c1 = None, NEW s, NEW c, e.c0 = c, c.cmd # "copy",
         s = (IF c.cmd = "eof_crc32" THEN "ended" ELSE "reading"),
         Apply(r, c, Data(c)) = Reader(pos, w.relativepos, w.coord, s)
  PROVE  ReadsAll(e)
  BY ReadsNone, Zenon DEF ReadsAll, Twice, NewCoord

\* A copy, and then another that says the rest.
LEMMA TwoSay ==
  ASSUME NEW e, NEW c, NEW x \in Nat, e.c0 = Command("copy", x, 0), e.c1 = c,
         NEW q, Apply(r, e.c0, Data(e.c0)) = q,
         Apply(q, c, Data(c))
           = Reader(pos, w.relativepos, IF x # 0 THEN firstCopy + x ELSE w.coord, "reading")
  PROVE  ReadsAll(e)
<1>1. Command("copy", x, 0).cmd = "copy" /\ Command("copy", x, 0).arg1 = x
  BY DEF Command
<1> QED
  BY <1>1, Zenon DEF ReadsAll, Twice, NewCoord

\* What all encodings start from.
LEMMA AtFlush ==
  ASSUME Shape, Counted, w.seeks = 0
  PROVE  /\ r = Reader(firstCopy, Began, w.coord, "reading")
         /\ Bytes /\ w.coord \in Nat /\ w.copies \in Nat /\ w.edits \in Nat
         /\ firstCopy \in Nat /\ Began \in Nat /\ pos \in Nat
         /\ firstCopy + w.copies + w.edits = pos
         /\ firstCopy + w.copies <= pos
         /\ Began + w.copies + w.edits = w.relativepos
         /\ w.copies # 0 => Matches(firstCopy, Began, w.copies)
<1>1. /\ Bytes /\ w.coord \in Nat /\ w.copies \in Nat /\ w.edits \in Nat /\ pos \in Nat
  BY ShapeTypes
<1>2. /\ firstCopy \in Nat /\ Began \in Nat
      /\ firstCopy + w.copies + w.edits = pos
      /\ Began + w.copies + w.edits = w.relativepos
  BY CountedNumbers
<1>3. Began + w.seeks = Began /\ firstCopy + w.copies <= pos
  BY <1>1, <1>2
<1> QED
  BY <1>1, <1>2, <1>3 DEF Counted

LEMMA SaysCopyEdit ==
  ASSUME Shape, Counted, w.seeks = 0, NEW e, e.c1 = None, NEW c, e.c0 = c,
         c = Command("copyedit", w.copies, w.edits - 1)
         \/ (c = Command("copyedit1", w.copies, 0) /\ w.edits = 1)
  PROVE  ReadsAll(e)
<1>1. c.cmd # "copy" /\ c.cmd # "eof_crc32"
  BY DEF Command
<1>2. Apply(r, c, Data(c)) = Reader(pos, w.relativepos, w.coord, "reading")
  <2> DEFINE n == firstCopy
             d == Began
             k == w.copies
             g == w.edits
  <2>1. /\ r = Reader(n, d, w.coord, "reading")
        /\ Bytes /\ w.coord \in Nat /\ k \in Nat /\ g \in Nat
        /\ n \in Nat /\ d \in Int /\ Parts(n, d, k, g) /\ d + k + g = w.relativepos
        /\ c = Command("copyedit", k, g - 1) \/ (c = Command("copyedit1", k, 0) /\ g = 1)
    BY AtFlush DEF Parts
  <2> HIDE DEF n, d, k, g
  <2>2. Apply(Reader(n, d, w.coord, "reading"), c, Data(c))
          = Reader(pos, d + k + g, w.coord, "reading")
    BY <2>1, ReadsCopyEdit
  <2> QED
    BY <2>1, <2>2
<1> QED
  BY <1>1, <1>2, OneSays

LEMMA SaysEof ==
  ASSUME Shape, Counted, w.seeks = 0, NEW e, e.c1 = None, NEW c, e.c0 = c,
         c = Command("eof_crc32", w.copies, Crc(buf)), w.edits = 0
  PROVE  ReadsAll(e)
<1>1. c.cmd = "eof_crc32"
  BY DEF Command
<1>2. firstCopy + w.copies = pos /\ Began + w.copies = w.relativepos
  BY AtFlush
<1>3. Apply(r, c, Data(c)) = Reader(pos, w.relativepos, w.coord, "ended")
  BY <1>2, AtFlush, ReadsEof
<1> QED
  BY <1>1, <1>3, OneSays

LEMMA SaysErase ==
  ASSUME Shape, Counted, w.seeks = 0, NEW e, e.c1 = None, NEW c, e.c0 = c,
         c = Command("erase", w.copies, w.edits - 3), OnlyZero
  PROVE  ReadsAll(e)
<1>1. c.cmd # "copy" /\ c.cmd # "eof_crc32"
  BY DEF Command
<1>2. Apply(r, c, Data(c)) = Reader(pos, w.relativepos, w.coord, "reading")
  <2> DEFINE n == firstCopy
             d == Began
             k == w.copies
             g == w.edits
  <2>1. /\ r = Reader(n, d, w.coord, "reading")
        /\ Bytes /\ w.coord \in Nat /\ k \in Nat /\ g \in Nat
        /\ n \in Nat /\ d \in Int /\ Parts(n, d, k, g) /\ d + k + g = w.relativepos
        /\ c = Command("erase", k, g - 3)
    BY AtFlush DEF Parts
  <2>2. \A i \in 1..g : buf[pos - g + i] = 0
    BY DEF OnlyZero, Edit
  <2> HIDE DEF n, d, k, g
  <2>3. Apply(Reader(n, d, w.coord, "reading"), c, Data(c))
          = Reader(pos, d + k + g, w.coord, "reading")
    BY <2>1, <2>2, ReadsErase
  <2> QED
    BY <2>1, <2>3
<1> QED
  BY <1>1, <1>2, OneSays

LEMMA SaysIncrement ==
  ASSUME Shape, Counted, InReach, w.seeks = 0, NEW e, e.c1 = None, NEW c, e.c0 = c,
         c = Command("increment", w.copies, 0), w.edits = 1, NEW stray,
         (Edit(1) - Orig(1, stray)) % Base = 1 % Base
  PROVE  ReadsAll(e)
<1>1. c.cmd # "copy" /\ c.cmd # "eof_crc32"
  BY DEF Command
<1> DEFINE n == firstCopy
           d == Began
           k == w.copies
<1>2. /\ r = Reader(n, d, w.coord, "reading")
      /\ Bytes /\ w.coord \in Nat /\ k \in Nat /\ pos \in Nat
      /\ n \in Nat /\ d \in Int /\ Parts(n, d, k, 1) /\ d + k + 1 = w.relativepos
      /\ 0 <= d + k
  BY AtFlush DEF Parts
<1>3. w.relativepos <= Len(old.buf) /\ Known(1, stray)
  <2>1. w.edits \in {1, 2} /\ 1 \in 1..w.edits
    OBVIOUS
  <2> QED
    BY <2>1, Compared
<1>4. (Orig(1, stray) + 1) % Base = Edit(1)
  <2> DEFINE x == Edit(1)
             y == Orig(1, stray)
  <2>1. x \in Byte /\ y \in Byte /\ x \in Int /\ y \in Int /\ Base \in Nat \ {0, 1}
    BY <1>3, FileAssumption DEF Known, Byte
  <2>2. 1 % Base = 1
    <3>1. 1 \in 0..(Base - 1) /\ Base \in Nat \ {0}
      BY <2>1
    <3> QED
      BY <3>1, ModSmall
  <2>3. (x - y) % Base = 1
    BY <2>2
  <2> HIDE DEF x, y
  <2>4. ((x - y) - 1) % Base = 0
    <3> DEFINE z == x - y
               q == z \div Base
    <3>1. z \in Int /\ q \in Int /\ z = Base * q + 1
      BY <2>1, <2>3, DivMod
    <3> HIDE DEF z, q
    <3>2. z - 1 = Base * q + 0 /\ 0 \in 0..(Base - 1) /\ z - 1 \in Int
      BY <2>1, <3>1
    <3>3. (z - 1) % Base = 0
      BY <2>1, <3>1, <3>2, Rest
    <3> QED
      BY <3>3 DEF z
  <2>5. (y + 1) % Base = x
    BY <2>1, <2>4, Changed
  <2> QED
    BY <2>5 DEF x, y
<1>5. buf[pos] = (old.buf[d + k + 1] + 1) % Base
  <2>1. n + k + 1 = pos
    BY <1>2 DEF Parts
  <2>2. Edit(1) = buf[n + k + 1] /\ Orig(1, stray) = old.buf[d + k + 1]
    BY <1>3 DEF Known
  <2> QED
    BY <1>4, <2>1, <2>2
<1>6. d + k + 1 <= Len(old.buf) /\ c = Command("increment", k, 0)
  BY <1>2, <1>3
<1> HIDE DEF n, d, k
<1>7. Apply(Reader(n, d, w.coord, "reading"), c, Data(c))
        = Reader(pos, d + k + 1, w.coord, "reading")
  BY <1>2, <1>5, <1>6, ReadsIncrement
<1>8. Apply(r, c, Data(c)) = Reader(pos, w.relativepos, w.coord, "reading")
  BY <1>2, <1>7
<1> QED
  BY <1>1, <1>8, OneSays

LEMMA SaysCopyThenEdit ==
  ASSUME Shape, Counted, w.seeks = 0, NEW e,
         IsPair(e, Command("copy", w.copies, 0), Command("edit", w.edits - 1, 0))
  PROVE  ReadsAll(e)
<1> DEFINE n == firstCopy
           d == Began
           k == w.copies
           g == w.edits
           co == IF k # 0 THEN n + k ELSE w.coord
           c == Command("edit", g - 1, 0)
<1>1. /\ r = Reader(n, d, w.coord, "reading")
      /\ Bytes /\ k \in Nat /\ g \in Nat
      /\ n \in Nat /\ d \in Int /\ n + k <= pos /\ (k # 0 => Matches(n, d, k))
      /\ (n + k) + g = pos /\ (d + k) + g = w.relativepos
      /\ n + k \in Nat /\ d + k \in Int
  BY AtFlush
<1>2. e.c0 = Command("copy", k, 0) /\ e.c1 = c
  BY DEF IsPair
<1>3. Apply(r, e.c0, Data(e.c0)) = Reader(n + k, d + k, co, "reading")
  BY <1>1, <1>2, ReadsCopies
<1>4. Apply(Reader(n + k, d + k, co, "reading"), c, Data(c))
        = Reader(pos, w.relativepos, co, "reading")
  <2> DEFINE n2 == n + k
             d2 == d + k
  <2>1. /\ n2 \in Nat /\ d2 \in Int /\ LastAre(n2, g) /\ d2 + g = w.relativepos
        /\ Bytes /\ g \in Nat /\ c = Command("edit", g - 1, 0)
    BY <1>1 DEF LastAre
  <2> HIDE DEF n2, d2, co, c, g
  <2>2. Apply(Reader(n2, d2, co, "reading"), c, Data(c)) = Reader(pos, d2 + g, co, "reading")
    BY <2>1, ReadsEdits
  <2> QED
    BY <2>1, <2>2 DEF n2, d2
<1> QED
  BY <1>1, <1>2, <1>3, <1>4, TwoSay

\* How far it is to the coordinates, in monsters and what is left.
LEMMA HowFar ==
  ASSUME NEW dir, NEW k \in Nat, NEW m, IsStep(dir, k, m)
  PROVE  /\ Large \in Nat /\ Small \in Nat /\ Small < SAVE_SIZE_MONST
         /\ k = Large * SAVE_SIZE_MONST + Small
<1>1. k = coordPos - firstCopy
  BY DEF IsStep
<1>2. SAVE_SIZE_MONST \in Nat \ {0} /\ k \in Int
  BY FileAssumption
<1>3. Large = k \div SAVE_SIZE_MONST /\ Small = k % SAVE_SIZE_MONST
  BY <1>1, Zenon DEF Large, Small
<1>4. Large \in Nat
  BY <1>2, <1>3, DivNat
<1>5. Small \in 0..(SAVE_SIZE_MONST - 1) /\ k = SAVE_SIZE_MONST * Large + Small
  BY <1>2, <1>3, DivMod
<1>6. SAVE_SIZE_MONST * Large = Large * SAVE_SIZE_MONST
  BY <1>2, <1>4
<1> QED
  BY <1>2, <1>4, <1>5, <1>6

\* The coordinates are where they are expected.
LEMMA SaysCoord ==
  ASSUME Shape, Counted, w.seeks = 0, NEW e, e.c1 = None, NEW c, e.c0 = c,
         NEW dir, NEW k \in Nat, NEW m \in Nat, IsStep(dir, k, m),
         c = Command("coord", Large, dir), (coordPos - w.coord) % SAVE_SIZE_MONST = 0
  PROVE  ReadsAll(e)
<1>1. c.cmd # "copy" /\ c.cmd # "eof_crc32"
  BY DEF Command
<1>2. /\ r = Reader(firstCopy, Began, w.coord, "reading")
      /\ w.coord \in Nat /\ w.coord \in Int /\ firstCopy \in Nat /\ Began \in Nat
      /\ firstCopy + 0 = firstCopy /\ Began + 0 = Began /\ 0 + k = k /\ 0 \in Nat
  BY AtFlush
<1>3. Large \in Nat /\ k = Large * SAVE_SIZE_MONST + Small
  BY HowFar
<1>4. Small = (w.coord - firstCopy) % SAVE_SIZE_MONST
  <2>1. coordPos \in Int /\ SAVE_SIZE_MONST \in Nat \ {0}
    BY FileAssumption DEF IsStep
  <2> DEFINE a == coordPos - firstCopy
             b == w.coord - firstCopy
  <2>2. a \in Int /\ b \in Int /\ a - b = coordPos - w.coord
    BY <1>2, <2>1
  <2>3. (a - b) % SAVE_SIZE_MONST = 0
    BY <2>2
  <2>4. Small = a % SAVE_SIZE_MONST
    BY DEF Small
  <2> HIDE DEF a, b
  <2>5. a % SAVE_SIZE_MONST = b % SAVE_SIZE_MONST
    BY <2>1, <2>2, <2>3, ModEqual
  <2> QED
    BY <2>4, <2>5 DEF b
<1>5. Jumps(k, Large, w.coord, firstCopy + 0)
  BY <1>2, <1>3, <1>4 DEF Jumps
<1>6. Apply(Reader(firstCopy + 0, Began + 0, w.coord, "reading"), c, Data(c))
        = Reader(pos, w.relativepos, w.coord, "reading")
  <2>1. 0 \in Nat /\ w.coord \in Int /\ Large \in Nat /\ Split(0, k, k)
    BY <1>2, <1>3 DEF Split
  <2> QED
    BY <1>5, <2>1, ReadsStep
<1>7. Apply(r, c, Data(c)) = Reader(pos, w.relativepos, w.coord, "reading")
  BY <1>2, <1>6
<1> QED
  BY <1>1, <1>7, OneSays

Multiple(y, a) == y = a * SAVE_SIZE_MONST

\* They are brought there by a copy.
LEMMA SaysCopyCoord ==
  ASSUME Shape, Counted, w.seeks = 0, NEW e, NEW x \in Nat, x # 0, NEW c,
         e.c0 = Command("copy", x, 0), e.c1 = c,
         NEW dir, NEW k \in Nat, NEW m \in Nat, IsStep(dir, k, m),
         NEW a \in Nat, NEW y \in Nat, Split(x, y, k), Multiple(y, a),
         c = Command("coord", a, dir)
  PROVE  ReadsAll(e)
<1> DEFINE n == firstCopy
           d == Began
           co == n + x
<1>1. /\ r = Reader(n, d, w.coord, "reading")
      /\ Bytes /\ w.copies \in Nat /\ Len(old.buf) \in Nat
      /\ n \in Nat /\ d \in Nat /\ d \in Int /\ n + w.copies <= pos /\ pos \in Nat
      /\ w.copies # 0 => Matches(n, d, w.copies)
  BY AtFlush, ShapeTypes
<1>2. x + y <= w.copies /\ x <= w.copies
  <2>1. k <= w.copies
    BY DEF IsStep
  <2> QED
    BY <1>1, <2>1 DEF Split
<1>3. x # 0 => Matches(n, d, x)
  BY <1>1, <1>2, MatchesPart
<1>4. n + x <= pos /\ co \in Int
  BY <1>1, <1>2
<1>5. Apply(r, e.c0, Data(e.c0)) = Reader(n + x, d + x, co, "reading")
  BY <1>1, <1>3, <1>4, ReadsCopies
<1>6. Jumps(y, a, co, n + x)
  <2>1. SAVE_SIZE_MONST \in Nat \ {0} /\ co - (n + x) = 0 /\ 0 \in 0..(SAVE_SIZE_MONST - 1)
    BY <1>4, FileAssumption
  <2>2. 0 % SAVE_SIZE_MONST = 0
    BY <2>1, ModSmall
  <2>3. a * SAVE_SIZE_MONST + 0 = a * SAVE_SIZE_MONST
    BY <2>1
  <2> QED
    BY <2>1, <2>2, <2>3 DEF Jumps, Multiple
<1>7. Apply(Reader(n + x, d + x, co, "reading"), c, Data(c))
        = Reader(pos, w.relativepos, co, "reading")
  <2> HIDE DEF co
  <2> QED
    BY <1>4, <1>6, ReadsStep
<1> QED
  BY <1>5, <1>7, TwoSay

\* Whatever mdiffflush takes for copies and edits, the reader makes the same of
\* it.
LEMMA EncodingReads ==
  ASSUME Shape, Counted, InReach, w.seeks = 0, NEW stray, NEW eof,
         NEW e \in Encodings(eof, Direction(stray))
  PROVE  ReadsAll(e)
<1> DEFINE dir == Direction(stray)
<1>1. ASSUME dir # DIR_NONE
      PROVE  \E k, m \in Nat : IsStep(dir, k, m)
  <2> HIDE DEF dir
  <2>1. dir = Direction(stray)
    BY DEF dir
  <2> QED
    BY <1>1, <2>1, StepIs
<1>2. CASE w.edits \in 1..4 /\ IsPair(e, Command("copyedit", w.copies, w.edits - 1), None)
  BY <1>2, SaysCopyEdit DEF IsPair
<1>3. CASE IsPair(e, Command("copy", w.copies, 0), Command("edit", w.edits - 1, 0))
  BY <1>3, SaysCopyThenEdit
<1>4. CASE eof /\ w.edits = 0 /\ IsPair(e, Command("eof_crc32", w.copies, Crc(buf)), None)
  BY <1>4, SaysEof DEF IsPair
<1>5. CASE OnlyZero /\ IsPair(e, Command("erase", w.copies, w.edits - 3), None)
  BY <1>5, SaysErase DEF IsPair
<1>6. CASE /\ dir # DIR_NONE /\ (coordPos - w.coord) % SAVE_SIZE_MONST = 0
           /\ IsPair(e, Command("coord", Large, dir), None)
  <2>1. PICK k \in Nat, m \in Nat : IsStep(dir, k, m)
    BY <1>1, <1>6
  <2> HIDE DEF dir
  <2> QED
    BY <1>6, <2>1, SaysCoord DEF IsPair
<1>7. CASE /\ dir # DIR_NONE /\ Small # 0
           /\ IsPair(e, Command("copy", Small, 0), Command("coord", Large, dir))
  <2>1. PICK k \in Nat, m \in Nat : IsStep(dir, k, m)
    BY <1>1, <1>7
  <2>2. Large \in Nat /\ Small \in Nat /\ k = Large * SAVE_SIZE_MONST + Small
    BY <2>1, HowFar
  <2> DEFINE y == Large * SAVE_SIZE_MONST
  <2>3. y \in Nat /\ Multiple(y, Large) /\ Split(Small, y, k)
    BY <2>2, FileAssumption DEF Multiple, Split
  <2> HIDE DEF dir, y
  <2> QED
    BY <1>7, <2>1, <2>2, <2>3, SaysCopyCoord DEF IsPair
<1>8. CASE /\ dir # DIR_NONE /\ Large > 0
           /\ IsPair(e, Command("copy", SAVE_SIZE_MONST + Small, 0),
                     Command("coord", Large - 1, dir))
  <2>1. PICK k \in Nat, m \in Nat : IsStep(dir, k, m)
    BY <1>1, <1>8
  <2>2. Large \in Nat /\ Small \in Nat /\ k = Large * SAVE_SIZE_MONST + Small
    BY <2>1, HowFar
  <2> DEFINE a == Large - 1
             y == a * SAVE_SIZE_MONST
             x == SAVE_SIZE_MONST + Small
  <2>3. /\ a \in Nat /\ x \in Nat /\ x # 0 /\ Multiple(y, a)
        /\ y \in Nat /\ Split(x, y, k)
    BY <1>8, <2>2, FileAssumption DEF Multiple, Split
  <2>4. IsPair(e, Command("copy", x, 0), Command("coord", a, dir))
    BY <1>8
  <2> HIDE DEF dir, a, y, x
  <2> QED
    BY <2>1, <2>3, <2>4, SaysCopyCoord DEF IsPair
<1>9. CASE w.edits = 1 /\ IsPair(e, Command("copyedit1", w.copies, 0), None)
  BY <1>9, SaysCopyEdit DEF IsPair
<1> QED
  BY <1>2, <1>3, <1>4, <1>5, <1>6, <1>7, <1>8, <1>9, EncodingCases, Zenon

------------------------------------------------------------------------------
(* A whole flush.                                                           *)

\* Only at the end is the end written.
LEMMA NoEarlyEnd ==
  ASSUME NEW stray, NEW e \in Offered(FALSE, stray)
  PROVE  e.c0.cmd # "eof_crc32"
<1>1. CASE e = Skip \/ e = Incremented
  BY <1>1 DEF Skip, Incremented, Command
<1>2. CASE e \in Encodings(FALSE, Direction(stray))
  <2> DEFINE dir == Direction(stray)
  <2>1. e \in Encodings(FALSE, dir)
    BY <1>2
  <2> HIDE DEF dir
  <2>2. \/ \E a, b : e.c0 = Command("copyedit", a, b)
        \/ \E a, b : e.c0 = Command("copy", a, b)
        \/ \E a, b : e.c0 = Command("erase", a, b)
        \/ \E a, b : e.c0 = Command("coord", a, b)
        \/ \E a, b : e.c0 = Command("copyedit1", a, b)
    BY <2>1, EncodingCases, Zenon DEF IsPair
  <2>3. ASSUME NEW a, NEW b,
               \/ e.c0 = Command("copyedit", a, b) \/ e.c0 = Command("copy", a, b)
               \/ e.c0 = Command("erase", a, b) \/ e.c0 = Command("coord", a, b)
               \/ e.c0 = Command("copyedit1", a, b)
        PROVE  e.c0.cmd # "eof_crc32"
    BY <2>3 DEF Command
  <2> QED
    BY <2>2, <2>3, Zenon
<1> QED
  BY <1>1, <1>2 DEF Offered

\* Coordinates are counted from a place in the file.
LEMMA NewCoordIs ==
  ASSUME Shape, Counted, NEW stray, NEW eof, NEW e \in Offered(eof, stray)
  PROVE  NewCoord(e) \in Nat
<1>1. /\ w.coord \in Nat /\ w.copies \in Nat /\ w.edits \in Nat /\ pos \in Nat
      /\ firstCopy \in Nat
  BY ShapeTypes, CountedNumbers
<1>2. ASSUME e.c0.cmd # "copy" PROVE NewCoord(e) \in Nat
  BY <1>1, <1>2 DEF NewCoord
<1>3. ASSUME NEW x \in Nat, e.c0 = Command("copy", x, 0) PROVE NewCoord(e) \in Nat
  <2>1. e.c0.arg1 = x
    BY <1>3 DEF Command
  <2> QED
    BY <1>1, <2>1 DEF NewCoord
<1>4. CASE e = Skip \/ e = Incremented
  <2>1. e.c0.cmd # "copy"
    BY <1>4 DEF Skip, Incremented, Command
  <2> QED
    BY <1>2, <2>1
<1>5. CASE e \in Encodings(eof, Direction(stray))
  <2> DEFINE dir == Direction(stray)
  <2>1. e \in Encodings(eof, dir)
    BY <1>5
  <2> HIDE DEF dir
  <2>2. \/ \E a, b : e.c0 = Command("copyedit", a, b)
        \/ \E a, b : e.c0 = Command("erase", a, b)
        \/ \E a, b : e.c0 = Command("coord", a, b)
        \/ \E a, b : e.c0 = Command("copyedit1", a, b)
        \/ \E a, b : e.c0 = Command("eof_crc32", a, b)
        \/ e.c0 = Command("copy", w.copies, 0)
        \/ e.c0 = Command("copy", Small, 0)
        \/ e.c0 = Command("copy", SAVE_SIZE_MONST + Small, 0)
    BY <2>1, EncodingCases, Zenon DEF IsPair
  <2>3. SAVE_SIZE_MONST \in Nat \ {0} /\ coordPos - firstCopy \in Int
    BY <1>1, FileAssumption DEF coordPos
  <2>4. Small \in Nat
    <3> DEFINE n == coordPos - firstCopy
    <3>1. n \in Int /\ Small = n % SAVE_SIZE_MONST
      BY <2>3 DEF Small
    <3> HIDE DEF n
    <3>2. n % SAVE_SIZE_MONST \in 0..(SAVE_SIZE_MONST - 1)
      BY <2>3, <3>1, DivMod
    <3> QED
      BY <2>3, <3>1, <3>2
  <2>5. SAVE_SIZE_MONST + Small \in Nat
    BY <2>3, <2>4
  <2>6. ASSUME NEW a, NEW b,
               \/ e.c0 = Command("copyedit", a, b) \/ e.c0 = Command("erase", a, b)
               \/ e.c0 = Command("coord", a, b) \/ e.c0 = Command("copyedit1", a, b)
               \/ e.c0 = Command("eof_crc32", a, b)
        PROVE  e.c0.cmd # "copy"
    BY <2>6 DEF Command
  <2> QED
    BY <1>1, <1>2, <1>3, <2>2, <2>4, <2>5, <2>6, Zenon
<1> QED
  BY <1>4, <1>5 DEF Offered

\* A skip is read as a skip.
LEMMA SaysSkip ==
  ASSUME Shape, Counted, w.seeks # 0
  PROVE  ReadsAll(Skip)
<1>1. /\ Bytes /\ w.copies = 0 /\ w.edits = 0 /\ w.seeks \in Int
      /\ pos \in Nat /\ w.relativepos \in Nat
  BY ShapeTypes DEF Shape
<1>2. firstCopy = pos /\ Began = w.relativepos
  BY <1>1 DEF firstCopy, Began
<1> DEFINE d == w.relativepos + w.seeks
           c == Command("seek", w.seeks, 0)
<1>3. r = Reader(pos, d, w.coord, "reading")
  BY <1>2 DEF Counted
<1>4. d \in Int /\ d - w.seeks = w.relativepos
  BY <1>1
<1>5. Skip.c0 = c /\ Skip.c1 = None
  BY DEF Skip
<1>6. c.cmd # "copy" /\ c.cmd # "eof_crc32"
  BY DEF Command
<1>7. c = Command("seek", w.seeks, 0)
  OBVIOUS
<1> HIDE DEF c, d
<1>8. Apply(Reader(pos, d, w.coord, "reading"), c, Data(c))
        = Reader(pos, d - w.seeks, w.coord, "reading")
  BY <1>1, <1>4, <1>7, ReadsSeek
<1>9. Apply(r, c, Data(c)) = Reader(pos, w.relativepos, w.coord, "reading")
  BY <1>3, <1>4, <1>8
<1> QED
  BY <1>5, <1>6, <1>9, OneSays

LEMMA OfferedReads ==
  ASSUME Shape, Counted, InReach, NEW stray, NEW eof, NEW e \in Offered(eof, stray)
  PROVE  ReadsAll(e)
<1>1. CASE w.seeks # 0
  <2>1. e = Skip
    BY <1>1 DEF Offered
  <2> QED
    BY <1>1, <2>1, SaysSkip
<1>2. CASE w.seeks = 0 /\ e \in Encodings(eof, Direction(stray))
  BY <1>2, EncodingReads
<1>3. CASE /\ w.seeks = 0 /\ e = Incremented
           /\ w.edits = 1 /\ (Edit(1) - Orig(1, stray)) % Base = 1 % Base
  <2> DEFINE c == Command("increment", w.copies, 0)
  <2>1. e.c0 = c /\ e.c1 = None /\ c = Command("increment", w.copies, 0)
    BY <1>3 DEF Incremented
  <2> HIDE DEF c
  <2> QED
    BY <1>3, <2>1, SaysIncrement
<1> QED
  BY <1>1, <1>2, <1>3, Zenon DEF Offered

\* And at the end of the file the checksum follows, unless it was part of the
\* encoding.
LEMMA FlushReads ==
  ASSUME Shape, Counted, InReach, NEW stray, NEW eof \in BOOLEAN,
         NEW e \in Offered(eof, stray)
  PROVE  Received(Commands(e, eof))
           = Reader(pos, w.relativepos, NewCoord(e), IF eof THEN "ended" ELSE "reading")
<1> DEFINE d == w.relativepos
           co == NewCoord(e)
           c == Commands(e, eof)[3]
<1>1. Received(Commands(e, eof)) = Apply(Twice(e), c, Data(c))
  BY DEF Received, Commands, Twice
<1>2. Twice(e) = Reader(pos, d, co, IF e.c0.cmd = "eof_crc32" THEN "ended" ELSE "reading")
  BY OfferedReads DEF ReadsAll
<1>3. c = IF eof /\ e.c0.cmd # "eof_crc32" THEN Command("eof_crc32", 0, Crc(buf)) ELSE None
  BY DEF Commands
<1>4. ~eof => e.c0.cmd # "eof_crc32"
  BY NoEarlyEnd
<1>5. Bytes /\ pos \in Nat /\ d \in Nat
  BY ShapeTypes
<1> HIDE DEF c, co, d
<1>6. CASE eof /\ e.c0.cmd # "eof_crc32"
  <2>1. c = Command("eof_crc32", 0, Crc(buf))
    BY <1>3, <1>6
  <2>2. pos + 0 = pos /\ d + 0 = d /\ 0 \in Nat
    BY <1>5
  <2>3. Apply(Reader(pos, d, co, "reading"), c, Data(c)) = Reader(pos, d + 0, co, "ended")
    BY <1>5, <2>1, <2>2, ReadsEof
  <2> QED
    BY <1>1, <1>2, <1>6, <2>2, <2>3 DEF d, co
<1>7. CASE ~(eof /\ e.c0.cmd # "eof_crc32")
  <2>1. c = None
    BY <1>3, <1>7
  <2>2. Apply(Twice(e), c, Data(c)) = Twice(e)
    BY <2>1, ReadsNone
  <2>3. (e.c0.cmd = "eof_crc32") <=> eof
    BY <1>4, <1>7
  <2> QED
    BY <1>1, <1>2, <2>2, <2>3 DEF d, co
<1> QED
  BY <1>6, <1>7

\* What the writer knows after a flush.
LEMMA FlushedIs ==
  ASSUME Shape, NEW e, NewCoord(e) \in Nat, NEW v, v = Flushed(e)
  PROVE  /\ v \in Writer
         /\ v.copies = 0 /\ v.edits = 0 /\ v.seeks = 0
         /\ v.relativepos = w.relativepos /\ v.coord = NewCoord(e)
         /\ v.flushed = w.flushed
<1>1. w \in Writer
  BY DEF Shape
<1> DEFINE v1 == [w EXCEPT !.copies = 0]
           v2 == [v1 EXCEPT !.edits = 0]
           v3 == [v2 EXCEPT !.seeks = 0]
           c  == IF e.c0.cmd = "copy" /\ e.c0.arg1 # 0 THEN firstCopy + e.c0.arg1
                 ELSE v3.coord
<1>2. v = [v3 EXCEPT !.coord = c]
  BY Zenon DEF Flushed
<1>3. /\ v1 \in Writer /\ v1.copies = 0 /\ v1.relativepos = w.relativepos
      /\ v1.coord = w.coord /\ v1.flushed = w.flushed
  BY <1>1 DEF Writer
<1> HIDE DEF v1
<1>4. /\ v2 \in Writer /\ v2.copies = 0 /\ v2.edits = 0
      /\ v2.relativepos = w.relativepos /\ v2.coord = w.coord /\ v2.flushed = w.flushed
  BY <1>3 DEF Writer
<1> HIDE DEF v2
<1>5. /\ v3 \in Writer /\ v3.copies = 0 /\ v3.edits = 0 /\ v3.seeks = 0
      /\ v3.relativepos = w.relativepos /\ v3.coord = w.coord /\ v3.flushed = w.flushed
  BY <1>4 DEF Writer
<1> HIDE DEF v3
<1>6. c = NewCoord(e)
  BY <1>5 DEF NewCoord
<1> HIDE DEF c
<1> QED
  BY <1>2, <1>5, <1>6 DEF Writer

------------------------------------------------------------------------------
(* The steps.                                                               *)

\* A writer with nothing to skip, and a reader that is in step with it.
Ready(v, q, n, d) ==
  /\ v \in Writer /\ ~v.flushed /\ v.seeks = 0 /\ v.relativepos = w.relativepos
  /\ n \in Nat /\ d \in Nat
  /\ n + v.copies + v.edits = pos
  /\ d + v.copies + v.edits = v.relativepos
  /\ v.copies # 0 => Matches(n, d, v.copies)
  /\ q = Reader(n, d, v.coord, "reading")

\* What the reader has does not change when a byte is written.
LEMMA BeginningStays ==
  ASSUME Bytes, NEW b \in Byte, buf' = Append(buf, b), NEW n \in Nat, n <= pos
  PROVE  SubSeq(buf', 1, n) = SubSeq(buf, 1, n)
<1>1. pos \in Nat /\ pos = Len(buf) /\ buf \in Seq(Byte)
  BY LenProperties DEF Bytes, pos
<1>2. /\ buf' \in Seq(Byte) /\ Len(buf') = pos + 1
      /\ \A i \in 1..pos : buf'[i] = buf[i]
  BY <1>1
<1>3. /\ SubSeq(buf, 1, n) \in Seq(Byte) /\ Len(SubSeq(buf, 1, n)) = n - 1 + 1
      /\ \A i \in 1..(n - 1 + 1) : SubSeq(buf, 1, n)[i] = buf[1 + i - 1]
  <2>1. 1 \in 1..(Len(buf) + 1) /\ n \in (1 - 1)..Len(buf)
    BY <1>1
  <2> QED
    BY <1>1, <2>1, PartIsSeq
<1>4. /\ SubSeq(buf', 1, n) \in Seq(Byte) /\ Len(SubSeq(buf', 1, n)) = n - 1 + 1
      /\ \A i \in 1..(n - 1 + 1) : SubSeq(buf', 1, n)[i] = buf'[1 + i - 1]
  <2>1. 1 \in 1..(Len(buf') + 1) /\ n \in (1 - 1)..Len(buf')
    BY <1>1, <1>2
  <2> QED
    BY <1>2, <2>1, PartIsSeq
<1>5. \A i \in 1..(n - 1 + 1) : SubSeq(buf', 1, n)[i] = SubSeq(buf, 1, n)[i]
  <2>1. \A i \in 1..(n - 1 + 1) : 1 + i - 1 \in 1..pos
    BY <1>1
  <2> QED
    BY <1>2, <1>3, <1>4, <2>1
<1> QED
  BY <1>3, <1>4, <1>5, SeqEqual

\* The writer goes on from v with one byte more, when the reader is at q.
Writes(v, q, b) ==
  /\ IsSame(b) => v.edits = 0
  /\ w' = Count(v, IsSame(b))
  /\ r' = q
  /\ buf' = Append(buf, b)
  /\ old' = old

LEMMA CountIs ==
  ASSUME NEW v \in Writer, NEW same \in BOOLEAN, NEW u, u = Count(v, same)
  PROVE  /\ u \in Writer /\ u.flushed = v.flushed /\ u.seeks = v.seeks
         /\ u.coord = v.coord /\ u.relativepos = v.relativepos + 1
         /\ same => u.copies = v.copies + 1 /\ u.edits = v.edits
         /\ ~same => u.copies = v.copies /\ u.edits = v.edits + 1
<1> DEFINE v1 == [v EXCEPT !.relativepos = @ + 1]
           v2 == [v1 EXCEPT !.copies = IF same THEN @ + 1 ELSE @]
<1>1. u = [v2 EXCEPT !.edits = IF same THEN @ ELSE @ + 1]
  BY Zenon DEF Count
<1>2. /\ v1 \in Writer /\ v1.flushed = v.flushed /\ v1.seeks = v.seeks
      /\ v1.coord = v.coord /\ v1.relativepos = v.relativepos + 1
      /\ v1.copies = v.copies /\ v1.edits = v.edits
  BY DEF Writer
<1> HIDE DEF v1
<1>3. /\ v2 \in Writer /\ v2.flushed = v.flushed /\ v2.seeks = v.seeks
      /\ v2.coord = v.coord /\ v2.relativepos = v.relativepos + 1
      /\ v2.copies = (IF same THEN v.copies + 1 ELSE v.copies) /\ v2.edits = v.edits
  BY <1>2 DEF Writer
<1> HIDE DEF v2
<1> QED
  BY <1>1, <1>3 DEF Writer

\* More of the same.
LEMMA MatchesMore ==
  ASSUME NEW n \in Nat, NEW d \in Nat, NEW k \in Nat, k # 0 => Matches(n, d, k),
         LastAre(n, k), Bytes, NEW b \in Byte, buf' = Append(buf, b), old' = old,
         NEW z, z = d + k, z < Len(old.buf), b = old.buf[z + 1]
  PROVE  Matches(n, d, k + 1)'
<1>1. /\ pos \in Nat /\ pos = Len(buf) /\ Len(old.buf) \in Nat /\ n + k = pos
  BY LenProperties DEF Bytes, pos, LastAre
<1>2. buf'[pos + 1] = b /\ \A i \in 1..pos : buf'[i] = buf[i]
  BY <1>1 DEF Bytes
<1>3. \A i \in 1..k : buf[n + i] = old.buf[d + i]
  <2>1. CASE k = 0
    BY <2>1
  <2>2. CASE k # 0
    BY <2>2 DEF Matches
  <2> QED
    BY <2>1, <2>2
<1>4. \A i \in 1..(k + 1) : buf'[n + i] = old.buf[d + i]
  <2>1. SUFFICES ASSUME NEW i \in 1..(k + 1) PROVE buf'[n + i] = old.buf[d + i]
    OBVIOUS
  <2>2. CASE i = k + 1
    <3>1. n + i = pos + 1 /\ d + i = z + 1
      BY <1>1, <2>2
    <3> QED
      BY <1>2, <3>1
  <2>3. CASE i # k + 1
    <3>1. i \in 1..k /\ n + i \in 1..pos
      BY <1>1, <2>3
    <3> QED
      BY <1>2, <1>3, <3>1
  <2> QED
    BY <2>2, <2>3
<1>5. 0 <= d /\ d + (k + 1) <= Len(old.buf)
  BY <1>1
<1> QED
  BY <1>4, <1>5 DEF Matches

\* What matched still does.
LEMMA MatchesStays ==
  ASSUME NEW n \in Nat, NEW d \in Nat, NEW k \in Nat, Matches(n, d, k),
         NEW g \in Nat, LastAre(n + k, g), Bytes, NEW b, buf' = Append(buf, b), old' = old
  PROVE  Matches(n, d, k)'
<1>1. pos \in Nat /\ pos = Len(buf) /\ n + k <= pos
  BY LenProperties DEF Bytes, pos, LastAre
<1>2. \A i \in 1..pos : buf'[i] = buf[i]
  BY <1>1 DEF Bytes
<1>3. \A i \in 1..k : n + i \in 1..pos
  BY <1>1
<1> QED
  BY <1>2, <1>3 DEF Matches

\* A byte that is counted leaves them in step.
LEMMA Counts ==
  ASSUME Shape, NEW v, NEW q, NEW n, NEW d, Ready(v, q, n, d), NEW b \in Byte,
         Writes(v, q, b)
  PROVE  IInv'
<1> DEFINE k == v.copies
           g == v.edits
           z == w.relativepos
           same == IsSame(b)
<1>1. /\ pos \in Nat /\ pos = Len(buf) /\ Len(old.buf) \in Nat /\ Bytes
      /\ z \in Nat /\ buf \in Seq(Byte) /\ old \in Olds
  BY ShapeTypes DEF Bytes, Shape
<1>2. /\ v \in Writer /\ ~v.flushed /\ v.seeks = 0 /\ v.relativepos = z
      /\ n \in Nat /\ d \in Nat /\ k \in Nat /\ g \in Nat
      /\ k # 0 => Matches(n, d, k)
      /\ q = Reader(n, d, v.coord, "reading")
  BY DEF Ready, Writer
<1>3. n + k + g = pos /\ d + k + g = z
  BY DEF Ready
<1>4. /\ same => g = 0
      /\ r' = q /\ buf' = Append(buf, b) /\ old' = old
      /\ same \in BOOLEAN
  BY DEF Writes, IsSame
<1>5. w' = Count(v, same)
  BY DEF Writes
<1>6. same => b = old.buf[z + 1] /\ z < Len(old.buf)
  BY DEF IsSame
<1>7. /\ w' \in Writer /\ w'.flushed = v.flushed /\ w'.seeks = v.seeks
      /\ w'.coord = v.coord /\ w'.relativepos = z + 1
      /\ same => w'.copies = k + 1 /\ w'.edits = g
      /\ ~same => w'.copies = k /\ w'.edits = g + 1
  <2> HIDE DEF same
  <2> QED
    BY <1>2, <1>4, <1>5, CountIs
<1> HIDE DEF k, g, z, same
<1>8. buf' \in Seq(Byte) /\ pos' = pos + 1
  BY <1>1, <1>4 DEF pos
<1>9. firstCopy' = n /\ Began' = d
  <2>1. firstCopy' = pos' - w'.copies - w'.edits
    BY DEF firstCopy
  <2>2. Began' = w'.relativepos - w'.copies - w'.edits
    BY DEF Began
  <2>3. /\ (pos + 1) - (k + 1) - g = n /\ (pos + 1) - k - (g + 1) = n
        /\ (z + 1) - (k + 1) - g = d /\ (z + 1) - k - (g + 1) = d
    BY <1>1, <1>2, <1>3
  <2>4. CASE same
    BY <1>7, <1>8, <2>1, <2>2, <2>3, <2>4
  <2>5. CASE ~same
    BY <1>7, <1>8, <2>1, <2>2, <2>3, <2>5
  <2> QED
    BY <2>4, <2>5
<1>10. w'.copies # 0 => Matches(firstCopy, Began, w.copies)'
  <2>1. CASE same
    <3>1. LastAre(n, k) /\ z = d + k
      BY <1>1, <1>2, <1>3, <1>4, <2>1 DEF LastAre
    <3>2. Matches(n, d, k + 1)'
      BY <1>1, <1>2, <1>4, <1>6, <2>1, <3>1, MatchesMore
    <3> QED
      BY <1>7, <1>9, <2>1, <3>2 DEF Matches
  <2>2. CASE ~same
    <3>1. LastAre(n + k, g)
      BY <1>3 DEF LastAre
    <3>2. k # 0 => Matches(n, d, k)'
      BY <1>1, <1>2, <1>4, <3>1, MatchesStays
    <3> QED
      BY <1>7, <1>9, <2>2, <3>2 DEF Matches
  <2> QED
    BY <2>1, <2>2
<1>11. r' = Reader(firstCopy, Began + w.seeks, w.coord, "reading")'
  <2>1. n <= pos
    BY <1>1, <1>2, <1>3
  <2>2. q = [buf |-> SubSeq(buf', 1, n), dbpos |-> d, coord |-> v.coord, st |-> "reading"]
    <3> DEFINE co == v.coord
               R == Reader(n, d, co, "reading")
    <3>1. SubSeq(buf', 1, n) = SubSeq(buf, 1, n)
      BY <1>1, <1>2, <1>4, <2>1, BeginningStays
    <3> QED
      BY <1>2, <3>1, Zenon DEF Reader
  <2>3. Began' + w'.seeks = d
    BY <1>2, <1>7, <1>9
  <2> QED
    BY <1>4, <1>7, <1>9, <2>2, <2>3, Zenon DEF Reader
<1>12. Shape'
  BY <1>1, <1>2, <1>4, <1>7, <1>8 DEF Shape
<1>13. Counted'
  BY <1>2, <1>9, <1>10, <1>11, Zenon DEF Counted
<1> QED
  BY <1>2, <1>7, <1>12, <1>13 DEF IInv

\* After a flush the two are in step, with nothing counted.
LEMMA FlushedReady ==
  ASSUME Shape, Counted, InReach, ~w.flushed, NEW stray, NEW e \in Offered(FALSE, stray)
  PROVE  Ready(Flushed(e), Received(Commands(e, FALSE)), pos, w.relativepos)
<1> DEFINE v == Flushed(e)
           q == Received(Commands(e, FALSE))
<1>1. NewCoord(e) \in Nat
  BY NewCoordIs
<1>2. /\ v \in Writer /\ v.copies = 0 /\ v.edits = 0 /\ v.seeks = 0
      /\ v.relativepos = w.relativepos /\ v.coord = NewCoord(e) /\ v.flushed = w.flushed
  <2>1. v = Flushed(e)
    OBVIOUS
  <2> HIDE DEF v
  <2> QED
    BY <1>1, <2>1, FlushedIs
<1>3. q = Reader(pos, w.relativepos, NewCoord(e), "reading")
  <2>1. FALSE \in BOOLEAN
    OBVIOUS
  <2> QED
    BY <2>1, FlushReads
<1>4. pos \in Nat /\ w.relativepos \in Nat
  BY ShapeTypes
<1> HIDE DEF v, q
<1>5. /\ pos + v.copies + v.edits = pos
      /\ w.relativepos + v.copies + v.edits = v.relativepos
  BY <1>2, <1>4
<1>6. Ready(v, q, pos, w.relativepos)
  BY <1>2, <1>3, <1>4, <1>5, Zenon DEF Ready
<1> QED
  BY <1>6 DEF v, q

\* What is not flushed is in step as it is, unless something is to be skipped.
LEMMA CountedReady ==
  ASSUME Shape, Counted, ~w.flushed, w.seeks = 0
  PROVE  Ready(w, r, firstCopy, Began)
<1>1. /\ r = Reader(firstCopy, Began, w.coord, "reading")
      /\ firstCopy \in Nat /\ Began \in Nat
      /\ firstCopy + w.copies + w.edits = pos
      /\ Began + w.copies + w.edits = w.relativepos
      /\ w.copies # 0 => Matches(firstCopy, Began, w.copies)
  BY AtFlush
<1>2. w \in Writer
  BY DEF Shape
<1> QED
  BY <1>1, <1>2, Zenon DEF Ready

LEMMA WriteKeeps ==
  ASSUME Shape, Counted, NEW stray, NEW e \in Offered(FALSE, stray),
         NEW b \in Byte, EndsRun(b) => InReach, Write(b, e)
  PROVE  IInv'
<1>1. /\ ~w.flushed
      /\ buf' = Append(buf, b) /\ old' = old
      /\ w' = Count(IF EndsRun(b) THEN Flushed(e) ELSE w, IsSame(b))
      /\ r' = IF EndsRun(b) THEN Received(Commands(e, FALSE)) ELSE r
  BY DEF Write
<1>2. CASE EndsRun(b)
  <2> DEFINE v == Flushed(e)
             q == Received(Commands(e, FALSE))
  <2>1. Ready(v, q, pos, w.relativepos)
    BY <1>1, <1>2, FlushedReady
  <2>2. v.edits = 0
    <3>1. NewCoord(e) \in Nat
      BY NewCoordIs
    <3> QED
      BY <3>1, FlushedIs
  <2>3. Writes(v, q, b)
    BY <1>1, <1>2, <2>2, Zenon DEF Writes
  <2> HIDE DEF v, q
  <2> QED
    BY <2>1, <2>3, Counts
<1>3. CASE ~EndsRun(b)
  <2>1. w.seeks = 0 /\ (IsSame(b) => w.edits = 0)
    BY <1>3 DEF EndsRun
  <2>2. Ready(w, r, firstCopy, Began)
    BY <1>1, <2>1, CountedReady
  <2>3. Writes(w, r, b)
    BY <1>1, <1>3, <2>1, Zenon DEF Writes
  <2> QED
    BY <2>2, <2>3, Counts
<1> QED
  BY <1>2, <1>3

\* Somewhere else in the old file they are in step again.
LEMMA SeekKeeps ==
  ASSUME Shape, NEW v \in Writer, v.copies = 0, v.edits = 0, ~v.flushed,
         v.relativepos = w.relativepos,
         NEW q, q = Reader(pos, v.relativepos + v.seeks, v.coord, "reading"),
         NEW at \in Nat, w' = SeekTo(v, at), r' = q, buf' = buf, old' = old
  PROVE  IInv'
<1>1. pos \in Nat /\ w.relativepos \in Nat /\ buf \in Seq(Byte) /\ old \in Olds
  BY ShapeTypes DEF Shape
<1>2. /\ w' \in Writer /\ w'.copies = 0 /\ w'.edits = 0 /\ ~w'.flushed
      /\ w'.relativepos = at /\ w'.coord = v.coord
      /\ w'.seeks = v.seeks + v.relativepos - at
      /\ v.seeks \in Int
  <2> DEFINE x == v.seeks + v.relativepos - at
             v1 == [v EXCEPT !.seeks = x]
  <2>1. w' = [v1 EXCEPT !.relativepos = at]
    BY Zenon DEF SeekTo
  <2>2. x \in Int /\ v.seeks \in Int
    BY DEF Writer
  <2> HIDE DEF x
  <2>3. /\ v1 \in Writer /\ v1.copies = 0 /\ v1.edits = 0 /\ ~v1.flushed
        /\ v1.coord = v.coord /\ v1.seeks = x
    BY <2>2 DEF Writer
  <2> HIDE DEF v1
  <2>4. /\ w' \in Writer /\ w'.copies = 0 /\ w'.edits = 0 /\ ~w'.flushed
        /\ w'.relativepos = at /\ w'.coord = v.coord /\ w'.seeks = x
    BY <2>1, <2>3 DEF Writer
  <2> QED
    BY <2>2, <2>4 DEF x
<1>3. pos' = pos
  BY DEF pos
<1>4. firstCopy' = pos /\ Began' = at
  <2>1. firstCopy' = pos' - w'.copies - w'.edits
    BY DEF firstCopy
  <2>2. Began' = w'.relativepos - w'.copies - w'.edits
    BY DEF Began
  <2> QED
    BY <1>1, <1>2, <1>3, <2>1, <2>2
<1>5. Began' + w'.seeks = v.relativepos + v.seeks
  BY <1>1, <1>2, <1>4
<1>6. r' = Reader(firstCopy, Began + w.seeks, w.coord, "reading")'
  BY <1>2, <1>4, <1>5, Zenon DEF Reader
<1>7. Shape'
  BY <1>1, <1>2 DEF Shape
<1>8. Counted'
  BY <1>1, <1>2, <1>4, <1>6, Zenon DEF Counted
<1> QED
  BY <1>2, <1>7, <1>8 DEF IInv

\* Nothing that the invariant is about changes.
LEMMA SameKeeps ==
  ASSUME IInv, w' = w, r' = r, buf' = buf, old' = old
  PROVE  IInv'
BY Zenon DEF IInv, Shape, Counted, Ended, Reader, Matches, firstCopy, Began, pos

LEMMA TagKeeps ==
  ASSUME Shape, Counted, NEW stray, NEW e \in Offered(FALSE, stray),
         NEW t \in Tags, Seeks(t) /\ Counting => InReach, Tag(t, e)
  PROVE  IInv'
<1>1. /\ ~w.flushed /\ buf' = buf /\ old' = old
      /\ w' = IF ~Seeks(t) THEN w
              ELSE SeekTo(IF Counting THEN Flushed(e) ELSE w, old.tag[t])
      /\ r' = IF Seeks(t) /\ Counting THEN Received(Commands(e, FALSE)) ELSE r
  BY DEF Tag
<1>2. /\ pos \in Nat /\ w.relativepos \in Nat /\ w \in Writer
      /\ w.copies \in Nat /\ w.edits \in Nat /\ w.seeks \in Int
  BY ShapeTypes DEF Shape
<1>3. CASE ~Seeks(t)
  <2>1. w' = w /\ r' = r
    BY <1>1, <1>3, Zenon
  <2>2. IInv
    BY <1>1 DEF IInv
  <2> QED
    BY <1>1, <2>1, <2>2, SameKeeps
<1>4. ASSUME Seeks(t) PROVE old.tag[t] \in Nat
  <2>1. old.tag[t] \in {NotTagged} \cup 0..Len(old.buf) /\ Len(old.buf) \in Nat
    BY ShapeTypes
  <2> QED
    BY <1>4, <2>1 DEF Seeks
<1> DEFINE at == old.tag[t]
<1>5. CASE Seeks(t) /\ Counting
  <2> DEFINE v == Flushed(e)
             q == Received(Commands(e, FALSE))
  <2>1. Ready(v, q, pos, w.relativepos)
    BY <1>1, <1>5, FlushedReady
  <2>2. v.copies = 0 /\ v.edits = 0 /\ v.seeks = 0
    <3>1. NewCoord(e) \in Nat
      BY NewCoordIs
    <3> QED
      BY <3>1, FlushedIs
  <2>3. w' = SeekTo(v, at) /\ r' = q /\ at \in Nat
    BY <1>1, <1>4, <1>5, Zenon
  <2> HIDE DEF v, q, at
  <2>4. /\ v \in Writer /\ ~v.flushed /\ v.relativepos = w.relativepos
        /\ q = Reader(pos, w.relativepos, v.coord, "reading")
    BY <2>1, Zenon DEF Ready
  <2>5. v.relativepos + v.seeks = w.relativepos
    BY <1>2, <2>2, <2>4
  <2>6. q = Reader(pos, v.relativepos + v.seeks, v.coord, "reading")
    BY <2>4, <2>5, Zenon
  <2> QED
    BY <1>1, <2>2, <2>3, <2>4, <2>6, SeekKeeps
<1>6. CASE Seeks(t) /\ ~Counting
  <2>1. w.copies = 0 /\ w.edits = 0
    BY <1>6 DEF Counting
  <2>2. firstCopy = pos /\ Began = w.relativepos
    BY <1>2, <2>1 DEF firstCopy, Began
  <2>3. r = Reader(pos, w.relativepos + w.seeks, w.coord, "reading")
    BY <2>2, Zenon DEF Counted
  <2>4. w' = SeekTo(w, at) /\ r' = r /\ at \in Nat
    BY <1>1, <1>4, <1>6, Zenon
  <2> HIDE DEF at
  <2> QED
    BY <1>1, <1>2, <2>1, <2>3, <2>4, SeekKeeps
<1> QED
  BY <1>3, <1>5, <1>6

LEMMA HintKeeps ==
  ASSUME IInv, Hint
  PROVE  IInv'
<1>1. ~w.flushed /\ w' = [w EXCEPT !.hint = pos] /\ buf' = buf /\ old' = old /\ r' = r
  BY DEF Hint
<1>2. Shape /\ Counted /\ pos \in Nat
  BY <1>1, ShapeTypes DEF IInv
<1>3. /\ w \in Writer /\ w' \in Writer
      /\ w'.copies = w.copies /\ w'.edits = w.edits /\ w'.seeks = w.seeks
      /\ w'.coord = w.coord /\ w'.relativepos = w.relativepos /\ w'.flushed = w.flushed
  BY <1>1, <1>2 DEF Shape, Writer
<1>4. pos' = pos /\ firstCopy' = firstCopy /\ Began' = Began
  BY <1>1, <1>3, Zenon DEF pos, firstCopy, Began
<1>5. Shape'
  BY <1>1, <1>2, <1>3 DEF Shape
<1>6. Counted'
  BY <1>1, <1>2, <1>3, <1>4, Zenon DEF Counted, Reader, Matches
<1> QED
  BY <1>1, <1>3, <1>5, <1>6 DEF IInv

LEMMA FinishKeeps ==
  ASSUME Shape, Counted, InReach, NEW stray, NEW e \in Offered(TRUE, stray), Finish(e)
  PROVE  IInv'
<1>1. /\ ~w.flushed /\ buf' = buf /\ old' = old
      /\ w' = [Flushed(e) EXCEPT !.flushed = TRUE] /\ r' = Received(Commands(e, TRUE))
  BY DEF Finish
<1> DEFINE v == Flushed(e)
<1>2. NewCoord(e) \in Nat
  BY NewCoordIs
<1>3. /\ v \in Writer /\ v.copies = 0 /\ v.edits = 0 /\ v.seeks = 0
      /\ v.relativepos = w.relativepos
  <2>1. v = Flushed(e)
    OBVIOUS
  <2> HIDE DEF v
  <2> QED
    BY <1>2, <2>1, FlushedIs
<1>4. w' = [v EXCEPT !.flushed = TRUE]
  BY <1>1
<1> HIDE DEF v
<1>5. /\ w' \in Writer /\ w'.flushed /\ w'.copies = 0 /\ w'.edits = 0 /\ w'.seeks = 0
      /\ w'.relativepos = w.relativepos
  BY <1>3, <1>4 DEF Writer
<1>6. Received(Commands(e, TRUE)) = Reader(pos, w.relativepos, NewCoord(e), "ended")
  <2>1. TRUE \in BOOLEAN
    OBVIOUS
  <2> QED
    BY <2>1, FlushReads
<1>7. r' = Reader(pos, w.relativepos, NewCoord(e), "ended")
  BY <1>1, <1>6, Zenon
<1> DEFINE d == w.relativepos
           c == NewCoord(e)
<1>8. d \in Int /\ c \in Nat /\ r' = Reader(pos, d, c, "ended")
  BY <1>2, <1>7, ShapeTypes
<1> HIDE DEF d, c
<1>9. r' = [buf |-> SubSeq(buf', 1, pos'), dbpos |-> d, coord |-> c, st |-> "ended"]
  BY <1>1, <1>8, Zenon DEF Reader, pos
<1>10. Ended'
  BY <1>8, <1>9, Zenon DEF Ended, Reader
<1>11. Shape'
  BY <1>1, <1>5 DEF Shape
<1> QED
  BY <1>5, <1>10, <1>11 DEF IInv

LEMMA InitHolds ==
  ASSUME Init
  PROVE  IInv
<1>1. old \in Olds /\ buf = <<>> /\ w = mnew /\ r = Nobody
  BY DEF Init
<1>2. /\ w \in Writer /\ w.copies = 0 /\ w.edits = 0 /\ w.seeks = 0
      /\ w.relativepos = 0 /\ w.coord = 0 /\ ~w.flushed
  BY <1>1 DEF mnew, Writer
<1>3. pos = 0 /\ firstCopy = 0 /\ Began = 0 /\ Began + w.seeks = 0
  BY <1>1, <1>2 DEF pos, firstCopy, Began
<1>4. SubSeq(buf, 1, 0) = <<>>
  BY <1>1
<1>5. r = [buf |-> <<>>, dbpos |-> 0, coord |-> 0, st |-> "reading"]
  BY <1>1 DEF Nobody
<1>6. r = Reader(firstCopy, Began + w.seeks, w.coord, "reading")
  BY <1>2, <1>3, <1>4, <1>5, Zenon DEF Reader
<1>7. Shape
  BY <1>1, <1>2 DEF Shape
<1>8. Counted
  BY <1>2, <1>3, <1>6 DEF Counted
<1> QED
  BY <1>2, <1>7, <1>8 DEF IInv

\* A step that flushes edits, so that none are left, compares them with bytes
\* that are in the old file.
NoStrays == w'.edits = 0 => InReach

\* Where a byte of the old file follows, the edits are in reach.
LEMMA RunEndsInReach ==
  ASSUME Shape, NEW b, EndsRun(b)
  PROVE  InReach
<1>1. CASE w.seeks # 0
  BY <1>1 DEF Shape, InReach
<1>2. CASE IsSame(b)
  BY <1>2, ShapeTypes DEF IsSame, InReach
<1> QED
  BY <1>1, <1>2 DEF EndsRun

LEMMA FlushEmpties ==
  ASSUME Shape, NEW e
  PROVE  /\ Flushed(e).edits = 0
         /\ [Flushed(e) EXCEPT !.flushed = TRUE].edits = 0
         /\ \A at : SeekTo(Flushed(e), at).edits = 0
BY DEF Shape, Writer, Flushed, SeekTo

LEMMA NextKeeps ==
  ASSUME IInv, [Next]_vars, [NoStrays]_vars
  PROVE  IInv'
<1>1. ASSUME w' # w, w'.edits = 0 PROVE InReach
  BY <1>1 DEF NoStrays, vars
<1>2. ASSUME ~w.flushed PROVE Shape /\ Counted
  BY <1>2 DEF IInv
<1>3. ASSUME NEW stray \in Strays, NEW e \in Offered(FALSE, stray), NEW b \in Byte,
             Write(b, e)
      PROVE  IInv'
  <2>1. ~w.flushed /\ (EndsRun(b) => InReach)
    BY <1>2, <1>3, RunEndsInReach DEF Write
  <2> QED
    BY <1>2, <1>3, <2>1, WriteKeeps, Zenon
<1>4. ASSUME NEW stray \in Strays, NEW e \in Offered(FALSE, stray), NEW t \in Tags,
             Tag(t, e)
      PROVE  IInv'
  <2>1. ~w.flushed /\ (Seeks(t) /\ Counting => w' = SeekTo(Flushed(e), old.tag[t]))
    BY <1>4 DEF Tag
  <2>2. Shape /\ Counted
    BY <1>2, <2>1
  <2>3. ASSUME Seeks(t), Counting PROVE InReach
    <3>1. w'.edits = 0
      BY <2>1, <2>2, <2>3, FlushEmpties
    <3>2. CASE w.edits = 0
      BY <3>2 DEF InReach
    <3>3. CASE w.edits # 0
      BY <1>1, <3>1, <3>3
    <3> QED
      BY <3>2, <3>3
  <2> QED
    BY <1>4, <2>2, <2>3, TagKeeps, Zenon
<1>5. ASSUME NEW stray \in Strays, NEW e \in Offered(TRUE, stray), Finish(e)
      PROVE  IInv'
  <2>1. ~w.flushed /\ w' = [Flushed(e) EXCEPT !.flushed = TRUE]
    BY <1>5 DEF Finish
  <2>2. Shape /\ Counted
    BY <1>2, <2>1
  <2>3. w'.edits = 0
    BY <2>1, <2>2, FlushEmpties
  <2>4. InReach
    <3>1. CASE w.edits = 0
      BY <3>1 DEF InReach
    <3>2. CASE w.edits # 0
      BY <1>1, <2>3, <3>2
    <3> QED
      BY <3>1, <3>2
  <2> QED
    BY <1>5, <2>2, <2>4, FinishKeeps, Zenon
<1>6. CASE Hint
  BY <1>6, HintKeeps
<1>7. CASE UNCHANGED vars
  <2>1. w' = w /\ r' = r /\ buf' = buf /\ old' = old
    BY <1>7 DEF vars
  <2> QED
    BY <2>1, SameKeeps
<1> QED
  BY <1>3, <1>4, <1>5, <1>6, <1>7, Zenon DEF Next

------------------------------------------------------------------------------
(* What follows from it.                                                    *)

\* The part of the file that the reader has.
LEMMA ReaderIs ==
  ASSUME Bytes, NEW n \in Nat, n <= pos, NEW d \in Int, NEW c \in Nat, NEW s,
         r = Reader(n, d, c, s)
  PROVE  /\ r.buf = SubSeq(buf, 1, n) /\ r.buf \in Seq(Byte)
         /\ r.dbpos = d /\ r.coord = c /\ r.st = s
<1>1. pos \in Nat /\ pos = Len(buf) /\ buf \in Seq(Byte)
  BY LenProperties DEF Bytes, pos
<1>2. 1 \in 1..(Len(buf) + 1) /\ n \in (1 - 1)..Len(buf)
  BY <1>1
<1>3. SubSeq(buf, 1, n) \in Seq(Byte)
  BY <1>1, <1>2, PartIsSeq
<1> QED
  BY <1>3 DEF Reader

LEMMA Invariants ==
  ASSUME IInv
  PROVE  TypeOK /\ InStep /\ RoundTrip
<1>1. /\ Shape /\ Bytes /\ pos \in Nat /\ w.relativepos \in Nat /\ w.copies \in Nat
      /\ w.edits \in Nat /\ w.seeks \in Int /\ w.coord \in Nat
  BY ShapeTypes DEF IInv
<1>2. CASE ~w.flushed
  <2>1. Counted
    BY <1>2 DEF IInv
  <2> DEFINE d == Began + w.seeks
  <2>2. firstCopy \in Nat /\ firstCopy <= pos /\ d \in Int
        /\ d = w.relativepos + w.seeks - w.copies - w.edits
    BY <1>1, <2>1 DEF Counted, firstCopy, Began
  <2>3. r = Reader(firstCopy, d, w.coord, "reading")
    BY <2>1 DEF Counted
  <2> HIDE DEF d
  <2>4. /\ r.buf = SubSeq(buf, 1, firstCopy) /\ r.buf \in Seq(Byte)
        /\ r.dbpos = d /\ r.coord = w.coord /\ r.st = "reading"
    BY <1>1, <2>2, <2>3, ReaderIs
  <2> QED
    BY <1>1, <1>2, <2>2, <2>4 DEF TypeOK, InStep, RoundTrip, Shape
<1>3. CASE w.flushed
  <2>1. PICK d \in Int, co \in Nat : r = Reader(pos, d, co, "ended")
    BY <1>3 DEF IInv, Ended
  <2>2. pos <= pos
    BY <1>1
  <2>3. /\ r.buf = SubSeq(buf, 1, pos) /\ r.buf \in Seq(Byte)
        /\ r.dbpos = d /\ r.coord = co /\ r.st = "ended"
    BY <1>1, <2>1, <2>2, ReaderIs
  <2>4. SubSeq(buf, 1, pos) = buf
    BY <1>1, SubSeqFull DEF Bytes, pos
  <2> QED
    BY <1>1, <1>3, <2>3, <2>4 DEF TypeOK, InStep, RoundTrip, Shape
<1> QED
  BY <1>2, <1>3

LEMMA IInvHolds == Spec /\ [][NoStrays]_vars => []IInv
<1>1. Init => IInv
  BY InitHolds
<1>2. IInv /\ [Next]_vars /\ [NoStrays]_vars => IInv'
  BY NextKeeps
<1> QED
  BY <1>1, <1>2, PTL DEF Spec

\* The code does not keep one or two bytes past the old file's end from being
\* compared with whatever follows it (memfile.c:628).  What is proved is about
\* the differences in which that does not happen, whether Overrun or not.

\* The writer never has copies or edits to flush while it has a skip to flush:
\* in every difference of which no flush looks past the end of the old file.
THEOREM TypeOKHolds == Spec /\ [][NoStrays]_vars => []TypeOK
<1>1. IInv => TypeOK
  BY Invariants
<1> QED
  BY <1>1, IInvHolds, PTL

\* Whatever is written and however it is tagged, the reader is always in step
\* with the writer, unless a flush looks past the end of the old file.
THEOREM InStepHolds == Spec /\ [][NoStrays]_vars => []InStep
<1>1. IInv => InStep
  BY Invariants
<1> QED
  BY <1>1, IInvHolds, PTL

\* What is read back is what was written: the check of log_save_line never
\* fails, unless a flush looked past the end of the old file.
THEOREM RoundTripHolds == Spec /\ [][NoStrays]_vars => []RoundTrip
<1>1. IInv => RoundTrip
  BY Invariants
<1> QED
  BY <1>1, IInvHolds, PTL

==============================================================================
