---------------------------- MODULE HistoryProofs ----------------------------
(* SaveLog implements GameHistory: every step of a process that plays, opens, *)
(* recovers or watches a game is a step of one shared history, or none.       *)
EXTENDS SaveLogProofs

-----------------------------------------------------------------------------
(* The history only grows along the file, up to the first spoilt line. *)

Prefix(s, t) == Len(s) <= Len(t) /\ s = SubSeq(t, 1, Len(s))

GoodUpTo(g) == g \in 1..EOF /\ \A n \in 1..EOF : Good(n) <=> n <= g

\* Each good line denotes a beginning of what a later one does.  It follows from
\* AfterFollows by induction over the file, so it is carried along.
AfterGrows ==
  \E g : /\ GoodUpTo(g)
         /\ \A m, n \in 1..g : m <= n => Prefix(lines[m].after, lines[n].after)

\* Beginnings of an engine state.
LEMMA PrefixOfItself ==
  ASSUME NEW s \in State
  PROVE  Prefix(s, s)
<1>1. s \in Seq(Values \cup {Garble})
  BY DEF State
<1>2. SubSeq(s, 1, Len(s)) = s
  BY <1>1
<1> QED
  BY <1>1, <1>2 DEF Prefix

LEMMA PrefixOfAppended ==
  ASSUME NEW s \in State, NEW t \in State, NEW v \in Values \cup {Garble}, Prefix(s, t)
  PROVE  Prefix(s, Append(t, v))
<1>1. s \in Seq(Values \cup {Garble}) /\ t \in Seq(Values \cup {Garble})
  BY DEF State
<1>2. /\ Append(t, v) \in Seq(Values \cup {Garble})
      /\ Len(Append(t, v)) = Len(t) + 1
      /\ \A i \in 1..Len(t) : Append(t, v)[i] = t[i]
  BY <1>1
<1>3. SubSeq(Append(t, v), 1, Len(s)) = SubSeq(t, 1, Len(s))
  BY <1>1, <1>2 DEF Prefix
<1> QED
  BY <1>1, <1>2, <1>3 DEF Prefix

\* What a step may do to the file: nothing, add one line, cut it off.
Added == EOF' = EOF + 1 /\ \A n \in 1..EOF : lines'[n] = lines[n]
Cut   == \E r \in 1..EOF : lines' = SubSeq(lines, 1, r)

LEMMA AppendAdds ==
  ASSUME TypeOK, NEW l, AppendLine(l)
  PROVE  Added /\ lines'[EOF + 1] = l
BY DEF TypeOK, AppendLine, Added, EOF

LEMMA LinesChange ==
  ASSUME Coherent, Next
  PROVE  UNCHANGED lines \/ Added \/ Cut
<1>1. TypeOK
  BY DEF Coherent
<1>2. PICK p \in Procs : Steps(p)
  BY DEF Next, Steps
<1>3. Writes(p)
  BY <1>2, StepWrites
<1>4. CASE Appends(p)
  BY <1>1, <1>4, AppendAdds DEF Appends
<1>5. CASE Cuts(p)
  BY <1>5 DEF Cuts, Coherent, ViewSound, Truncate, Cut
<1> QED
  BY <1>3, <1>4, <1>5 DEF Writes

\* How far the good lines go: one number, which AfterGrows carries along.
LEMMA GoodLinesIs ==
  ASSUME EOF \in Nat, NEW g, GoodUpTo(g)
  PROVE  GoodLines = g /\ (Spoilt <=> g < EOF)
<1>1. g \in 1..EOF /\ \A n \in 1..EOF : Good(n) <=> n <= g
  BY DEF GoodUpTo
<1>2. Spoilt <=> g < EOF
  BY <1>1 DEF Spoilt
<1>3. CASE ~Spoilt
  BY <1>1, <1>2, <1>3 DEF GoodLines
<1>4. CASE Spoilt
  <2> DEFINE Edge(n) == n \in 0..(EOF - 1) /\ Good(n) /\ ~Good(n + 1)
  <2>1. Edge(g)
    BY <1>1, <1>2, <1>4
  <2>2. ASSUME NEW n, Edge(n) PROVE n = g
    BY <1>1, <2>2
  <2>3. GoodLines = CHOOSE n : Edge(n)
    BY <1>4 DEF GoodLines
  <2> QED
    BY <1>2, <2>1, <2>2, <2>3
<1> QED
  BY <1>3, <1>4

LEMMA GoodLinesNext ==
  ASSUME EOF' \in Nat, NEW g, GoodUpTo(g)'
  PROVE  GoodLines' = g /\ (Spoilt' <=> g < EOF')
<1>e. PICK e \in Nat : e = EOF'
  OBVIOUS
<1>1. g \in 1..e /\ \A n \in 1..e : Good(n)' <=> n <= g
  BY <1>e DEF GoodUpTo
<1>2. Spoilt' <=> g < e
  BY <1>1, <1>e DEF Spoilt
<1>3. CASE ~Spoilt'
  BY <1>1, <1>2, <1>3, <1>e DEF GoodLines
<1>4. CASE Spoilt'
  <2> DEFINE Edge(n) == n \in 0..(e - 1) /\ Good(n)' /\ ~Good(n + 1)'
  <2>1. Edge(g)
    <3>1. g + 1 \in 1..e /\ g \in 1..e /\ g \in 0..(e - 1) /\ ~(g + 1 <= g)
      BY <1>1, <1>2, <1>4
    <3> QED
      BY <1>1, <3>1
  <2>2. ASSUME NEW n, Edge(n) PROVE n = g
    BY <1>1, <2>2
  <2>3. GoodLines' = CHOOSE n : Edge(n)
    BY <1>4, <1>e DEF GoodLines
  <2> QED
    BY <1>2, <1>e, <2>1, <2>2, <2>3
<1> QED
  BY <1>3, <1>4

LEMMA SameGood ==
  ASSUME NEW n \in Nat, \A m \in 1..n : lines'[m] = lines[m]
  PROVE  Good(n)' <=> Good(n)
BY DEF Good

LEMMA CutGood ==
  ASSUME EOF \in Nat, NEW g, GoodUpTo(g), NEW r \in 1..EOF, EOF' = r,
         \A n \in 1..r : lines'[n] = lines[n], NEW h, h = IF g <= r THEN g ELSE r
  PROVE  GoodUpTo(h)'
<1>1. g \in 1..EOF /\ \A n \in 1..EOF : Good(n) <=> n <= g
  BY DEF GoodUpTo
<1>2. \A n \in 1..r : Good(n)' <=> Good(n)
  BY SameGood
<1>3. h \in 1..r /\ \A n \in 1..r : n <= g <=> n <= h
  BY <1>1
<1> QED
  BY <1>1, <1>2, <1>3 DEF GoodUpTo

LEMMA AddedGood ==
  ASSUME EOF \in Nat, NEW g, GoodUpTo(g), Added, NEW h,
         h = IF g = EOF /\ lines'[EOF + 1].kind # "spoilt" THEN g + 1 ELSE g
  PROVE  GoodUpTo(h)'
<1>1. g \in 1..EOF /\ \A n \in 1..EOF : Good(n) <=> n <= g
  BY DEF GoodUpTo
<1>n. PICK e \in Nat : e = EOF
  OBVIOUS
<1>2. e >= 1 /\ EOF' = e + 1 /\ \A n \in 1..e : lines'[n] = lines[n]
  BY <1>1, <1>n DEF Added
<1>3. \A n \in 1..e : Good(n)' <=> n <= g
  <2> TAKE n \in 1..e
  <2>1. Good(n)' <=> Good(n)
    BY <1>2, SameGood
  <2> QED
    BY <1>1, <1>n, <2>1
<1>4. Good(e + 1)' <=> Good(e)' /\ lines'[e + 1].kind # "spoilt"
  <2>1. 1..(e + 1) = 1..e \cup {e + 1}
    OBVIOUS
  <2> QED
    BY <2>1 DEF Good
<1>5. Good(e)' <=> g = e
  BY <1>1, <1>2, <1>3, <1>n
<1>6. h \in 1..(e + 1) /\ \A n \in 1..e : n <= g <=> n <= h
  BY <1>1, <1>2, <1>n
<1>7. Good(e + 1)' <=> e + 1 <= h
  BY <1>1, <1>2, <1>4, <1>5, <1>n
<1>8. \A n \in 1..(e + 1) : Good(n)' <=> n <= h
  BY <1>1, <1>3, <1>6, <1>7
<1> QED
  BY <1>2, <1>6, <1>8 DEF GoodUpTo

LEMMA GrowsNext ==
  ASSUME Coherent, Coherent', AfterGrows, [Next]_vars
  PROVE  AfterGrows'
<1>1. TypeOK /\ TypeOK' /\ EOF \in Nat /\ EOF' \in Nat /\ EOF >= 1
  BY DEF Coherent, FileSound, TypeOK, EOF
<1>g. PICK g : /\ GoodUpTo(g)
               /\ \A m, n \in 1..g : m <= n => Prefix(lines[m].after, lines[n].after)
  BY DEF AfterGrows
<1>h. g \in 1..EOF
  BY <1>g DEF GoodUpTo
<1>2. CASE UNCHANGED lines
  <2>1. GoodUpTo(g)'
    BY <1>2, <1>g DEF GoodUpTo, Good, EOF
  <2> QED
    BY <1>2, <1>g, <2>1 DEF AfterGrows
<1>3. CASE Cut
  <2>1. PICK r \in 1..EOF : lines' = SubSeq(lines, 1, r)
    BY <1>3 DEF Cut
  <2>2. EOF' = r /\ \A n \in 1..r : lines'[n] = lines[n]
    BY <1>1, <2>1, TruncateLines
  <2>3. PICK h : h = IF g <= r THEN g ELSE r
    OBVIOUS
  <2>4. GoodUpTo(h)'
    BY <1>1, <1>g, <2>2, <2>3, CutGood
  <2>5. h <= g /\ h <= r /\ h \in Nat
    BY <1>1, <1>h, <2>3
  <2>6. \A m, n \in 1..h : m <= n => Prefix(lines'[m].after, lines'[n].after)
    BY <1>1, <1>h, <1>g, <2>2, <2>5
  <2> QED
    BY <2>4, <2>6 DEF AfterGrows
<1>4. CASE Added
  <2>n. PICK n \in Nat : n = EOF + 1
    BY <1>1
  <2>h. PICK h : h = IF g = EOF /\ lines'[EOF + 1].kind # "spoilt" THEN g + 1 ELSE g
    OBVIOUS
  <2>0. GoodUpTo(h)'
    BY <1>1, <1>4, <1>g, <2>h, AddedGood
  <2>1. /\ lines'[n].after \in State
        /\ lines'[n].kind = "input" => lines'[n].val \in Values \cup {NoCommand}
    <3>1. lines'[n] \in Line
      BY <1>1, <1>4, <2>n DEF Added, TypeOK, EOF
    <3> QED
      BY <3>1 DEF Line
  <2>2. \A m \in 1..EOF : lines[m].after \in State /\ lines'[m] = lines[m]
    <3>1. \A m \in 1..EOF : lines[m] \in Line
      BY <1>1 DEF TypeOK, EOF
    <3> QED
      BY <1>4, <3>1 DEF Line, Added
  <2>a. CASE h = g
    <3>1. \A i, j \in 1..h : i <= j => Prefix(lines'[i].after, lines'[j].after)
      BY <1>1, <1>h, <1>g, <2>2, <2>a
    <3> QED
      BY <2>0, <3>1 DEF AfterGrows
  <2>b. CASE h # g
    <3>1. g = EOF /\ lines'[n].kind # "spoilt" /\ h = n
      BY <2>b, <2>h, <2>n
    <3>2. lines'[n].after = IF lines'[n].kind = "input"
                            THEN Append(lines'[EOF].after, lines'[n].val) ELSE lines'[EOF].after
      <4>1. n \in 2..EOF' /\ n - 1 = EOF
        BY <1>1, <1>4, <2>n DEF Added
      <4>2. lines'[n].after =
              CASE lines'[n].kind = "input" -> Append(lines'[n - 1].after, lines'[n].val)
                [] lines'[n].kind = "spoilt" -> <<Garble>>
                [] OTHER -> lines'[n - 1].after
        BY <4>1 DEF Coherent, FileSound, AfterFollows
      <4> QED
        BY <3>1, <4>1, <4>2
    <3>4. \A m \in 1..EOF : Prefix(lines[m].after, lines[EOF].after)
      BY <1>1, <1>g, <3>1
    <3>5. \A m \in 1..EOF : Prefix(lines[m].after, lines'[n].after)
      <4>1. CASE lines'[n].kind = "input"
        <5>1. lines'[n].val \in Values \cup {Garble}
          <6>1. lines'[n].after = Append(lines[EOF].after, lines'[n].val)
            BY <1>1, <2>2, <3>2, <4>1
          <6>2. lines[EOF].after \in Seq(Values \cup {Garble})
                /\ lines'[n].after \in Seq(Values \cup {Garble})
            BY <1>1, <2>1, <2>2 DEF State
          <6> QED
            BY <6>1, <6>2
        <5> QED
          BY <1>1, <2>2, <3>2, <3>4, <4>1, <5>1, PrefixOfAppended
      <4>2. CASE lines'[n].kind # "input"
        BY <1>1, <2>2, <3>2, <3>4, <4>2
      <4> QED
        BY <4>1, <4>2
    <3>6. Prefix(lines'[n].after, lines'[n].after)
      BY <2>1, PrefixOfItself
    <3>7. 1..h = 1..EOF \cup {n}
      BY <1>1, <2>n, <3>1
    <3>8. ASSUME NEW i \in 1..h, NEW j \in 1..h, i <= j
          PROVE  Prefix(lines'[i].after, lines'[j].after)
      <4>1. CASE j \in 1..EOF
        BY <1>1, <1>g, <2>2, <3>1, <3>8, <4>1
      <4>2. CASE j = n
        BY <2>2, <3>5, <3>6, <3>7, <4>2
      <4> QED
        BY <3>7, <4>1, <4>2
    <3> QED
      BY <2>0, <3>8 DEF AfterGrows
  <2> QED
    BY <2>a, <2>b
<1> QED
  BY <1>2, <1>3, <1>4, LinesChange DEF vars, fileVars

-----------------------------------------------------------------------------
(* What a step is to the history. *)

Hist  == After(GoodLines)
Over  == lines[EOF].kind = "Q" /\ ~Spoilt
Knows == [p \in Procs |-> Known(p)]

Tale == <<Hist, Over, Spoilt, Knows>>

\* p has strayed from the history: the recovery count or the file tells.
Astray(p) == CountStale(p) \/ ~Good(view[p].eogs)

\* The file says what it did.
SameTale ==
  /\ UNCHANGED <<Hist, Over, Spoilt, rcount>>
  /\ UNCHANGED lines \/ Added

LEMMA SameLines ==
  ASSUME UNCHANGED <<lines, rcount>>
  PROVE  SameTale
BY DEF SameTale, Hist, Over, Spoilt, GoodLines, Good, After, EOF

\* A step of p changes what p knows and, with the recovery count unchanged and
\* nothing cut off, nothing that the others do.
LEMMA KnowsOne ==
  ASSUME Coherent, NEW p \in Procs, OthersKeep(p), rcount' = rcount, UNCHANGED lines \/ Added
  PROVE  /\ Knows' = [Knows EXCEPT ![p] = Known(p)']
         /\ Knows[p] = Known(p)
<1>1. ASSUME NEW q \in Procs \ {p} PROVE Known(q)' = Known(q)
  <2>1. InGame(q)' = InGame(q) /\ CountStale(q)' = CountStale(q) /\ view'[q] = view[q]
    BY <1>1 DEF OthersKeep, InGame, CountStale
  <2>2. CASE ~InGame(q) \/ CountStale(q)
    BY <2>1, <2>2 DEF Known
  <2>3. CASE InGame(q) /\ ~CountStale(q)
    <3>1. PICK n : n = view[q].eogs
      OBVIOUS
    <3>2. n \in 1..EOF /\ EOF \in Nat
      BY <1>1, <2>3, <3>1 DEF Coherent, ViewSound, PlaceKnown, TypeOK, EOF
    <3>3. Good(n)' <=> Good(n)
      BY <3>2, SameGood DEF Added
    <3> QED
      BY <2>1, <2>3, <3>1, <3>3 DEF Known
  <2> QED
    BY <2>2, <2>3
<1> QED
  BY <1>1 DEF Knows

\* A process leaves the game, or goes on knowing what it does.
LEMMA LeaveOrStay ==
  ASSUME Coherent, NEW p \in Procs, OthersKeep(p), SameTale, ~InGame(p)' \/ Known(p)' = Known(p)
  PROVE  [History!Next]_Tale
<1>1. Knows' = [Knows EXCEPT ![p] = Known(p)'] /\ Knows[p] = Known(p)
  BY KnowsOne DEF SameTale
<1>2. CASE Known(p)' = Known(p)
  <2>1. Knows' = Knows
    BY <1>1, <1>2 DEF Knows
  <2> QED
    BY <2>1 DEF SameTale, Tale
<1>3. CASE ~InGame(p)' /\ Known(p)' # Known(p)
  <2>1. Known(p)' = History!Out
    BY <1>3 DEF Known, History!Out
  <2>2. History!Leave(p)
    BY <1>1, <1>3, <2>1 DEF History!Leave, SameTale, Hist, Over, Knows
  <2> QED
    BY <2>2 DEF History!Next
<1> QED
  BY <1>2, <1>3

\* Who has strayed stays so.
LEMMA LostTale ==
  ASSUME Coherent, NEW p \in Procs, OthersKeep(p), SameTale, InGame(p), InGame(p)',
         Astray(p), Astray(p)'
  PROVE  [History!Next]_Tale
<1>1. Known(p)' = Known(p)
  BY DEF Known, Astray
<1> QED
  BY <1>1, LeaveOrStay

LEMMA KnownGame ==
  ASSUME NEW p \in Procs, InGame(p), ~Astray(p)
  PROVE  Known(p) = History!Played(view[p].engine)
BY DEF Known, Astray, History!Played

LEMMA KnownLost ==
  ASSUME NEW p \in Procs, InGame(p), Astray(p)
  PROVE  Known(p) = History!Lost
BY DEF Known, Astray, History!Lost

\* The engine of a process that plays is where the history is, after n lines.
LEMMA EngineBegins ==
  ASSUME Coherent, AfterGrows
  PROVE  /\ GoodUpTo(GoodLines) /\ GoodLines \in 1..EOF /\ (Spoilt <=> GoodLines < EOF)
         /\ \A n \in 1..GoodLines :
              /\ After(n) = SubSeq(Hist, 1, Len(After(n)))
              /\ Len(After(n)) \in 0..Len(Hist)
              /\ After(n) \in State
         /\ Hist \in State /\ EOF \in Nat
<1>1. EOF \in Nat /\ EOF = Len(lines) /\ TypeOK
  BY DEF Coherent, TypeOK, EOF
<1>g. PICK g : /\ GoodUpTo(g)
               /\ \A m, n \in 1..g : m <= n => Prefix(lines[m].after, lines[n].after)
  BY DEF AfterGrows
<1>2. GoodLines = g /\ (Spoilt <=> g < EOF) /\ g \in 1..EOF
  BY <1>1, <1>g, GoodLinesIs DEF GoodUpTo
<1>3. \A n \in 1..EOF : After(n) = lines[n].after /\ After(n) \in State
  <2> TAKE n \in 1..EOF
  <2>1. After(n) = lines[n].after
    BY <1>1 DEF After
  <2> QED
    BY <1>1, <2>1, AfterType DEF TypeOK
<1>4. Hist = lines[g].after /\ Hist \in State
  BY <1>2, <1>3 DEF Hist
<1>5. ASSUME NEW n \in 1..g
      PROVE  /\ After(n) = SubSeq(Hist, 1, Len(After(n)))
             /\ Len(After(n)) \in 0..Len(Hist)
             /\ After(n) \in State
  <2>1. n \in 1..EOF /\ n <= g /\ g \in 1..g
    BY <1>1, <1>2
  <2>2. Prefix(lines[n].after, lines[g].after)
    BY <1>g, <2>1
  <2>3. After(n) = lines[n].after /\ After(n) \in State
    BY <1>3, <2>1
  <2>4. Len(After(n)) \in Nat /\ Len(Hist) \in Nat
    BY <1>4, <2>3 DEF State
  <2> QED
    BY <1>4, <2>2, <2>3, <2>4 DEF Prefix
<1> QED
  BY <1>1, <1>2, <1>4, <1>5, <1>g

\* A process opens the game: what it knows is a beginning of the history, or it
\* is lost because the file was recovered while it was read, or is spoilt.
LEMMA OpenStep ==
  ASSUME Coherent, AfterGrows, NEW p \in Procs, OthersKeep(p), UNCHANGED <<lines, rcount>>,
         ~InGame(p), InGame(p)',
         CountStale(p)' \/ (view'[p].eogs \in 1..EOF /\ view'[p].engine = After(view'[p].eogs))
  PROVE  [History!Next]_Tale
<1>0. SameTale
  BY SameLines
<1>1. Knows' = [Knows EXCEPT ![p] = Known(p)'] /\ Knows[p] = Known(p)
  BY KnowsOne
<1>2. Known(p) = History!Out
  BY DEF Known, History!Out
<1>3. Known(p)' = History!Lost \/ \E k \in 0..Len(Hist) : Known(p)' = History!Begins(k)
  <2>1. CASE Astray(p)'
    BY <2>1 DEF Known, Astray, History!Lost
  <2>2. CASE ~Astray(p)'
    <3>1. PICK n : n = view'[p].eogs
      OBVIOUS
    <3>2. n \in 1..EOF /\ view'[p].engine = After(n) /\ Good(n)'
      BY <2>2, <3>1 DEF Astray
    <3>3. Good(n)
      BY <3>2 DEF Good
    <3>4. n \in 1..GoodLines
      BY <3>2, <3>3, EngineBegins DEF GoodUpTo
    <3>5. Known(p)' = [at |-> "game", played |-> After(n)]
      BY <2>2, <3>2 DEF Known, Astray
    <3>6. /\ After(n) = SubSeq(Hist, 1, Len(After(n)))
          /\ Len(After(n)) \in 0..Len(Hist)
      BY <3>4, EngineBegins
    <3>7. Known(p)' = History!Begins(Len(After(n)))
      BY <3>5, <3>6 DEF History!Begins, History!Played, Hist
    <3> QED
      BY <3>6, <3>7
  <2> QED
    BY <2>1, <2>2
<1>4. History!Open(p)
  BY <1>0, <1>1, <1>2, <1>3 DEF History!Open, SameTale, Hist, Over, Knows
<1> QED
  BY <1>4 DEF History!Next

\* A process replays an input line.
LEMMA FollowStep ==
  ASSUME Coherent, AfterGrows, NEW p \in Procs, OthersKeep(p), UNCHANGED <<lines, rcount>>,
         InGame(p), InGame(p)',
         view'[p].expected = view[p].expected, HasLine(view[p].eogs),
         view'[p].eogs = view[p].eogs + 1,
         LineAt(view[p].eogs).kind = "input",
         view'[p].engine = Append(view[p].engine, LineAt(view[p].eogs).val)
  PROVE  [History!Next]_Tale
<1>0. SameTale
  BY SameLines
<1>n. PICK n : n = view[p].eogs
  OBVIOUS
<1> DEFINE s == After(n)
           t == After(n + 1)
<1>1. Knows' = [Knows EXCEPT ![p] = Known(p)'] /\ Knows[p] = Known(p)
  BY KnowsOne
<1>2. CountStale(p)' = CountStale(p)
  BY DEF CountStale
<1>a. n \in Nat
  BY <1>n DEF Coherent, TypeOK, View
<1>b. Good(n + 1)' <=> Good(n)
  <2>1. 1..(n + 1) = 1..n \cup {n + 1} /\ lines[n + 1].kind # "spoilt"
    BY <1>a, <1>n DEF LineAt
  <2> QED
    BY <2>1 DEF Good
<1>c. Astray(p)' = Astray(p)
  BY <1>2, <1>b, <1>n DEF Astray
<1>3. CASE Astray(p)
  BY <1>0, <1>3, <1>c, LostTale
<1>4. CASE ~Astray(p)
  <2>1. /\ EOF \in Nat /\ n \in 1..EOF /\ n + 1 \in 1..EOF
        /\ view[p].engine = s
    BY <1>4, <1>n DEF Coherent, TypeOK, EOF, ViewSound, PlaceKnown, HasLine, Astray
  <2>g. n + 1 \in 1..GoodLines /\ n \in 1..GoodLines
    <3>1. Good(n + 1)
      BY <1>4, <1>b, <1>n DEF Astray, Good
    <3> QED
      BY <2>1, <3>1, EngineBegins DEF GoodUpTo
  <2>2. t = Append(s, LineAt(n).val)
    <3>m. PICK m \in Nat : m = n + 1
      BY <2>1
    <3>2. m \in 2..EOF /\ m - 1 = n
      BY <2>1, <3>m
    <3>3. lines[m].kind = "input" /\ LineAt(n).val = lines[m].val
      BY <1>n, <3>m DEF LineAt
    <3>4. lines[m].after = Append(lines[m - 1].after, lines[m].val)
      BY <3>2, <3>3 DEF Coherent, FileSound, AfterFollows
    <3> QED
      BY <2>1, <3>2, <3>3, <3>4, <3>m DEF After, EOF
  <2>3. /\ s = SubSeq(Hist, 1, Len(s)) /\ t = SubSeq(Hist, 1, Len(t))
        /\ Len(t) \in 0..Len(Hist) /\ s \in State /\ t \in State
    BY <2>g, EngineBegins
  <2>4. Len(s) = Len(t) - 1
    <3>1. s \in Seq(Values \cup {Garble}) /\ t \in Seq(Values \cup {Garble})
      BY <2>3 DEF State
    <3> QED
      BY <2>2, <3>1
  <2>5. Len(t) \in 1..Len(Hist)
    <3>1. Len(s) \in Nat
      BY <2>3 DEF State
    <3> QED
      BY <2>3, <2>4, <3>1
  <2>6. Known(p) = History!Begins(Len(t) - 1)
    BY <1>4, <2>1, <2>3, <2>4, KnownGame DEF History!Begins, Hist
  <2>7. Known(p)' = History!Begins(Len(t))
    <3>1. view'[p].engine = t
      BY <2>1, <2>2, <1>n
    <3>2. Known(p)' = History!Played(view'[p].engine)
      BY <1>4, <1>c DEF Known, Astray, History!Played
    <3> QED
      BY <2>3, <3>1, <3>2 DEF History!Begins, Hist
  <2> HIDE DEF s, t
  <2>8. History!Follow(p)
    BY <1>0, <1>1, <2>5, <2>6, <2>7 DEF History!Follow, SameTale, Hist, Over, Knows
  <2> QED
    BY <2>8 DEF History!Next
<1> QED
  BY <1>3, <1>4

\* A recovery: everybody in the game was there at the old recovery count.
LEMMA RewindStep ==
  ASSUME Coherent, Coherent', AfterGrows, NEW p \in Procs, OthersKeep(p), ~InGame(p), ~InGame(p)',
         rcount' = rcount + 1, NEW r \in 1..EOF, EOF' = r, \A n \in 1..r : lines'[n] = lines[n]
  PROVE  [History!Next]_Tale
<1>1. EOF \in Nat /\ r \in 1..Len(lines) /\ r \in 1..Len(lines')
  BY DEF Coherent, TypeOK, EOF
<1>g. PICK g : g = GoodLines
  OBVIOUS
<1>h. PICK h : h = IF g <= r THEN g ELSE r
  OBVIOUS
<1>a. GoodUpTo(g) /\ g \in 1..EOF /\ (Spoilt <=> g < EOF)
  BY <1>g, EngineBegins
<1>b. GoodUpTo(h)'
  BY <1>1, <1>a, <1>h, CutGood
<1>c. GoodLines' = h /\ (Spoilt' <=> h < r) /\ h \in 1..g /\ h \in 1..r
  <2>1. EOF' \in Nat
    BY <1>1
  <2>2. GoodLines' = h /\ (Spoilt' <=> h < EOF')
    BY <1>b, <2>1, GoodLinesNext
  <2> QED
    BY <1>1, <1>a, <1>h, <2>2
<1>2. Hist' = After(h)
  <2>1. h \in 1..Len(lines) /\ h \in 1..Len(lines') /\ lines'[h] = lines[h]
    BY <1>1, <1>c, <1>a
  <2> QED
    BY <1>c, <2>1 DEF Hist, After
<1>3. Hist' = SubSeq(Hist, 1, Len(After(h))) /\ Len(After(h)) \in 0..Len(Hist)
  BY <1>2, <1>c, <1>g, EngineBegins
<1>4. Over' => Over /\ Hist' = Hist
  <2> SUFFICES ASSUME Over' PROVE Over /\ Hist' = Hist
    OBVIOUS
  <2>1. lines'[r].kind = "Q" /\ lines[r].kind = "Q" /\ ~Spoilt'
    BY <1>1 DEF Over
  <2>2. r = EOF
    BY <1>1, <2>1 DEF Coherent, QuitIsLast
  <2>3. h = r /\ g = EOF /\ ~Spoilt
    BY <1>1, <1>a, <1>c, <1>h, <2>1, <2>2
  <2> QED
    BY <1>2, <1>g, <2>1, <2>2, <2>3 DEF Hist, Over
<1>s. Spoilt' => Spoilt /\ Hist' = Hist
  BY <1>1, <1>2, <1>a, <1>c, <1>g, <1>h DEF Hist
<1>5. \A q \in Procs : Known(q)' = IF Known(q) = History!Out THEN History!Out ELSE History!Lost
  <2> TAKE q \in Procs
  <2>1. CASE q = p
    BY <2>1 DEF Known, History!Out
  <2>2. CASE q # p
    <3>1. InGame(q)' = InGame(q) /\ view'[q] = view[q]
      BY <2>2 DEF OthersKeep, InGame
    <3>2. view[q].expected \in Nat /\ rcount \in Nat /\ view[q].expected <= rcount
      BY DEF Coherent, TypeOK, View, ControlSound
    <3>3. CountStale(q)'
      BY <3>1, <3>2 DEF CountStale
    <3> QED
      BY <3>1, <3>3 DEF Known, History!Out, History!Lost
  <2> QED
    BY <2>1, <2>2
<1>6. Knows' = [q \in Procs |-> IF Knows[q] = History!Out THEN History!Out ELSE History!Lost]
  BY <1>5 DEF Knows
<1>7. History!Rewind
  BY <1>3, <1>4, <1>6, <1>s DEF History!Rewind, Hist, Over, Knows
<1> QED
  BY <1>7 DEF History!Next

-----------------------------------------------------------------------------
(* Opening the game. *)

\* A step that moves one process alone.
LEMMA Moved ==
  ASSUME TypeOK, NEW p \in Procs, NEW place, NEW w,
         Goto(p, place), view' = [view EXCEPT ![p] = w]
  PROVE  OthersKeep(p) /\ pc'[p] = place /\ view'[p] = w
BY DEF TypeOK, Goto, OthersKeep

LEMMA ExitMoves ==
  ASSUME TypeOK, NEW p \in Procs, NEW place \in {"off", "restart"}, Exit(p, place)
  PROVE  OthersKeep(p) /\ ~InGame(p)'
BY Moved DEF Exit, InGame

\* A session that ends leaves the history.
LEMMA ExitTale ==
  ASSUME Coherent, NEW p \in Procs, NEW place \in {"off", "restart"}, Exit(p, place), SameTale
  PROVE  [History!Next]_Tale
BY ExitMoves, LeaveOrStay DEF Coherent

LEMMA RefusedTale ==
  ASSUME Coherent, NEW p \in Procs, UpdateRefused(p)
  PROVE  [History!Next]_Tale
<1>1. PICK place \in {"off", "restart"} : Exit(p, place)
  BY DEF UpdateRefused
<1>2. SameTale
  BY SameLines DEF UpdateRefused, fileVars
<1> QED
  BY <1>1, <1>2, ExitTale

\* The recovery menu opens: the process plays no more.
LEMMA AskRecoveryTale ==
  ASSUME Coherent, NEW p \in Procs, NEW r, AskRecovery(p, r), SameTale
  PROVE  [History!Next]_Tale
<1>1. OthersKeep(p) /\ pc'[p] = "recover"
  BY Moved DEF Coherent, AskRecovery
<1> QED
  BY <1>1, LeaveOrStay DEF InGame

\* A recovery goes back to a line of the file.
LEMMA TruncateTale ==
  ASSUME Coherent, Coherent', AfterGrows, NEW p \in Procs, pc[p] \in {"recover", "unquit"},
         ~CountStale(p), Truncate(p), OthersKeep(p), ~InGame(p)'
  PROVE  [History!Next]_Tale
<1>1. view[p].roff \in 1..EOF /\ TypeOK
  BY DEF Coherent, ViewSound
<1>2. EOF' = view[p].roff /\ \A n \in 1..view[p].roff : lines'[n] = lines[n]
  BY <1>1, TruncateLines DEF Truncate
<1>3. ~InGame(p)
  BY DEF InGame
<1> QED
  BY <1>1, <1>2, <1>3, RewindStep DEF Truncate

LEMMA UndoQuitTale ==
  ASSUME Coherent, Coherent', AfterGrows, NEW p \in Procs, UndoQuit(p)
  PROVE  [History!Next]_Tale
<1>1. CASE Exit(p, "restart") /\ UNCHANGED fileVars
  BY <1>1, SameLines, ExitTale DEF fileVars
<1>2. CASE /\ ~CountStale(p)
           /\ Truncate(p)
           /\ view' = [view EXCEPT ![p].expected = @ + 1]
           /\ Goto(p, "sync")
  <2>1. OthersKeep(p) /\ pc'[p] = "sync"
    BY <1>2, Moved DEF Coherent
  <2> QED
    BY <1>2, <2>1, TruncateTale DEF UndoQuit, InGame
<1> QED
  BY <1>1, <1>2 DEF UndoQuit

\* log_sync ends: the engine is where a save line leads.
LEMMA SyncEndTale ==
  ASSUME Coherent, Coherent', AfterGrows, NEW p \in Procs, SyncEnd(p)
  PROVE  [History!Next]_Tale
<1>1. SameTale /\ pc[p] = "scan" /\ TypeOK /\ UNCHANGED <<lines, rcount>> /\ EOF' = EOF
  BY SameLines DEF SyncEnd, fileVars, Coherent, EOF
<1>2. CASE partial
  <2>1. AskRecovery(p, EOF)
    BY <1>2 DEF SyncEnd, AskRecovery
  <2> QED
    BY <1>1, <2>1, AskRecoveryTale
<1>3. CASE ~partial
  <2>1. OthersKeep(p) /\ pc'[p] = "ready"
    BY <1>1, <1>3, Moved DEF SyncEnd
  <2>2. ~InGame(p) /\ InGame(p)'
    BY <1>1, <2>1 DEF InGame
  <2>3. ~CountStale(p)' => view'[p].eogs \in 1..EOF /\ view'[p].engine = After(view'[p].eogs)
    <3>1. ~CountStale(p)' => view'[p].eogs \in 1..EOF
                             /\ view'[p].engine = After(view[p].eogs)'
      BY <1>1, <2>2 DEF Coherent, ViewSound, PlaceKnown
    <3>2. After(view[p].eogs)' = After(view'[p].eogs)
      BY <1>1 DEF After
    <3> QED
      BY <3>1, <3>2
  <2> QED
    BY <1>1, <2>1, <2>2, <2>3, OpenStep
<1> QED
  BY <1>2, <1>3

LEMMA LoadTale ==
  ASSUME Coherent, Coherent', AfterGrows, NEW p \in Procs, Load(p)
  PROVE  [History!Next]_Tale
<1>1. TypeOK
  BY DEF Coherent
<1>2. CASE PlayGame(p) \/ UndoQuitRead(p) \/ SyncHeader(p) \/ SyncBackup(p) \/ SyncForward(p)
  <2>1. OthersKeep(p)
    BY <1>1, <1>2
    DEF PlayGame, UndoQuitRead, SyncHeader, SyncBackup, SyncForward, TypeOK, Goto, OthersKeep
  <2>2. ~InGame(p)'
    BY <1>1, <1>2
    DEF PlayGame, UndoQuitRead, SyncHeader, SyncBackup, SyncForward, TypeOK, Goto, InGame
  <2>3. SameTale
    BY <1>2, SameLines
    DEF PlayGame, UndoQuitRead, SyncHeader, SyncBackup, SyncForward, fileVars
  <2> QED
    BY <2>1, <2>2, <2>3, LeaveOrStay
<1>3. CASE PlayGameOver(p) \/ DiffError(p)
  BY <1>3, SameLines, ExitTale DEF PlayGameOver, DiffError, fileVars
<1> QED
  BY <1>2, <1>3, UndoQuitTale, SyncEndTale DEF Load

-----------------------------------------------------------------------------
(* The turn. *)

\* The engine of a process stays where it is.
LEMMA StayTale ==
  ASSUME Coherent, NEW p \in Procs, OthersKeep(p), SameTale, InGame(p), InGame(p)',
         view'[p].engine = view[p].engine, view'[p].expected = view[p].expected,
         CountStale(p) \/ (Good(view[p].eogs)' <=> Good(view[p].eogs))
  PROVE  [History!Next]_Tale
<1>1. CountStale(p)' = CountStale(p)
  BY DEF CountStale, SameTale
<1>2. Known(p)' = Known(p)
  BY <1>1 DEF Known
<1> QED
  BY <1>2, LeaveOrStay

\* It stays at the same line.
LEMMA RestTale ==
  ASSUME Coherent, NEW p \in Procs, OthersKeep(p), UNCHANGED <<lines, rcount>>,
         InGame(p), InGame(p)', view'[p].engine = view[p].engine,
         view'[p].expected = view[p].expected, view'[p].eogs = view[p].eogs
  PROVE  [History!Next]_Tale
<1>1. Good(view[p].eogs)' <=> Good(view[p].eogs)
  BY DEF Good
<1> QED
  BY <1>1, SameLines, StayTale

\* Where consuming a value takes a process.
LEMMA ConsumeMoves ==
  ASSUME Coherent, NEW p \in Procs, WantsLine(p) \/ Asking(p), NEW v \in Wanted(p), Consume(p, v)
  PROVE  /\ OthersKeep(p) /\ InGame(p) /\ InGame(p)'
         /\ view'[p].engine = Append(view[p].engine, v)
         /\ view'[p].eogs = view[p].eogs + 1
         /\ view'[p].expected = view[p].expected
<1> DEFINE w == Consumed(view[p], v)
           place == PlaceAfter(w)
<1>1. TypeOK /\ ControlSound(p) /\ view[p] \in View
  BY DEF Coherent, TypeOK
<1>2. /\ w.engine = Append(view[p].engine, v) /\ w.expected = view[p].expected
      /\ w.eogs = view[p].eogs + 1
  BY <1>1, WantedType, ConsumedType
<1>3. Goto(p, place) /\ view' = [view EXCEPT ![p] = w]
  BY DEF Consume
<1>4. place \in {"turn", "dead", "neutral"}
  BY PlaceAfterType
<1> HIDE DEF w, place
<1>5. OthersKeep(p) /\ pc'[p] = place /\ view'[p] = w
  BY <1>1, <1>3, Moved
<1> QED
  BY <1>2, <1>4, <1>5 DEF InGame, WantsLine, Asking

LEMMA ReplayTale ==
  ASSUME Coherent, AfterGrows, NEW p \in Procs, Replay(p)
  PROVE  [History!Next]_Tale
<1> DEFINE v == LineAt(view[p].eogs).val
<1>1. /\ WantsLine(p) /\ v \in Wanted(p) /\ Consume(p, v)
      /\ HasLine(view[p].eogs) /\ LineAt(view[p].eogs).kind = "input"
      /\ UNCHANGED <<lines, rcount>>
  BY DEF Replay, fileVars
<1>2. /\ OthersKeep(p) /\ InGame(p) /\ InGame(p)'
      /\ view'[p].engine = Append(view[p].engine, v)
      /\ view'[p].eogs = view[p].eogs + 1
      /\ view'[p].expected = view[p].expected
  BY <1>1, ConsumeMoves
<1> QED
  BY <1>1, <1>2, FollowStep

\* Who may append knows the whole history, and that it is not over; or else the
\* file is spoilt, and nothing that it appends tells any more.
LEMMA WriterTells ==
  ASSUME Coherent, AfterGrows, NEW p \in Procs, InGame(p), pc[p] \notin {"over", "ended"},
         MayUpdate(p)
  PROVE  /\ ~Over /\ (Astray(p) <=> Spoilt) /\ view[p].eogs = EOF
         /\ ~Spoilt => view[p].engine = Hist /\ Known(p) = History!Played(Hist)
<1>1. view[p].eogs = EOF /\ view[p].engine = After(EOF) /\ PlaceKnown(p) /\ EOF \in Nat \ {0}
  BY WriterKnows
<1>2. \A n \in 1..EOF : lines[n].kind # "Q"
  BY <1>1 DEF PlaceKnown
<1>3. ~Over
  BY <1>1, <1>2 DEF Over
<1>4. Astray(p) <=> Spoilt
  BY <1>1 DEF Astray, MayUpdate, Spoilt
<1>5. ~Spoilt => view[p].engine = Hist
  BY <1>1 DEF Hist, GoodLines
<1> QED
  BY <1>1, <1>3, <1>4, <1>5, KnownGame

\* What a line adds to the history.
LEMMA LineTells ==
  ASSUME Coherent, AfterGrows, NEW l, AppendLine(l), ~Over
  PROVE  /\ Added /\ rcount' = rcount
         /\ Spoilt \/ l.kind = "spoilt" =>
              Hist' = Hist /\ ~Over' /\ Spoilt' /\ ~Good(EOF)'
         /\ ~Spoilt /\ l.kind # "spoilt" =>
              Hist' = l.after /\ (Over' <=> l.kind = "Q") /\ ~Spoilt' /\ Good(EOF)'
<1>1. Added /\ lines'[EOF + 1] = l /\ rcount' = rcount /\ TypeOK
  BY AppendAdds DEF AppendLine, Coherent
<1>e. PICK e \in Nat : e = EOF
  BY <1>1 DEF TypeOK, EOF
<1>g. PICK g : g = GoodLines
  OBVIOUS
<1>2. GoodUpTo(g) /\ g \in 1..e /\ (Spoilt <=> g < e)
  BY <1>e, <1>g, EngineBegins
<1>3. EOF' = e + 1 /\ EOF' = Len(lines') /\ lines'[e + 1] = l /\ \A n \in 1..e : lines'[n] = lines[n]
  BY <1>1, <1>e DEF Added, EOF
<1>h. PICK h : h = IF g = EOF /\ lines'[EOF + 1].kind # "spoilt" THEN g + 1 ELSE g
  OBVIOUS
<1>4. GoodUpTo(h)'
  BY <1>1, <1>2, <1>e, <1>h, AddedGood
<1>5. GoodLines' = h /\ (Spoilt' <=> h < e + 1)
  BY <1>3, <1>4, GoodLinesNext
<1>6. Spoilt' <=> ~Good(EOF)'
  BY DEF Spoilt
<1>7. CASE Spoilt \/ l.kind = "spoilt"
  <2>1. h = g /\ Spoilt'
    BY <1>2, <1>3, <1>5, <1>7, <1>e, <1>h
  <2>2. g \in 1..Len(lines) /\ g \in 1..Len(lines') /\ lines'[g] = lines[g]
    BY <1>2, <1>3, <1>e DEF EOF
  <2>3. Hist' = Hist
    BY <1>5, <1>g, <2>1, <2>2 DEF Hist, After
  <2> QED
    BY <1>1, <1>6, <1>7, <2>1, <2>3 DEF Over
<1>8. CASE ~Spoilt /\ l.kind # "spoilt"
  <2>1. h = e + 1 /\ ~Spoilt'
    BY <1>2, <1>3, <1>5, <1>8, <1>e, <1>h
  <2>2. Hist' = l.after
    BY <1>3, <1>5, <2>1 DEF Hist, After
  <2>3. Over' <=> l.kind = "Q"
    BY <1>3, <2>1 DEF Over
  <2> QED
    BY <1>1, <1>6, <1>8, <2>1, <2>2, <2>3
<1> QED
  BY <1>7, <1>8

\* A line that a process appends to a spoilt file.
LEMMA SpoiltTale ==
  ASSUME Coherent, AfterGrows, NEW p \in Procs, InGame(p), pc[p] \notin {"over", "ended"},
         MayUpdate(p), OthersKeep(p), NEW l, AppendLine(l), Spoilt,
         ~InGame(p)' \/ view'[p].eogs = EOF + 1
  PROVE  [History!Next]_Tale
<1>1. ~Over /\ Astray(p)
  BY WriterTells
<1>2. SameTale /\ ~Good(EOF)' /\ EOF' = EOF + 1
  BY <1>1, LineTells DEF SameTale, Over, Added
<1>3. CASE ~InGame(p)'
  BY <1>2, <1>3, LeaveOrStay
<1>4. CASE InGame(p)'
  <2>1. Good(view[p].eogs)' <=> Good(EOF)'
    BY <1>2, <1>4 DEF Good
  <2>2. Astray(p)'
    BY <1>2, <2>1 DEF Astray
  <2> QED
    BY <1>1, <1>2, <1>4, <2>2, LostTale
<1> QED
  BY <1>3, <1>4

\* A player records an input: the history goes on.
LEMMA RecordTale ==
  ASSUME Coherent, Coherent', AfterGrows, NEW p \in Procs, NEW v \in Values, Record(p, v)
  PROVE  [History!Next]_Tale
<1>1. CASE UpdateRefused(p)
  BY <1>1, RefusedTale
<1>2. CASE /\ MayUpdate(p)
           /\ AppendLine(InputLine(v))
           /\ Consume(p, v)
  <2>1. Asking(p) /\ v \in Wanted(p) /\ pc[p] \notin {"over", "ended"}
    BY DEF Record, Asking
  <2>2. /\ OthersKeep(p) /\ InGame(p) /\ InGame(p)'
        /\ view'[p].engine = Append(view[p].engine, v)
        /\ view'[p].eogs = view[p].eogs + 1
        /\ view'[p].expected = view[p].expected
    BY <1>2, <2>1, ConsumeMoves
  <2>3. /\ ~Over /\ view[p].eogs = EOF
        /\ ~Spoilt => view[p].engine = Hist /\ Known(p) = History!Played(Hist)
    BY <1>2, <2>1, <2>2, WriterTells
  <2>a. CASE Spoilt
    BY <1>2, <2>1, <2>2, <2>3, <2>a, SpoiltTale
  <2>b. CASE ~Spoilt
    <3>1. InputLine(v).after = Append(After(EOF), v) /\ InputLine(v).kind = "input"
      BY DEF InputLine
    <3>2. Hist = After(EOF)
      BY <2>b DEF Hist, GoodLines
    <3>3. /\ Added /\ rcount' = rcount
          /\ Hist' = Append(Hist, v) /\ ~Over' /\ ~Spoilt' /\ Good(EOF)'
      BY <1>2, <2>3, <2>b, <3>1, <3>2, LineTells
    <3>4. Knows' = [Knows EXCEPT ![p] = Known(p)'] /\ Knows[p] = Known(p)
      BY <2>2, <3>3, KnowsOne
    <3>5. Known(p)' = History!Played(Hist')
      <4>1. ~CountStale(p)'
        BY <1>2, <2>2, <3>3 DEF MayUpdate, CountStale
      <4>2. Good(view[p].eogs)'
        BY <2>2, <2>3, <3>3 DEF Good, Added
      <4> QED
        BY <2>2, <2>3, <2>b, <3>3, <4>1, <4>2 DEF Known, History!Played
    <3>o. Over' = Over /\ Spoilt' = Spoilt
      BY <2>3, <2>b, <3>3 DEF Over, Spoilt
    <3>6. History!Play(p, v)
      BY <2>3, <2>b, <3>3, <3>4, <3>5, <3>o DEF History!Play, History!MayAdd, Hist, Over, Knows
    <3> QED
      BY <3>6 DEF History!Next
  <2> QED
    BY <2>a, <2>b
<1> QED
  BY <1>1, <1>2 DEF Record

\* log_replay_save_line adopts what another process saved: the same game.
LEMMA AdoptTale ==
  ASSUME Coherent, Coherent', AfterGrows, NEW p \in Procs, ReplaySaveLine(p), IsSave(LineAt(view[p].eogs))
  PROVE  [History!Next]_Tale
<1>0. /\ TypeOK /\ view[p] \in View /\ EOF \in Nat /\ view[p].eogs \in Nat
      /\ pc[p] = "saveline" /\ HasLine(view[p].eogs)
  <2>1. TypeOK /\ pc[p] = "saveline" /\ HasLine(view[p].eogs)
    BY DEF ReplaySaveLine, Coherent
  <2>2. view[p] \in View /\ EOF \in Nat
    BY <2>1 DEF TypeOK, EOF
  <2> QED
    BY <2>1, <2>2 DEF View
<1>n. PICK n \in Nat : n = view[p].eogs
  BY <1>0
<1>1. n \in 0..(EOF - 1) /\ HasLine(n) /\ IsSave(LineAt(n))
  BY <1>0, <1>n DEF HasLine
<1> DEFINE w == Adopt(view[p], n)
<1>2. SameTale /\ lines' = lines /\ rcount' = rcount
  BY SameLines DEF ReplaySaveLine, fileVars
<1>3. w \in View /\ w.bsl = n /\ w.expected = view[p].expected
  BY <1>0, <1>1, AdoptFields
<1>4. view' = [view EXCEPT ![p] = Loaded(w)] /\ Goto(p, "ready")
  BY <1>1, <1>n DEF ReplaySaveLine
<1> HIDE DEF w
<1>5. /\ OthersKeep(p) /\ pc'[p] = "ready" /\ view'[p].eogs = n + 1
      /\ view'[p].expected = view[p].expected
  <2>1. OthersKeep(p) /\ pc'[p] = "ready" /\ view'[p] = Loaded(w)
    BY <1>0, <1>4, Moved
  <2>2. Loaded(w).eogs = n + 1 /\ Loaded(w).expected = w.expected
    BY <1>0, <1>1, <1>3, LoadedType
  <2> QED
    BY <1>3, <2>1, <2>2
<1>6. InGame(p) /\ InGame(p)'
  BY <1>0, <1>5 DEF InGame
<1>7. CountStale(p)' = CountStale(p)
  BY <1>2, <1>5 DEF CountStale, SameTale
<1>g. (Good(view[p].eogs) <=> Good(n)) /\ (Good(view[p].eogs)' <=> Good(n + 1))
  BY <1>2, <1>5, <1>n DEF Good
<1>a. Good(n + 1) <=> Good(n) /\ lines[n + 1].kind # "spoilt"
  <2>1. 1..(n + 1) = 1..n \cup {n + 1}
    BY <1>1
  <2> QED
    BY <2>1 DEF Good
<1>8. CASE CountStale(p) \/ ~Good(n)
  BY <1>2, <1>5, <1>6, <1>7, <1>8, <1>a, <1>g, LostTale DEF Astray
<1>9. CASE ~CountStale(p) /\ Good(n)
  <2>1. view[p].engine = After(n) /\ n \in 1..(EOF - 1) /\ n + 1 \in 2..EOF /\ (n + 1) - 1 = n
    BY <1>0, <1>1, <1>n, <1>6, <1>9 DEF Coherent, ViewSound, PlaceKnown
  <2>2. view'[p].engine = After(n + 1)
    <3>1. view'[p].engine = After(view[p].eogs)'
      BY <1>6, <1>7, <1>9 DEF Coherent, ViewSound, PlaceKnown
    <3>2. After(view[p].eogs)' = After(n + 1)
      BY <1>2, <1>5 DEF After
    <3> QED
      BY <3>1, <3>2
  <2>m. PICK m \in Nat : m = n + 1
    BY <2>1
  <2>a. CASE lines[n + 1].kind = "spoilt"
    <3>1. GoodLines = n /\ Spoilt
      <4>1. ~(m <= GoodLines) /\ n <= GoodLines /\ GoodLines \in 1..EOF
        BY <1>9, <1>a, <2>1, <2>a, <2>m, EngineBegins DEF GoodUpTo
      <4> QED
        BY <2>1, <2>m, <4>1, EngineBegins
    <3>2. Known(p) = History!Played(Hist) /\ Known(p)' = History!Lost
      BY <1>6, <1>9, <1>a, <1>g, <2>1, <2>a, <3>1
      DEF Known, Hist, History!Played, History!Lost
    <3>3. Knows' = [Knows EXCEPT ![p] = Known(p)'] /\ Knows[p] = Known(p)
      BY <1>2, <1>5, KnowsOne
    <3>4. History!Stray(p)
      BY <1>2, <3>1, <3>2, <3>3 DEF History!Stray, SameTale, Hist, Over, Knows
    <3> QED
      BY <3>4 DEF History!Next
  <2>b. CASE lines[n + 1].kind # "spoilt"
    <3>1. lines[m].kind # "input" /\ lines[m].kind # "spoilt"
      BY <1>1, <2>b, <2>m DEF LineAt, IsSave
    <3>2. m \in 2..EOF /\ m - 1 = n
      BY <2>1, <2>m
    <3>3. lines[m].after = lines[m - 1].after
      BY <3>1, <3>2 DEF Coherent, FileSound, AfterFollows
    <3>4. After(n + 1) = After(n)
      BY <1>0, <2>1, <2>m, <3>2, <3>3 DEF After, EOF
    <3> QED
      BY <1>2, <1>5, <1>6, <1>9, <1>a, <1>g, <2>1, <2>2, <2>b, <3>4, StayTale
  <2> QED
    BY <2>a, <2>b
<1> QED
  BY <1>8, <1>9

\* Nothing to adopt: the process goes on.
LEMMA GoesOnTale ==
  ASSUME Coherent, NEW p \in Procs, pc[p] = "saveline", Goto(p, "ready"),
         view' = [view EXCEPT ![p].cmd = NoCommand], UNCHANGED <<lines, rcount>>
  PROVE  [History!Next]_Tale
<1>1. TypeOK /\ view[p] \in View
  BY DEF Coherent, TypeOK
<1>2. /\ OthersKeep(p) /\ pc'[p] = "ready"
      /\ view'[p] = [view[p] EXCEPT !.cmd = NoCommand]
  BY <1>1, Moved
<1>3. /\ view'[p].engine = view[p].engine /\ view'[p].expected = view[p].expected
      /\ view'[p].eogs = view[p].eogs
  BY <1>1, <1>2 DEF View
<1>4. InGame(p) /\ InGame(p)'
  BY <1>2 DEF InGame
<1> QED
  BY <1>2, <1>3, <1>4, RestTale

LEMMA ReadLineTale ==
  ASSUME Coherent, Coherent', AfterGrows, NEW p \in Procs, ReadLine(p)
  PROVE  [History!Next]_Tale
<1>1. TypeOK
  BY DEF Coherent
<1>2. CASE Ask(p) \/ ServerCancel(p)
  <2>1. UNCHANGED <<lines, rcount, view>> /\ OthersKeep(p)
    BY <1>1, <1>2 DEF Ask, ServerCancel, fileVars, OthersKeep, Goto, TypeOK
  <2>2. InGame(p) /\ InGame(p)'
    BY <1>1, <1>2 DEF Ask, ServerCancel, WantsLine, Asking, InGame, Goto, TypeOK
  <2> QED
    BY <2>1, <2>2, RestTale
<1>3. CASE ReplayQuit(p) \/ RecoverQuitStuck(p)
  BY <1>3, SameLines, ExitTale DEF ReplayQuit, RecoverQuitStuck, fileVars
<1>4. CASE ReplayPartial(p)
  BY <1>4, SameLines, AskRecoveryTale DEF ReplayPartial, fileVars
<1>5. CASE Desync(p)
  <2>1. SameTale
    BY <1>5, SameLines DEF Desync, fileVars
  <2>2. Exit(p, "restart") \/ \E r \in {EOF, StartOfTurn(p)} : AskRecovery(p, r)
    BY <1>5 DEF Desync
  <2> QED
    BY <2>1, <2>2, ExitTale, AskRecoveryTale
<1>6. CASE ReplaySaveLine(p)
  <2>1. SameTale /\ UNCHANGED <<lines, rcount>>
    BY <1>6, SameLines DEF ReplaySaveLine, fileVars
  <2>2. CASE IsSave(LineAt(view[p].eogs))
    BY <1>6, <2>2, AdoptTale
  <2>3. CASE ~IsSave(LineAt(view[p].eogs))
    <3>1. \/ Exit(p, "off")
          \/ view' = [view EXCEPT ![p].cmd = NoCommand] /\ Goto(p, "ready")
      BY <1>6, <2>3 DEF ReplaySaveLine
    <3>2. pc[p] = "saveline"
      BY <1>6 DEF ReplaySaveLine
    <3> QED
      BY <2>1, <3>1, <3>2, ExitTale, GoesOnTale
  <2> QED
    BY <2>2, <2>3
<1>7. CASE SaveLineTimeout(p)
  BY <1>7, GoesOnTale DEF SaveLineTimeout, fileVars
<1> QED
  BY <1>2, <1>3, <1>4, <1>5, <1>6, <1>7, ReplayTale DEF ReadLine

-----------------------------------------------------------------------------
(* Ends: of a turn, a session, a game, a process. *)

\* A writer adds a save line, and stays where it is or leaves the game.
LEMMA SaveTale ==
  ASSUME Coherent, AfterGrows, NEW p \in Procs, InGame(p), pc[p] \notin {"over", "ended"},
         MayUpdate(p), OthersKeep(p), NEW l, AppendLine(l),
         l.kind \in {"full", "diff"}, l.after = After(EOF),
         \/ ~InGame(p)'
         \/ InGame(p)' /\ view'[p].engine = view[p].engine /\ view'[p].eogs = EOF + 1
                       /\ view'[p].expected = view[p].expected
  PROVE  [History!Next]_Tale
<1>1. ~Over /\ view[p].eogs = EOF
  BY WriterTells
<1>2. CASE Spoilt
  BY <1>2, SpoiltTale
<1>3. CASE ~Spoilt
  <2>1. Hist = After(EOF)
    BY <1>3 DEF Hist, GoodLines
  <2>2. SameTale /\ Good(EOF)' /\ EOF' = EOF + 1
    BY <1>1, <1>3, <2>1, LineTells DEF SameTale, Over, Spoilt, Added
  <2>3. CASE ~InGame(p)'
    BY <2>2, <2>3, LeaveOrStay
  <2>4. CASE InGame(p)'
    <3>1. Good(view[p].eogs)' /\ Good(view[p].eogs)
      BY <1>1, <1>3, <2>2, <2>4 DEF Good, Spoilt
    <3> QED
      BY <2>2, <2>4, <3>1, StayTale
  <2> QED
    BY <2>3, <2>4
<1> QED
  BY <1>2, <1>3

LEMMA NeutralTurnstateTale ==
  ASSUME Coherent, AfterGrows, NEW p \in Procs, NeutralTurnstate(p)
  PROVE  [History!Next]_Tale
<1>1. /\ TypeOK /\ view[p] \in View /\ pc[p] = "neutral" /\ InGame(p)
      /\ pc[p] \notin {"over", "ended"}
  BY DEF NeutralTurnstate, Coherent, TypeOK, InGame
<1>2. CASE WriteBackup(p) \/ WriteDiff(p)
  <2>1. PICK l \in {FullLine(view[p].engine), DiffLine(view[p].engine, view[p].bin)} :
          AppendLine(l) /\ Saved(p, l)
    BY <1>2 DEF WriteBackup, WriteDiff
  <2>2. l.kind \in {"full", "diff"} /\ l.after = After(EOF)
    BY <2>1 DEF FullLine, DiffLine
  <2> DEFINE e == view[p].engine
             w == [view[p] EXCEPT !.bin = e, !.bsl = EOF, !.eogs = EOF + 1, !.cmd = NoCommand]
             u == IF l.kind = "full" THEN [w EXCEPT !.sbl = EOF] ELSE w
  <2>3. u.engine = view[p].engine /\ u.expected = view[p].expected /\ u.eogs = EOF + 1
    BY <1>1 DEF View
  <2>4. view' = [view EXCEPT ![p] = u] /\ Goto(p, "ready") /\ MayUpdate(p)
    BY <1>2, <2>1 DEF Saved, WriteBackup, WriteDiff
  <2> HIDE DEF u
  <2>5. OthersKeep(p) /\ pc'[p] = "ready" /\ view'[p] = u
    BY <1>1, <2>4, Moved
  <2>6. InGame(p)'
    BY <2>5 DEF InGame
  <2> QED
    BY <1>1, <2>1, <2>2, <2>3, <2>4, <2>5, <2>6, SaveTale
<1>3. CASE UpdateRefused(p)
  BY <1>3, RefusedTale
<1>4. CASE Goto(p, "saveline") /\ UNCHANGED <<fileVars, outcomeVars, view, envVars>>
  <2>1. UNCHANGED <<lines, rcount, view>> /\ OthersKeep(p) /\ InGame(p)'
    BY <1>1, <1>4 DEF fileVars, OthersKeep, Goto, TypeOK, InGame
  <2> QED
    BY <1>1, <2>1, RestTale
<1> QED
  BY <1>2, <1>3, <1>4 DEF NeutralTurnstate

\* log_game_over's first line: the game ends.
LEMMA LogQuitTale ==
  ASSUME Coherent, AfterGrows, NEW p \in Procs, InGame(p), pc[p] \notin {"over", "ended"},
         LogQuit(p)
  PROVE  [History!Next]_Tale
<1>1. CASE UpdateRefused(p)
  BY <1>1, RefusedTale
<1>2. CASE /\ MayUpdate(p)
           /\ AppendLine(QuitLine)
           /\ view' = [view EXCEPT ![p].eogs = EOF + 1]
           /\ Goto(p, "over")
  <2>1. TypeOK /\ view[p] \in View
    BY DEF Coherent, TypeOK
  <2>2. /\ ~Over
        /\ ~Spoilt => Known(p) = History!Played(Hist) /\ view[p].engine = Hist
    BY <1>2, WriterTells
  <2>3. OthersKeep(p) /\ pc'[p] = "over" /\ view'[p] = [view[p] EXCEPT !.eogs = EOF + 1]
    BY <1>2, <2>1, Moved
  <2>4. /\ view'[p].engine = view[p].engine /\ view'[p].expected = view[p].expected
        /\ view'[p].eogs = EOF + 1 /\ InGame(p)'
    BY <2>1, <2>3 DEF View, InGame
  <2>a. CASE Spoilt
    BY <1>2, <2>3, <2>4, <2>a, SpoiltTale
  <2>b. CASE ~Spoilt
    <3>1. QuitLine.after = After(EOF) /\ QuitLine.kind = "Q" /\ Hist = After(EOF)
      BY <2>b DEF QuitLine, Hist, GoodLines
    <3>2. /\ Added /\ rcount' = rcount
          /\ Hist' = Hist /\ Over' /\ ~Spoilt' /\ Good(EOF)'
      BY <1>2, <2>2, <2>b, <3>1, LineTells
    <3>3. Knows' = [Knows EXCEPT ![p] = Known(p)'] /\ Knows[p] = Known(p)
      BY <2>3, <3>2, KnowsOne
    <3>4. Known(p)' = Known(p)
      <4>1. ~CountStale(p)'
        BY <1>2, <2>4, <3>2 DEF MayUpdate, CountStale
      <4>2. Good(view[p].eogs)'
        BY <2>4, <3>2 DEF Good, Added
      <4> QED
        BY <2>2, <2>4, <2>b, <4>1, <4>2 DEF Known, History!Played
    <3>5. Knows' = Knows
      BY <3>3, <3>4 DEF Knows
    <3>o. Spoilt' = Spoilt /\ Over' = TRUE
      BY <2>b, <3>2 DEF Over, Spoilt
    <3>6. History!End(p)
      BY <2>2, <2>b, <3>2, <3>3, <3>5, <3>o DEF History!End, History!MayAdd, Hist, Over, Knows
    <3> QED
      BY <3>6 DEF History!Next
  <2> QED
    BY <2>a, <2>b
<1> QED
  BY <1>1, <1>2 DEF LogQuit

LEMMA UserTale ==
  ASSUME Coherent, Coherent', AfterGrows, NEW p \in Procs, User(p)
  PROVE  [History!Next]_Tale
<1>1. CASE ExitSave(p)
  <2>1. CASE UpdateRefused(p)
    BY <2>1, RefusedTale
  <2>2. CASE Exit(p, "off") /\ UNCHANGED <<fileVars, outcomeVars, envVars>>
    BY <2>2, SameLines, ExitTale DEF fileVars
  <2> QED
    BY <1>1, <2>1, <2>2 DEF ExitSave
<1>2. CASE Quit(p)
  BY <1>2, LogQuitTale DEF Quit, Asking, InGame
<1> QED
  BY <1>1, <1>2, RecordTale DEF User

LEMMA GameOverTale ==
  ASSUME Coherent, AfterGrows, NEW p \in Procs, GameOver(p)
  PROVE  [History!Next]_Tale
<1>1. TypeOK
  BY DEF Coherent
<1>2. CASE Die(p)
  <2>1. CASE Exit(p, "off") /\ UNCHANGED <<fileVars, outcomeVars, envVars>>
    BY <2>1, SameLines, ExitTale DEF fileVars
  <2>2. CASE LogQuit(p)
    BY <1>2, <2>2, LogQuitTale DEF Die, InGame
  <2> QED
    BY <1>2, <2>1, <2>2 DEF Die
<1>3. CASE LogGameOver(p)
  <2>1. CASE UpdateRefused(p)
    BY <2>1, RefusedTale
  <2>2. CASE Goto(p, "ended") /\ UNCHANGED <<lines, partial, rcount, hint, outcomeVars, view, envVars>>
    <3>1. UNCHANGED <<lines, rcount, view>> /\ OthersKeep(p) /\ InGame(p) /\ InGame(p)'
      BY <1>1, <1>3, <2>2 DEF LogGameOver, OthersKeep, Goto, TypeOK, InGame
    <3> QED
      BY <3>1, RestTale
  <2> QED
    BY <1>3, <2>1, <2>2 DEF LogGameOver
<1>4. CASE FinishGame(p)
  BY <1>4, SameLines, ExitTale DEF FinishGame, fileVars
<1> QED
  BY <1>2, <1>3, <1>4 DEF GameOver

\* A diff that fails spoils what would come after the history, or is as good as
\* another one; its writer leaves the game for the menu.
LEMMA PanicTale ==
  ASSUME Coherent, AfterGrows, NEW p \in Procs, Panic(p) \/ PanicInDiff(p)
  PROVE  [History!Next]_Tale
<1>1. CASE Panic(p)
  BY <1>1, SameLines, AskRecoveryTale DEF Panic, fileVars
<1>2. CASE PanicInDiff(p)
  <2>1. OthersKeep(p) /\ pc'[p] = "recover"
    BY <1>2, Moved DEF PanicInDiff, DiffFails, AskRecovery, Coherent
  <2>2. ~InGame(p)' /\ InGame(p) /\ pc[p] \notin {"over", "ended"} /\ MayUpdate(p)
    BY <1>2, <2>1 DEF PanicInDiff, DiffFails, InGame
  <2>3. PICK l \in {SpoiltLine(view[p].bin), DiffLine(view[p].engine, view[p].bin)} :
          AppendLine(l)
    BY <1>2 DEF PanicInDiff, DiffFails
  <2>4. CASE l = DiffLine(view[p].engine, view[p].bin)
    <3>1. l.kind \in {"full", "diff"} /\ l.after = After(EOF)
      BY <2>4 DEF DiffLine
    <3> QED
      BY <2>1, <2>2, <2>3, <3>1, SaveTale
  <2>5. CASE Spoilt
    BY <2>1, <2>2, <2>3, <2>5, SpoiltTale
  <2>6. CASE l = SpoiltLine(view[p].bin) /\ ~Spoilt
    <3>1. l.kind = "spoilt"
      BY <2>6 DEF SpoiltLine
    <3>2. ~Over /\ Known(p) = History!Played(Hist)
      BY <2>2, <2>6, WriterTells
    <3>3. Added /\ rcount' = rcount /\ Hist' = Hist /\ ~Over' /\ Spoilt'
      BY <2>3, <3>1, <3>2, LineTells
    <3>4. Knows' = [Knows EXCEPT ![p] = Known(p)'] /\ Knows[p] = Known(p)
      BY <2>1, <3>3, KnowsOne
    <3>5. Known(p)' = History!Out
      BY <2>2 DEF Known, History!Out
    <3>6. History!Spoil(p)
      BY <2>6, <3>2, <3>3, <3>4, <3>5 DEF History!Spoil, History!MayAdd, Hist, Over, Knows
    <3> QED
      BY <3>6 DEF History!Next
  <2> QED
    BY <2>3, <2>4, <2>5, <2>6
<1> QED
  BY <1>1, <1>2

LEMMA RecoveryTale ==
  ASSUME Coherent, Coherent', AfterGrows, NEW p \in Procs, Recovery(p)
  PROVE  [History!Next]_Tale
<1>1. CASE ViewerLostTrack(p) \/ RecoveryRefused(p)
  BY <1>1, SameLines, ExitTale DEF ViewerLostTrack, RecoveryRefused, fileVars
<1>2. CASE Recover(p)
  <2>1. Exit(p, "restart") /\ pc[p] = "recover"
    BY <1>2 DEF Recover
  <2>2. CASE UNCHANGED fileVars
    BY <2>1, <2>2, SameLines, ExitTale DEF fileVars
  <2>3. CASE ~CountStale(p) /\ Truncate(p)
    BY <2>1, <2>3, ExitMoves, TruncateTale DEF Coherent
  <2> QED
    BY <1>2, <2>2, <2>3 DEF Recover
<1> QED
  BY <1>1, <1>2 DEF Recovery

\* A process is killed.
LEMMA KillTale ==
  ASSUME Coherent, Coherent', AfterGrows, NEW p \in Procs, Kill(p)
  PROVE  [History!Next]_Tale
<1>1. Exit(p, "off") /\ TypeOK
  BY DEF Kill, Crash, CrashInLine, CrashBeforeHint, CrashInRecovery, MayCrash, Coherent
<1>2. OthersKeep(p) /\ ~InGame(p)'
  BY <1>1, ExitMoves
<1>3. CASE Crash(p) \/ CrashInLine(p)
  BY <1>1, <1>3, SameLines, ExitTale DEF Crash, CrashInLine, fileVars
<1>4. CASE CrashBeforeHint(p)
  <2>1. InGame(p) /\ pc[p] \notin {"over", "ended"} /\ MayUpdate(p)
    BY <1>4 DEF CrashBeforeHint, InGame
  <2> DEFINE l == FullLine(view[p].engine)
  <2>2. AppendLine(l) /\ l.kind = "full" /\ l.after = After(EOF)
    BY <1>4 DEF CrashBeforeHint, FullLine
  <2> HIDE DEF l
  <2> QED
    BY <1>2, <2>1, <2>2, SaveTale
<1>5. CASE CrashInRecovery(p)
  <2>1. ~InGame(p) /\ rcount' = rcount + 1 /\ lines' = lines
    BY <1>5 DEF CrashInRecovery, InGame
  <2>2. EOF \in 1..EOF /\ EOF' = EOF /\ \A n \in 1..EOF : lines'[n] = lines[n]
    BY <2>1 DEF Coherent, FileSound, EOF, TypeOK
  <2> QED
    BY <1>2, <2>1, <2>2, RewindStep
<1> QED
  BY <1>3, <1>4, <1>5 DEF Kill

-----------------------------------------------------------------------------

LEMMA NextTale ==
  Coherent /\ Coherent' /\ AfterGrows /\ [Next]_vars => [History!Next]_Tale
<1> SUFFICES ASSUME Coherent, Coherent', AfterGrows, [Next]_vars PROVE [History!Next]_Tale
  OBVIOUS
<1>1. CASE UNCHANGED vars
  <2>1. UNCHANGED <<lines, rcount, pc, view>>
    BY <1>1 DEF vars, fileVars
  <2>2. Hist' = Hist /\ Over' = Over /\ Spoilt' = Spoilt
    BY <2>1, SameLines DEF SameTale
  <2>3. Knows' = Knows
    BY <2>1 DEF Knows, Known, InGame, CountStale, Good
  <2> QED
    BY <2>2, <2>3 DEF Tale
<1>2. CASE Next
  BY <1>2, LoadTale, ReadLineTale, UserTale, NeutralTurnstateTale, GameOverTale,
     PanicTale, RecoveryTale, KillTale DEF Next, EndTurn
<1> QED
  BY <1>1, <1>2

LEMMA InitTale == Init => AfterGrows /\ History!Init
<1> SUFFICES ASSUME Init PROVE AfterGrows /\ History!Init
  OBVIOUS
<1>1. EOF = 1 /\ lines[1].after = <<>> /\ lines[1].kind = "full" /\ After(1) = <<>>
  BY DEF Init, EOF, After
<1>2. \A p \in Procs : Known(p) = History!Out
  BY DEF Init, Known, InGame, History!Out
<1>g. GoodUpTo(1) /\ 1..EOF = {1}
  BY <1>1 DEF GoodUpTo, Good
<1>3. AfterGrows
  <2>1. <<>> \in State
    BY DEF State
  <2> QED
    BY <1>1, <1>g, <2>1, PrefixOfItself DEF AfterGrows
<1>4. [p \in Procs |-> Known(p)] = [p \in Procs |-> History!Out]
  BY <1>2
<1>5. GoodLines = 1 /\ ~Spoilt
  BY <1>1, <1>g, GoodLinesIs
<1> QED
  BY <1>1, <1>3, <1>4, <1>5 DEF History!Init

\* The save file and the processes that share it implement one history of the
\* game (doc/saves.txt): what a process has in memory is a beginning of it, only
\* who has all of it in memory adds to it or ends it, and a recovery, which alone
\* takes a part back, leaves nobody who goes on from what was taken back.  A diff
\* that does not give the save back is no part of it, nor is what follows it.
THEOREM LogImplementsHistory == Spec => HistoryKept
<1>1. Init => AfterGrows /\ History!Init
  BY InitTale
<1>2. Coherent /\ Coherent' /\ AfterGrows /\ [Next]_vars => AfterGrows'
  BY GrowsNext
<1>3. Coherent /\ Coherent' /\ AfterGrows /\ [Next]_vars => [History!Next]_History!vars
  BY NextTale DEF History!vars, Tale, Hist, Over, Knows
<1>4. Spec => []Coherent
  BY Coherence
<1> QED
  BY <1>1, <1>2, <1>3, <1>4, PTL DEF Spec, HistoryKept, History!Spec

-----------------------------------------------------------------------------
(* What a recovery takes back.  The lines of the turns. *)

Turn(p) == TurnSound(p) /\ MenuSound(p)
Turns   == LinesFit /\ \A p \in Procs : Turn(p)

\* What a process in the game knows of its turn: b is the line of the save that
\* it began after, and e the last one that it has consumed.
LEMMA TurnBase ==
  ASSUME Coherent, NEW p \in Procs, ~CountStale(p), InGame(p), pc[p] \notin {"over", "ended"},
         NEW b, b = view[p].bsl + 1, NEW e, e = view[p].eogs
  PROVE  /\ EOF \in Nat /\ EOF = Len(lines) /\ b \in 1..e /\ e \in 1..EOF
         /\ IsSave(lines[b])
         /\ \A n \in (b + 1)..e : ~IsSave(lines[n])
         /\ \A n \in 1..e : lines[n].kind # "Q"
<1>1. SaveKnown(p) /\ PlaceKnown(p) /\ TypeOK /\ view[p] \in View /\ EOF \in Nat
  BY DEF Coherent, ViewSound, TypeOK, EOF
<1>2. view[p].bsl \in Nat /\ view[p].eogs \in Nat /\ EOF = Len(lines)
  BY <1>1 DEF View, EOF
<1>3. b \in 1..e /\ e \in 1..EOF
  BY <1>1, <1>2 DEF PlaceKnown
<1>4. IsSave(lines[b])
  BY <1>1 DEF SaveKnown, LineAt
<1>5. ASSUME NEW n \in (b + 1)..e PROVE ~IsSave(lines[n])
  <2> DEFINE m == n - 1
  <2>1. m \in (view[p].bsl + 1)..(view[p].eogs - 1) /\ m + 1 = n
    BY <1>2
  <2> HIDE DEF m
  <2>2. ~IsSave(lines[m + 1])
    BY <1>1, <2>1 DEF PlaceKnown, LineAt
  <2> QED
    BY <2>1, <2>2
<1>6. \A n \in 1..e : lines[n].kind # "Q"
  BY <1>1 DEF PlaceKnown
<1> QED
  BY <1>1, <1>2, <1>3, <1>4, <1>5, <1>6

\* The first line after a save line, if it is an input, is a command.
LEMMA CommandFirst ==
  ASSUME TypeOK, LinesFit, NEW b \in 1..EOF, NEW n \in 1..EOF, b < n,
         IsSave(lines[b]), lines[b + 1].kind = "input"
  PROVE  lines[b + 1].val \in Commands /\ Prompts[lines[b + 1].val] \in Nat
<1>1. EOF \in Nat
  BY DEF TypeOK, EOF
<1> DEFINE m == b + 1
<1>2. m \in 2..EOF /\ b < m /\ LastSave(b, m)
  BY <1>1 DEF LastSave
<1>3. lines[b + 1].val \in Commands
  BY <1>2 DEF LinesFit
<1> QED
  BY <1>3, ValueAssumption

\* A cut keeps what is in front of it.
LEMMA FitCut ==
  ASSUME TypeOK, LinesFit, NEW r \in 1..EOF, lines' = SubSeq(lines, 1, r)
  PROVE  LinesFit'
<1>1. EOF \in Nat /\ EOF' = r /\ \A n \in 1..r : lines'[n] = lines[n]
  BY TruncateLines DEF TypeOK, EOF
<1> SUFFICES ASSUME NEW n \in 2..r, NEW b \in 1..r, b < n, LastSave(b, n)'
             PROVE  /\ lines[b + 1] = lines'[b + 1] /\ lines[n] = lines'[n]
                    /\ n \in 2..EOF /\ b \in 1..EOF /\ LastSave(b, n)
  BY <1>1 DEF LinesFit, IsSave
<1>2. n \in 2..EOF /\ b \in 1..EOF /\ b + 1 \in 1..r /\ n \in 1..r
  BY <1>1
<1>3. \A m \in (b + 1)..(n - 1) : m \in 1..r
  BY <1>1
<1>4. LastSave(b, n)
  BY <1>1, <1>3 DEF LastSave, IsSave
<1> QED
  BY <1>1, <1>2, <1>4

\* What a writer adds belongs to the turn that its engine is in.
Fitting(l, b) ==
  LET k == EOF - b
      c == lines[b + 1].val
  IN  /\ l.kind = "input" => IF k = 0 THEN l.val \in Commands
                             ELSE l.val \in Answers /\ k <= Prompts[c]
      /\ IsSave(l) => k >= 1 /\ k = Prompts[c] + 1 /\ c \notin Deadly

LEMMA FitAppend ==
  ASSUME Coherent, LinesFit, NEW p \in Procs, InGame(p), pc[p] \notin {"over", "ended"},
         MayUpdate(p), NEW l, AppendLine(l), Fitting(l, view[p].bsl + 1)
  PROVE  LinesFit'
<1> DEFINE d == view[p].bsl + 1
<1>1. /\ EOF \in Nat /\ d \in 1..EOF /\ IsSave(lines[d])
      /\ \A n \in (d + 1)..EOF : ~IsSave(lines[n])
  BY WriterKnows, TurnBase DEF MayUpdate
<1>2. Fitting(l, d)
  OBVIOUS
<1> HIDE DEF d
<1>3. /\ EOF' = EOF + 1 /\ lines'[EOF + 1] = l
      /\ \A n \in 1..EOF : lines'[n] = lines[n]
  BY AppendAdds DEF Added, Coherent
<1> SUFFICES ASSUME NEW n \in 2..(EOF + 1), NEW b \in 1..(EOF + 1), b < n, LastSave(b, n)'
             PROVE  LET c == lines'[b + 1].val
                    IN  /\ lines'[n].kind = "input" =>
                             IF n = b + 1 THEN c \in Commands
                             ELSE lines'[n].val \in Answers /\ n - b - 1 <= Prompts[c]
                        /\ IsSave(lines'[n]) =>
                             n > b + 1 /\ n - b - 1 = Prompts[c] + 1 /\ c \notin Deadly
  BY <1>3 DEF LinesFit, IsSave
<1>4. b \in 1..EOF /\ LastSave(b, n)
  <2>1. b \in 1..EOF /\ \A m \in (b + 1)..(n - 1) : m \in 1..EOF
    BY <1>1
  <2> QED
    BY <1>3, <2>1 DEF LastSave, IsSave
<1>5. CASE n \in 2..EOF
  <2>1. b + 1 \in 1..EOF /\ n \in 1..EOF
    BY <1>1, <1>4, <1>5
  <2>2. lines'[b + 1] = lines[b + 1] /\ lines'[n] = lines[n]
    BY <1>3, <2>1
  <2> QED
    BY <1>4, <1>5, <2>2 DEF LinesFit
<1>6. CASE n = EOF + 1
  <2>1. b = d
    <3>1. ASSUME b < d PROVE FALSE
      BY <1>1, <1>4, <1>6, <3>1 DEF LastSave
    <3>2. ASSUME d < b PROVE FALSE
      BY <1>1, <1>4, <1>6, <3>2 DEF LastSave
    <3> QED
      BY <1>1, <1>4, <3>1, <3>2
  <2>2. lines'[n] = l
    BY <1>3, <1>6
  <2>3. CASE EOF = b
    BY <1>1, <1>2, <1>6, <2>1, <2>2, <2>3 DEF Fitting
  <2>4. CASE EOF # b
    <3>1. b + 1 \in 1..EOF /\ lines'[b + 1] = lines[b + 1] /\ n # b + 1 /\ n - b - 1 = EOF - b
      BY <1>1, <1>3, <1>4, <1>6, <2>4
    <3> QED
      BY <1>1, <1>2, <1>4, <1>6, <2>1, <2>2, <2>4, <3>1 DEF Fitting
  <2> QED
    BY <2>3, <2>4
<1> QED
  BY <1>1, <1>5, <1>6

\* A process that does nothing keeps its place in its turn.
LEMMA OthersTurn ==
  ASSUME Coherent, Coherent', TurnInv, NEW q \in Procs, pc'[q] = pc[q], view'[q] = view[q],
         panics' = 0 => panics = 0,
         \/ rcount' = rcount /\ Grown /\ (partial => lines' = lines /\ partial')
         \/ rcount' = rcount + 1
  PROVE  Turn(q)'
<1>1. CASE rcount' = rcount + 1
  <2>1. view[q].expected \in Nat /\ rcount \in Nat /\ view[q].expected <= rcount
    BY DEF Coherent, TypeOK, View, ControlSound
  <2>2. CountStale(q)'
    BY <1>1, <2>1 DEF CountStale
  <2> QED
    BY <2>2 DEF Turn, TurnSound, MenuSound
<1>2. CASE rcount' = rcount /\ Grown /\ (partial => lines' = lines /\ partial')
  <2> SUFFICES ASSUME ~CountStale(q)' PROVE Turn(q)'
    BY DEF Turn, TurnSound, MenuSound
  <2>1. ~CountStale(q) /\ InGame(q)' = InGame(q) /\ TypeOK /\ TypeOK'
    BY <1>2 DEF CountStale, InGame, Coherent
  <2>2. EOF \in Nat /\ EOF' \in Nat /\ EOF <= EOF' /\ \A n \in 1..EOF : lines'[n] = lines[n]
    BY <1>2, <2>1 DEF Grown, TypeOK, EOF
  <2>3. MenuSound(q)'
    <3>1. ASSUME pc[q] = "unquit"
          PROVE  view[q].roff < EOF' /\ lines'[view[q].roff + 1].kind = "Q"
      <4>1. view[q].roff < EOF /\ lines[view[q].roff + 1].kind = "Q" /\ view[q].roff \in Nat
        BY <2>1, <3>1 DEF TurnInv, MenuSound, TypeOK, View
      <4>2. view[q].roff + 1 \in 1..EOF
        BY <2>2, <4>1
      <4> QED
        BY <2>2, <4>1, <4>2
    <3>2. ASSUME pc[q] = "recover", view[q].mode = "play", panics' = 0
          PROVE  partial' /\ view[q].roff = EOF'
      BY <1>2, <2>1, <3>2 DEF TurnInv, MenuSound, EOF
    <3> QED
      BY <3>1, <3>2 DEF MenuSound
  <2>4. TurnSound(q)'
    <3> SUFFICES ASSUME InGame(q), pc[q] \notin {"over", "ended"} PROVE TurnSound(q)'
      BY <2>1 DEF TurnSound
    <3>1. PICK b : b = view[q].bsl + 1
      OBVIOUS
    <3>2. PICK e : e = view[q].eogs
      OBVIOUS
    <3>3. b \in 1..e /\ e \in 1..EOF
      BY <2>1, <3>1, <3>2, TurnBase
    <3>4. e - b >= 1 => lines'[b + 1] = lines[b + 1]
      BY <2>2, <3>3
    <3>5. NothingAt(e)' => NothingAt(e)
      BY <1>2, <2>2, <3>3 DEF NothingAt, HasLine, PartialAt, EOF
    <3>6. TurnSound(q)
      BY DEF TurnInv
    <3>7. view[q].mode # "play" /\ pc[q] \in {"ready", "askready"} /\ e - b # 0 => e - b >= 1
      BY <2>2, <3>3
    <3> QED
      BY <2>1, <3>1, <3>2, <3>4, <3>5, <3>6, <3>7 DEF TurnSound
  <2> QED
    BY <2>3, <2>4 DEF Turn
<1> QED
  BY <1>1, <1>2

\* What it takes to keep the turns.
LEMMA TurnStep ==
  ASSUME Coherent, Coherent', TurnInv, NEW p \in Procs, OthersKeep(p), LinesFit', Turn(p)',
         panics' = 0 => panics = 0,
         \/ rcount' = rcount /\ Grown /\ (partial => lines' = lines /\ partial')
         \/ rcount' = rcount + 1
  PROVE  Turns'
<1> SUFFICES ASSUME NEW q \in Procs PROVE Turn(q)'
  BY DEF Turns
<1>1. CASE q = p
  BY <1>1
<1>2. CASE q # p
  BY <1>2, OthersTurn DEF OthersKeep
<1> QED
  BY <1>1, <1>2

-----------------------------------------------------------------------------
(* What a recovery takes back.  The steps of a process in its turn. *)

\* The file stays as it is, but for a line that is begun when there is none.
Kept == /\ UNCHANGED <<lines, rcount>> /\ (partial => partial')
        /\ (panics' = 0 => panics = 0)

LEMMA KeptTurn ==
  ASSUME Coherent, Coherent', TurnInv, NEW p \in Procs, OthersKeep(p), Kept, Turn(p)'
  PROVE  Turns'
<1>1. Grown
  BY DEF Kept, Grown, EOF, Coherent, TypeOK
<1>2. LinesFit'
  BY DEF TurnInv, Kept, LinesFit, LastSave, IsSave, EOF
<1> QED
  BY <1>1, <1>2, TurnStep DEF Kept

\* Whoever is neither in the game nor about to cut the file off has no turn.
LEMMA NoTurn ==
  ASSUME NEW p \in Procs, ~InGame(p)', pc'[p] \notin {"unquit", "recover"}
  PROVE  Turn(p)'
BY DEF Turn, TurnSound, MenuSound

LEMMA AwayTurn ==
  ASSUME Coherent, Coherent', TurnInv, NEW p \in Procs, OthersKeep(p), Kept, ~InGame(p)',
         pc'[p] \notin {"unquit", "recover"}
  PROVE  Turns'
BY NoTurn, KeptTurn

LEMMA ExitTurn ==
  ASSUME Coherent, Coherent', TurnInv, NEW p \in Procs, NEW place \in {"off", "restart"},
         Exit(p, place), Kept
  PROVE  Turns'
<1>1. OthersKeep(p) /\ pc'[p] = place
  BY Moved DEF Exit, Coherent
<1> QED
  BY <1>1, AwayTurn DEF InGame

LEMMA RefusedTurn ==
  ASSUME Coherent, Coherent', TurnInv, NEW p \in Procs, UpdateRefused(p)
  PROVE  Turns'
<1>1. PICK place \in {"off", "restart"} : Exit(p, place)
  BY DEF UpdateRefused
<1>2. Kept
  BY DEF UpdateRefused, Kept, fileVars, envVars, outcomeVars
<1> QED
  BY <1>1, <1>2, ExitTurn

\* The menu opens, by a panic or by an unfinished line, or for a viewer.
LEMMA AskRecoveryTurn ==
  ASSUME Coherent, Coherent', TurnInv, NEW p \in Procs, NEW r \in 1..EOF, AskRecovery(p, r), Kept,
         panics' = 0 /\ view[p].mode = "play" /\ ~CountStale(p) => partial /\ r = EOF
  PROVE  Turns'
<1> DEFINE w == [view[p] EXCEPT !.roff = r]
<1>1. TypeOK /\ view[p] \in View
  BY DEF Coherent, TypeOK
<1>2. w.roff = r /\ w.mode = view[p].mode /\ w.expected = view[p].expected
  BY <1>1 DEF View
<1>3. Goto(p, "recover") /\ view' = [view EXCEPT ![p] = w]
  BY DEF AskRecovery
<1> HIDE DEF w
<1>4. OthersKeep(p) /\ pc'[p] = "recover" /\ view'[p] = w
  BY <1>1, <1>3, Moved
<1>5. Turn(p)'
  BY <1>2, <1>4 DEF Turn, TurnSound, MenuSound, InGame, Kept, CountStale, EOF
<1> QED
  BY <1>4, <1>5, KeptTurn

\* An engine that has just been loaded from a save line is between two turns.
LEMMA LoadedTurn ==
  ASSUME Coherent, Coherent', TurnInv, NEW p \in Procs, NEW w \in View, Goto(p, "ready"),
         view' = [view EXCEPT ![p] = Loaded(w)], Kept
  PROVE  Turns'
<1>1. TypeOK
  BY DEF Coherent
<1>2. OthersKeep(p) /\ pc'[p] = "ready" /\ view'[p] = Loaded(w)
  BY <1>1, Moved
<1>3. /\ Loaded(w).eogs = IF HasLine(w.bsl) THEN w.bsl + 1 ELSE w.bsl
      /\ Loaded(w).cmd = NoCommand /\ Loaded(w).bsl = w.bsl
  BY <1>1, LoadedType
<1>4. ASSUME ~CountStale(p)' PROVE view'[p].eogs = view'[p].bsl + 1
  <2>1. view'[p].bsl < EOF' /\ EOF' = EOF
    BY <1>2, <1>4 DEF Coherent, ViewSound, SaveKnown, InGame, Kept, EOF
  <2> QED
    BY <1>2, <1>3, <2>1 DEF HasLine
<1>5. view'[p].bsl \in Nat
  BY <1>2, <1>3 DEF View
<1>6. view'[p].cmd = NoCommand
  BY <1>2, <1>3
<1>7. Turn(p)'
  BY <1>2, <1>4, <1>5, <1>6 DEF Turn, TurnSound, MenuSound
<1> QED
  BY <1>2, <1>7, KeptTurn

\* The next line, for a process whose count is the file's, is one of its turn.
LEMMA NextFits ==
  ASSUME Coherent, TurnInv, NEW p \in Procs, ~CountStale(p), InGame(p),
         pc[p] \notin {"over", "ended"}, HasLine(view[p].eogs),
         NEW b, b = view[p].bsl + 1, NEW k, k = view[p].eogs - b,
         NEW l, l = LineAt(view[p].eogs), NEW c, c = lines[b + 1].val
  PROVE  /\ k \in Nat
         /\ k = 0 => /\ ~IsSave(l)
                     /\ l.kind = "input" => l.val = c /\ c \in Commands
         /\ k > 0 => /\ c \in Commands /\ Prompts[c] \in Nat
                     /\ l.kind = "input" => l.val \in Answers /\ k <= Prompts[c]
                     /\ IsSave(l) => k = Prompts[c] + 1
<1>1. PICK e : e = view[p].eogs
  OBVIOUS
<1>2. /\ EOF \in Nat /\ EOF = Len(lines) /\ b \in 1..e /\ e \in 1..EOF
      /\ IsSave(lines[b])
      /\ \A n \in (b + 1)..e : ~IsSave(lines[n])
      /\ \A n \in 1..e : lines[n].kind # "Q"
      /\ e < EOF
  BY <1>1, TurnBase DEF HasLine
<1> DEFINE n == e + 1
<1>3. /\ n \in 2..EOF /\ b \in 1..EOF /\ b < n /\ LastSave(b, n)
      /\ l = lines[n] /\ n - b - 1 = k /\ k \in Nat
  <2>1. n \in 2..EOF /\ b \in 1..EOF /\ b < n /\ n - 1 = e /\ n - b - 1 = k /\ k \in Nat
    <3>1. e \in Nat /\ b \in Nat /\ 1 <= b /\ b <= e /\ e < EOF /\ EOF \in Nat
      BY <1>2
    <3>2. n \in 2..EOF /\ b \in 1..EOF /\ b < n /\ n - 1 = e
      BY <3>1
    <3>3. k = e - b
      BY <1>1
    <3>4. n - b - 1 = e - b /\ e - b \in Nat
      BY <3>1
    <3> QED
      BY <3>2, <3>3, <3>4
  <2>2. LastSave(b, n)
    BY <1>2, <2>1 DEF LastSave
  <2>3. l = lines[n]
    BY <1>1 DEF LineAt
  <2> QED
    BY <2>1, <2>2, <2>3
<1>4. (n = b + 1) <=> (k = 0)
  BY <1>1, <1>2
<1>5. n > b + 1 <=> k > 0
  BY <1>1, <1>2
<1> HIDE DEF n
<1>6. /\ l.kind = "input" => IF k = 0 THEN c \in Commands
                             ELSE l.val \in Answers /\ k <= Prompts[c]
      /\ IsSave(l) => k > 0 /\ k = Prompts[c] + 1
  BY <1>3, <1>4, <1>5 DEF TurnInv, LinesFit
<1>7. ASSUME k > 0 PROVE c \in Commands /\ Prompts[c] \in Nat
  <2>1. b + 1 \in (b + 1)..e /\ b + 1 \in 1..e /\ b + 1 \in 1..Len(lines) /\ n \in 1..EOF
    BY <1>1, <1>2, <1>3, <1>7
  <2>2. lines[b + 1] \in Line
    BY <2>1 DEF Coherent, TypeOK
  <2>3. lines[b + 1].kind = "input"
    BY <1>2, <2>1, <2>2 DEF Line, IsSave
  <2> QED
    BY <1>3, <2>1, <2>3, <1>2, CommandFirst DEF TurnInv, Coherent
<1>8. k = 0 => l = lines[b + 1]
  BY <1>3, <1>4
<1> QED
  BY <1>3, <1>6, <1>7, <1>8

\* An engine consumes a line, by replaying or by recording it.
LEMMA ConsumeTurn ==
  ASSUME Coherent, TypeOK', TurnInv, NEW p \in Procs, WantsLine(p) \/ Asking(p),
         NEW v \in Wanted(p), Consume(p, v), rcount' = rcount, Grown,
         ~CountStale(p) =>
           LET b == view[p].bsl + 1
               k == view[p].eogs - b
           IN  k = 0 => pc[p] \in {"ready", "askready"} /\ lines'[b + 1].val = v,
         ~CountStale(p) /\ pc[p] \in {"ready", "askready"} =>
           view[p].eogs - (view[p].bsl + 1) = 0
  PROVE  OthersKeep(p) /\ Turn(p)'
<1> DEFINE u == view[p]
           w == Consumed(view[p], v)
           place == PlaceAfter(w)
<1>1. TypeOK /\ ControlSound(p) /\ u \in View /\ EOF \in Nat
  BY DEF Coherent, TypeOK, EOF
<1>2. /\ w \in View /\ w.eogs = u.eogs + 1 /\ w.bsl = u.bsl /\ w.expected = u.expected
      /\ w.cmd # NoCommand
  BY <1>1, WantedType, ConsumedType
<1>3. place \in {"turn", "dead", "neutral"}
  BY PlaceAfterType
<1>4. /\ w.cmd = IF u.cmd = NoCommand THEN v ELSE u.cmd
      /\ w.todo = IF u.cmd = NoCommand THEN Prompts[v] ELSE u.todo - 1
  <2> DEFINE c == IF u.cmd = NoCommand THEN v ELSE u.cmd
             t == IF u.cmd = NoCommand THEN Prompts[v] ELSE u.todo - 1
             s == Append(u.engine, v)
             e == u.eogs + 1
  <2>1. w = [u EXCEPT !.engine = s, !.eogs = e, !.cmd = c, !.todo = t]
    BY DEF Consumed
  <2> HIDE DEF c, t, s, e, w
  <2>2. w.cmd = c /\ w.todo = t
    BY <1>1, <2>1 DEF View
  <2> QED
    BY <2>2 DEF c, t
<1>5. Goto(p, place) /\ view' = [view EXCEPT ![p] = w]
  BY DEF Consume
<1>6. place = "neutral" => ~(w.todo > 0) /\ w.cmd \notin Deadly
  BY DEF PlaceAfter
<1> HIDE DEF w, place
<1>7. OthersKeep(p) /\ pc'[p] = place /\ view'[p] = w
  BY <1>1, <1>5, Moved
<1>8. ASSUME ~CountStale(p)
      PROVE  LET b == w.bsl + 1
                 k == w.eogs - b
                 c == lines'[b + 1].val
             IN  k >= 1 /\ w.cmd = c /\ w.todo = Prompts[c] + 1 - k
  <2>1. PICK b : b = u.bsl + 1
    OBVIOUS
  <2>2. PICK e : e = u.eogs
    OBVIOUS
  <2>3. InGame(p) /\ pc[p] \notin {"over", "ended"}
    BY DEF InGame, WantsLine, Asking
  <2>4. /\ b \in 1..e /\ e \in 1..EOF /\ w.bsl + 1 = b /\ w.eogs = e + 1
    BY <1>2, <1>8, <2>1, <2>2, <2>3, TurnBase
  <2>5. CASE e - b = 0
    <3>1. u.cmd = NoCommand /\ lines'[b + 1].val = v
      BY <1>1, <1>8, <2>1, <2>2, <2>5 DEF ControlSound
    <3>2. v \in Commands /\ Prompts[v] \in Nat
      BY <1>1, <3>1, WantedType, ValueAssumption
    <3> QED
      BY <1>1, <1>4, <2>4, <2>5, <3>1, <3>2
  <2>6. CASE e - b # 0
    <3>1. pc[p] \in {"turn", "askturn"} /\ u.cmd # NoCommand
      BY <1>1, <1>8, <2>1, <2>2, <2>3, <2>6 DEF ControlSound, WantsLine, Asking
    <3>2. e - b >= 1 /\ u.cmd = lines[b + 1].val /\ u.todo = Prompts[lines[b + 1].val] + 1 - (e - b)
      BY <1>8, <2>1, <2>2, <2>3, <3>1 DEF TurnInv, TurnSound
    <3>3. lines'[b + 1] = lines[b + 1]
      BY <1>1, <2>4, <3>2 DEF Grown
    <3>4. u.cmd \in Commands /\ Prompts[u.cmd] \in Nat
      BY <1>1, <3>1, ValueAssumption DEF View
    <3> QED
      BY <1>1, <1>4, <2>4, <3>1, <3>2, <3>3, <3>4
  <2> QED
    BY <2>5, <2>6
<1>9. w.todo \in Nat
  BY <1>2 DEF View
<1>10. CountStale(p)' = CountStale(p)
  BY <1>2, <1>7 DEF CountStale
<1>11. place = "neutral" => w.todo = 0
  BY <1>6, <1>9
<1>12. Turn(p)'
  BY <1>2, <1>3, <1>6, <1>7, <1>8, <1>10, <1>11 DEF Turn, TurnSound, MenuSound
<1> QED
  BY <1>7, <1>12

LEMMA ReplayTurn ==
  ASSUME Coherent, Coherent', TurnInv, NEW p \in Procs, Replay(p)
  PROVE  Turns'
<1> DEFINE l == LineAt(view[p].eogs)
           v == l.val
           b == view[p].bsl + 1
           k == view[p].eogs - b
           c == lines[b + 1].val
<1>1. /\ WantsLine(p) /\ v \in Wanted(p) /\ Consume(p, v)
      /\ HasLine(view[p].eogs) /\ l.kind = "input" /\ Kept /\ lines' = lines /\ rcount' = rcount
  BY DEF Replay, fileVars, envVars, outcomeVars, Kept
<1>2. InGame(p) /\ pc[p] \notin {"over", "ended"}
  BY <1>1 DEF InGame, WantsLine
<1>3. ASSUME ~CountStale(p)
      PROVE  /\ k \in Nat
             /\ k = 0 => v = c /\ c \in Commands
             /\ k > 0 => c \in Commands /\ Prompts[c] \in Nat /\ v \in Answers /\ k <= Prompts[c]
  BY <1>1, <1>2, <1>3, NextFits
<1>4. ASSUME ~CountStale(p) PROVE pc[p] \in {"ready", "askready"} => k = 0
  <2>1. ASSUME pc[p] \in {"ready", "askready"} PROVE k = 0 \/ k = Prompts[c] + 1
    BY <1>2, <1>4, <2>1 DEF TurnInv, TurnSound
  <2> HIDE DEF k, c, v
  <2> QED
    BY <1>3, <1>4, <2>1
<1>5. ASSUME ~CountStale(p), k = 0 PROVE pc[p] \in {"ready", "askready"} /\ lines'[b + 1].val = v
  <2>1. v \in Commands /\ lines'[b + 1].val = v
    BY <1>1, <1>3, <1>5
  <2>2. pc[p] \in {"ready", "askready"}
    BY <1>1, <2>1, ValueAssumption DEF Wanted
  <2> QED
    BY <2>1, <2>2
<1>6. Grown /\ TypeOK'
  BY <1>1 DEF Grown, EOF, Coherent, TypeOK
<1>7. OthersKeep(p) /\ Turn(p)'
  BY <1>1, <1>4, <1>5, <1>6, ConsumeTurn
<1> QED
  BY <1>1, <1>7, KeptTurn

\* A writer adds a line of its turn.
LEMMA AddTurn ==
  ASSUME Coherent, Coherent', TurnInv, NEW p \in Procs, InGame(p), pc[p] \notin {"over", "ended"},
         MayUpdate(p), NEW l, AppendLine(l), Fitting(l, view[p].bsl + 1),
         OthersKeep(p), Turn(p)', panics' = 0 => panics = 0
  PROVE  Turns'
<1>1. LinesFit'
  BY FitAppend DEF TurnInv
<1>2. rcount' = rcount /\ ~partial
  BY DEF AppendLine, MayUpdate, AtEOF
<1>3. Grown
  BY AppendAdds DEF Added, Grown, Coherent, TypeOK, EOF
<1> QED
  BY <1>1, <1>2, <1>3, TurnStep

LEMMA RecordTurn ==
  ASSUME Coherent, Coherent', TurnInv, NEW p \in Procs, NEW v \in Values, Record(p, v)
  PROVE  Turns'
<1>1. CASE UpdateRefused(p)
  BY <1>1, RefusedTurn
<1>2. CASE /\ MayUpdate(p)
           /\ AppendLine(InputLine(v))
           /\ Consume(p, v)
           /\ UNCHANGED <<hint, outcomeVars, envVars>>
  <2>1. /\ Asking(p) /\ v \in Wanted(p) /\ pc[p] \notin {"over", "ended"} /\ InGame(p)
        /\ view[p].mode # "watch" /\ ~CountStale(p)
    BY <1>2 DEF Record, Asking, InGame, MayUpdate
  <2>2. PICK b : b = view[p].bsl + 1
    OBVIOUS
  <2>3. /\ view[p].eogs = EOF /\ EOF \in Nat /\ b \in 1..EOF /\ TypeOK /\ view[p] \in View
        /\ IsSave(lines[b]) /\ \A n \in (b + 1)..EOF : ~IsSave(lines[n])
        /\ \A n \in 1..EOF : lines[n].kind # "Q"
    BY <1>2, <2>1, <2>2, WriterKnows, TurnBase DEF Coherent, TypeOK
  <2>4. Added /\ lines'[EOF + 1] = InputLine(v) /\ rcount' = rcount
    BY <1>2, <2>3, AppendAdds DEF AppendLine
  <2>5. pc[p] = "askready" => EOF - b = 0
    <3>1. pc[p] = "askready" => view[p].mode # "recoverquit" /\ view[p].mode # "none"
      BY <2>1 DEF TurnInv, TurnSound, ModeKnown
    <3>2. view[p].mode \in {"none", "play", "watch", "recoverquit"}
      BY <2>3 DEF View
    <3> QED
      BY <2>1, <2>2, <2>3, <3>1, <3>2 DEF TurnInv, TurnSound
  <2>6. pc[p] = "askturn" =>
          /\ EOF - b >= 1 /\ lines[b + 1].val \in Commands
          /\ EOF - b <= Prompts[lines[b + 1].val]
    <3>1. pc[p] = "askturn" => view[p].cmd # NoCommand /\ view[p].todo > 0 /\ view[p].todo \in Nat
      BY <2>3 DEF Coherent, ControlSound, View
    <3>2. view[p].cmd # NoCommand => view[p].cmd \in Commands /\ Prompts[view[p].cmd] \in Nat
      BY <2>3, ValueAssumption DEF View
    <3> QED
      BY <2>1, <2>2, <2>3, <3>1, <3>2 DEF TurnInv, TurnSound
  <2>7. pc[p] \in {"askready", "askturn"}
    BY <2>1 DEF Asking
  <2> DEFINE l == InputLine(v)
  <2>8. Fitting(l, b)
    BY <2>1, <2>3, <2>5, <2>6, <2>7 DEF Fitting, InputLine, IsSave, Wanted
  <2>9. l.val = v /\ l.kind = "input" /\ AppendLine(l)
    BY <1>2 DEF InputLine
  <2> HIDE DEF l
  <2>10. Grown /\ TypeOK'
    BY <2>3, <2>4 DEF Added, Grown, Coherent
  <2>11. EOF - b = 0 => pc[p] \in {"ready", "askready"} /\ lines'[b + 1].val = v
    <3>1. EOF - b = 0 => b + 1 = EOF + 1
      BY <2>3
    <3> QED
      BY <2>4, <2>6, <2>7, <2>9, <3>1 DEF l
  <2>12. OthersKeep(p) /\ Turn(p)'
    <3>1. pc[p] \in {"ready", "askready"} => view[p].eogs - (view[p].bsl + 1) = 0
      BY <2>2, <2>3, <2>5, <2>7
    <3>2. LET d == view[p].bsl + 1
              k == view[p].eogs - d
          IN  k = 0 => pc[p] \in {"ready", "askready"} /\ lines'[d + 1].val = v
      BY <2>2, <2>3, <2>11
    <3> QED
      BY <1>2, <2>1, <2>4, <2>10, <3>1, <3>2, ConsumeTurn
  <2>13. panics' = panics
    BY <1>2 DEF envVars, outcomeVars
  <2> QED
    BY <1>2, <2>1, <2>2, <2>8, <2>9, <2>12, <2>13, AddTurn
<1> QED
  BY <1>1, <1>2 DEF Record

\* At the end of a turn a save line is due.
LEMMA SaveFits ==
  ASSUME Coherent, TurnInv, NEW p \in Procs, pc[p] = "neutral", MayUpdate(p),
         NEW l \in {FullLine(view[p].engine), DiffLine(view[p].engine, view[p].bin),
                  SpoiltLine(view[p].bin)}
  PROVE  Fitting(l, view[p].bsl + 1)
<1>1. l.kind \in {"full", "diff", "spoilt"}
  BY DEF FullLine, DiffLine, SpoiltLine
<1>2. InGame(p) /\ pc[p] \notin {"over", "ended"} /\ ~CountStale(p)
  BY DEF InGame, MayUpdate
<1>3. PICK b : b = view[p].bsl + 1
  OBVIOUS
<1>4. PICK c : c = lines[b + 1].val
  OBVIOUS
<1>5. /\ view[p].eogs = EOF /\ EOF \in Nat /\ b \in 1..EOF
  BY <1>2, <1>3, WriterKnows, TurnBase
<1>6. /\ view[p].cmd # NoCommand /\ view[p].todo = 0 /\ view[p].cmd \notin Deadly
      /\ view[p].cmd = c /\ view[p].eogs - b >= 1
      /\ view[p].todo = Prompts[c] + 1 - (view[p].eogs - b)
  BY <1>2, <1>3, <1>4 DEF TurnInv, TurnSound
<1>7. Prompts[c] \in Nat
  BY <1>6, ValueAssumption DEF Coherent, TypeOK, View
<1> QED
  BY <1>1, <1>3, <1>4, <1>5, <1>6, <1>7 DEF Fitting

\* A turn ends with a save line, which a player finds or writes.
LEMMA NeutralTurnstateTurn ==
  ASSUME Coherent, Coherent', TurnInv, NEW p \in Procs, NeutralTurnstate(p)
  PROVE  Turns'
<1>1. /\ TypeOK /\ view[p] \in View /\ pc[p] = "neutral" /\ InGame(p)
      /\ pc[p] \notin {"over", "ended"}
  BY DEF NeutralTurnstate, Coherent, TypeOK, InGame
<1>2. CASE (WriteBackup(p) \/ WriteDiff(p)) /\ UNCHANGED <<outcomeVars, envVars>>
  <2>1. PICK l \in {FullLine(view[p].engine), DiffLine(view[p].engine, view[p].bin)} :
          AppendLine(l) /\ Saved(p, l)
    BY <1>2 DEF WriteBackup, WriteDiff
  <2>2. Fitting(l, view[p].bsl + 1)
    BY <1>1, <1>2, <2>1, SaveFits DEF WriteBackup, WriteDiff
  <2> DEFINE s == view[p].engine
             w == [view[p] EXCEPT !.bin = s, !.bsl = EOF, !.eogs = EOF + 1, !.cmd = NoCommand]
             u == IF l.kind = "full" THEN [w EXCEPT !.sbl = EOF] ELSE w
  <2>3. u.bsl = EOF /\ u.eogs = EOF + 1 /\ u.cmd = NoCommand
    BY <1>1 DEF View
  <2>4. view' = [view EXCEPT ![p] = u] /\ Goto(p, "ready") /\ MayUpdate(p)
    BY <1>2, <2>1 DEF Saved, WriteBackup, WriteDiff
  <2> HIDE DEF u
  <2>5. OthersKeep(p) /\ pc'[p] = "ready" /\ view'[p] = u
    BY <1>1, <2>4, Moved
  <2>6. EOF \in Nat
    BY <1>1 DEF TypeOK, EOF
  <2>7. Turn(p)'
    BY <2>3, <2>5, <2>6 DEF Turn, TurnSound, MenuSound
  <2> QED
    BY <1>1, <1>2, <2>1, <2>2, <2>4, <2>5, <2>7, AddTurn DEF envVars, outcomeVars
<1>3. CASE UpdateRefused(p)
  BY <1>3, RefusedTurn
<1>4. CASE /\ view[p].mode = "play" => ~CountStale(p) /\ ~AtEOF(p)
           /\ Goto(p, "saveline") /\ UNCHANGED <<fileVars, outcomeVars, view, envVars>>
  <2>1. Kept /\ OthersKeep(p) /\ pc'[p] = "saveline" /\ view' = view
    BY <1>1, <1>4 DEF fileVars, envVars, outcomeVars, Kept, OthersKeep, Goto, TypeOK
  <2>2. ASSUME view[p].mode = "play" PROVE ~NothingAt(view[p].eogs)
    <3>1. view[p].eogs \in 1..EOF /\ EOF \in Nat
      BY <1>1, <1>4, <2>2 DEF Coherent, ViewSound, PlaceKnown, TypeOK, EOF
    <3> QED
      BY <1>4, <2>2, <3>1 DEF AtEOF, NothingAt, HasLine, PartialAt
  <2>3. NothingAt(view[p].eogs)' = NothingAt(view[p].eogs)
    BY <1>4 DEF NothingAt, HasLine, PartialAt, EOF, fileVars
  <2>4. CountStale(p)' = CountStale(p) /\ lines' = lines
    BY <1>4 DEF CountStale, fileVars
  <2>5. Turn(p)'
    BY <1>1, <2>1, <2>2, <2>3, <2>4 DEF TurnInv, Turn, TurnSound, MenuSound
  <2> QED
    BY <2>1, <2>5, KeptTurn
<1> QED
  BY <1>2, <1>3, <1>4 DEF NeutralTurnstate

\* Who has found no save line to adopt is between two turns all the same.
LEMMA GoesOnTurn ==
  ASSUME Coherent, Coherent', TurnInv, NEW p \in Procs, pc[p] = "saveline", Goto(p, "ready"),
         view' = [view EXCEPT ![p].cmd = NoCommand], Kept, lines' = lines,
         ~CountStale(p) => view[p].mode # "play"
  PROVE  Turns'
<1> DEFINE w == [view[p] EXCEPT !.cmd = NoCommand]
<1>1. TypeOK /\ view[p] \in View
  BY DEF Coherent, TypeOK
<1>2. /\ w.cmd = NoCommand /\ w.eogs = view[p].eogs /\ w.bsl = view[p].bsl
      /\ w.mode = view[p].mode /\ w.expected = view[p].expected
  BY <1>1 DEF View
<1>3. view' = [view EXCEPT ![p] = w]
  OBVIOUS
<1> HIDE DEF w
<1>4. OthersKeep(p) /\ pc'[p] = "ready" /\ view'[p] = w
  BY <1>1, <1>3, Moved
<1>5. CountStale(p)' = CountStale(p)
  BY <1>2, <1>4 DEF CountStale, Kept
<1>6. ASSUME ~CountStale(p)
      PROVE  LET b == view[p].bsl + 1
                 k == view[p].eogs - b
                 c == lines[b + 1].val
             IN  k = Prompts[c] + 1
  <2>1. InGame(p) /\ pc[p] \notin {"over", "ended"}
    BY DEF InGame
  <2>2. PICK b : b = view[p].bsl + 1
    OBVIOUS
  <2>3. PICK c : c = lines[b + 1].val
    OBVIOUS
  <2>4. /\ view[p].cmd # NoCommand /\ view[p].todo = 0 /\ view[p].cmd = c
        /\ view[p].todo = Prompts[c] + 1 - (view[p].eogs - b)
    BY <1>6, <2>1, <2>2, <2>3 DEF TurnInv, TurnSound
  <2>5. b \in 1..view[p].eogs /\ view[p].eogs \in 1..EOF /\ EOF \in Nat
    BY <1>6, <2>1, <2>2, TurnBase
  <2>6. Prompts[c] \in Nat
    BY <1>1, <2>4, ValueAssumption DEF View
  <2> QED
    BY <2>2, <2>3, <2>4, <2>5, <2>6
<1>7. Turn(p)'
  BY <1>2, <1>4, <1>5, <1>6 DEF Turn, TurnSound, MenuSound
<1> QED
  BY <1>4, <1>7, KeptTurn

LEMMA SaveLineTurn ==
  ASSUME Coherent, Coherent', TurnInv, NEW p \in Procs, ReplaySaveLine(p) \/ SaveLineTimeout(p)
  PROVE  Turns'
<1>1. Kept /\ pc[p] = "saveline" /\ TypeOK /\ view[p] \in View /\ lines' = lines
  BY DEF ReplaySaveLine, SaveLineTimeout, Kept, fileVars, envVars, outcomeVars, Coherent, TypeOK
<1>2. InGame(p) /\ pc[p] \notin {"over", "ended"}
  BY <1>1 DEF InGame
<1>3. CASE SaveLineTimeout(p)
  <2>1. ~CountStale(p) => view[p].mode # "play"
    BY <1>1, <1>2, <1>3 DEF SaveLineTimeout, TurnInv, TurnSound
  <2> QED
    BY <1>1, <1>3, <2>1, GoesOnTurn DEF SaveLineTimeout
<1>4. CASE ReplaySaveLine(p)
  <2> DEFINE n == view[p].eogs
             l == LineAt(n)
  <2>1. HasLine(n)
    BY <1>4 DEF ReplaySaveLine
  <2>2. CASE IsSave(l)
    <3>1. n \in 0..(EOF - 1)
      BY <1>1, <2>1 DEF HasLine, View, TypeOK, EOF
    <3>2. Adopt(view[p], n) \in View
      BY <1>1, <3>1, AdoptType
    <3>3. view' = [view EXCEPT ![p] = Loaded(Adopt(view[p], n))] /\ Goto(p, "ready")
      BY <1>4, <2>2 DEF ReplaySaveLine
    <3> QED
      BY <1>1, <3>2, <3>3, LoadedTurn
  <2>3. CASE l.kind = "Q"
    BY <1>1, <1>4, <2>3, ExitTurn DEF ReplaySaveLine, IsSave
  <2>4. CASE ~IsSave(l) /\ l.kind # "Q"
    <3>1. ASSUME ~CountStale(p) PROVE FALSE
      <4>1. n \in 1..(EOF - 1) /\ EOF \in Nat
        BY <1>2, <2>1, <3>1, NextLine
      <4>2. l.kind = "input"
        <5>1. n \in 0..(EOF - 1)
          BY <4>1
        <5>2. l \in Line
          BY <1>1, <5>1, LineAtType
        <5> QED
          BY <2>4, <5>2 DEF Line, IsSave
      <4>3. PICK b : b = view[p].bsl + 1
        OBVIOUS
      <4>4. PICK k : k = n - b
        OBVIOUS
      <4>5. PICK c : c = lines[b + 1].val
        OBVIOUS
      <4>6. k \in Nat /\ (k > 0 => Prompts[c] \in Nat /\ k <= Prompts[c])
        BY <1>2, <2>1, <3>1, <4>2, <4>3, <4>4, <4>5, NextFits
      <4>7. k >= 1 /\ view[p].todo = Prompts[c] + 1 - k /\ view[p].todo = 0
        BY <1>1, <1>2, <3>1, <4>3, <4>4, <4>5 DEF TurnInv, TurnSound
      <4> QED
        BY <4>6, <4>7
    <3>2. view' = [view EXCEPT ![p].cmd = NoCommand] /\ Goto(p, "ready")
      BY <1>4, <2>4 DEF ReplaySaveLine
    <3> QED
      BY <1>1, <3>1, <3>2, GoesOnTurn
  <2> QED
    BY <2>2, <2>3, <2>4
<1> QED
  BY <1>3, <1>4

\* A player whose count is the file's always finds a line that its engine wants.
LEMMA NoDesync ==
  ASSUME Coherent, TurnInv, NEW p \in Procs, Desync(p), view[p].mode = "play", ~CountStale(p)
  PROVE  FALSE
<1> DEFINE n == view[p].eogs
           l == LineAt(n)
<1>1. /\ WantsLine(p) /\ HasLine(n) /\ l.kind # "Q"
      /\ l.kind # "input" \/ l.val \notin Wanted(p)
  BY DEF Desync
<1>2. InGame(p) /\ pc[p] \notin {"over", "ended"} /\ pc[p] \in {"ready", "turn"}
  BY <1>1 DEF InGame, WantsLine
<1>3. PICK b : b = view[p].bsl + 1
  OBVIOUS
<1>4. PICK k : k = n - b
  OBVIOUS
<1>5. PICK c : c = lines[b + 1].val
  OBVIOUS
<1>6. /\ k \in Nat
      /\ k = 0 => ~IsSave(l) /\ (l.kind = "input" => l.val = c /\ c \in Commands)
      /\ k > 0 => /\ c \in Commands /\ Prompts[c] \in Nat
                  /\ l.kind = "input" => l.val \in Answers /\ k <= Prompts[c]
                  /\ IsSave(l) => k = Prompts[c] + 1
  BY <1>1, <1>2, <1>3, <1>4, <1>5, NextFits
<1>7. IsSave(l) \/ l.kind = "input"
  <2>1. n \in 1..(EOF - 1) /\ EOF \in Nat
    BY <1>1, <1>2, NextLine
  <2>2. n \in 0..(EOF - 1) /\ TypeOK
    BY <2>1 DEF Coherent
  <2>3. l \in Line
    BY <2>2, LineAtType
  <2> QED
    BY <1>1, <2>3 DEF Line, IsSave
<1>8. CASE pc[p] = "ready"
  <2>1. k = 0
    BY <1>2, <1>3, <1>4, <1>8 DEF TurnInv, TurnSound
  <2> QED
    BY <1>1, <1>6, <1>7, <1>8, <2>1 DEF Wanted
<1>9. CASE pc[p] = "turn"
  <2>1. view[p].cmd # NoCommand /\ view[p].todo > 0 /\ view[p].todo \in Nat
    BY <1>9 DEF Coherent, ControlSound, TypeOK, View
  <2>2. k >= 1 /\ view[p].todo = Prompts[c] + 1 - k
    BY <1>2, <1>3, <1>4, <1>5, <2>1 DEF TurnInv, TurnSound
  <2>3. k > 0 /\ k # Prompts[c] + 1
    BY <1>6, <2>1, <2>2
  <2> QED
    BY <1>1, <1>6, <1>7, <1>9, <2>3 DEF Wanted
<1> QED
  BY <1>2, <1>8, <1>9

LEMMA ReadLineTurn ==
  ASSUME Coherent, Coherent', TurnInv, NEW p \in Procs, ReadLine(p)
  PROVE  Turns'
<1>1. TypeOK
  BY DEF Coherent
<1>2. EOF \in 1..EOF /\ StartOfTurn(p) \in 1..EOF
  BY RecoveryOffset
<1>3. CASE Ask(p) \/ ServerCancel(p)
  <2>1. Kept /\ OthersKeep(p) /\ view' = view /\ lines' = lines /\ CountStale(p)' = CountStale(p)
    BY <1>1, <1>3
    DEF Ask, ServerCancel, fileVars, envVars, outcomeVars, Kept, OthersKeep, Goto, TypeOK, CountStale
  <2>2. /\ \/ pc[p] \in {"ready", "askready"} /\ pc'[p] \in {"ready", "askready"}
           \/ pc[p] \in {"turn", "askturn"} /\ pc'[p] \in {"turn", "askturn"}
        /\ pc'[p] = "askready" => view[p].mode # "recoverquit"
    <3>1. CASE Ask(p)
      <4>1. pc[p] = "ready" \/ pc[p] = "turn"
        BY <3>1 DEF Ask, WantsLine
      <4>2. pc'[p] = IF pc[p] = "ready" THEN "askready" ELSE "askturn"
        BY <1>1, <3>1 DEF Ask, Goto, TypeOK
      <4>3. view[p].mode = "recoverquit" => pc[p] = "turn"
        BY <3>1 DEF Ask
      <4> QED
        BY <4>1, <4>2, <4>3
    <3>2. CASE ServerCancel(p)
      <4>1. pc[p] = "askready" \/ pc[p] = "askturn"
        BY <3>2 DEF ServerCancel, Asking
      <4>2. pc'[p] = IF pc[p] = "askready" THEN "ready" ELSE "turn"
        BY <1>1, <3>2 DEF ServerCancel, Goto, TypeOK
      <4> QED
        BY <4>1, <4>2
    <3> QED
      BY <1>3, <3>1, <3>2
  <2>3. InGame(p) /\ pc[p] \notin {"over", "ended"}
    BY <2>2 DEF InGame
  <2>4. TurnSound(p)'
    BY <2>1, <2>2, <2>3 DEF TurnInv, TurnSound
  <2>5. Turn(p)'
    BY <2>2, <2>4 DEF Turn, MenuSound
  <2> QED
    BY <2>1, <2>5, KeptTurn
<1>4. CASE ReplayQuit(p) \/ RecoverQuitStuck(p)
  BY <1>4, ExitTurn DEF ReplayQuit, RecoverQuitStuck, Kept, fileVars, envVars, outcomeVars
<1>5. CASE ReplayPartial(p)
  BY <1>2, <1>5, AskRecoveryTurn DEF ReplayPartial, PartialAt, Kept, fileVars, envVars, outcomeVars
<1>6. CASE Desync(p)
  <2>1. Kept
    BY <1>6 DEF Desync, Kept, fileVars, envVars, outcomeVars
  <2>2. Exit(p, "restart") \/ \E r \in {EOF, StartOfTurn(p)} : AskRecovery(p, r)
    BY <1>6 DEF Desync
  <2>3. ~(view[p].mode = "play" /\ ~CountStale(p))
    BY <1>6, NoDesync
  <2> QED
    BY <1>2, <2>1, <2>2, <2>3, ExitTurn, AskRecoveryTurn
<1> QED
  BY <1>3, <1>4, <1>5, <1>6, ReplayTurn, SaveLineTurn DEF ReadLine

LEMMA LogQuitTurn ==
  ASSUME Coherent, Coherent', TurnInv, NEW p \in Procs, InGame(p), pc[p] \notin {"over", "ended"},
         LogQuit(p)
  PROVE  Turns'
<1>1. CASE UpdateRefused(p)
  BY <1>1, RefusedTurn
<1>2. CASE /\ MayUpdate(p)
           /\ AppendLine(QuitLine)
           /\ view' = [view EXCEPT ![p].eogs = EOF + 1]
           /\ Goto(p, "over")
           /\ UNCHANGED <<hint, outcomeVars, envVars>>
  <2>1. OthersKeep(p) /\ pc'[p] = "over"
    BY <1>2, Moved DEF Coherent
  <2>2. Turn(p)' /\ panics' = panics
    BY <1>2, <2>1 DEF Turn, TurnSound, MenuSound, envVars, outcomeVars
  <2> DEFINE l == QuitLine
  <2>3. Fitting(l, view[p].bsl + 1) /\ AppendLine(l)
    BY <1>2 DEF Fitting, QuitLine, IsSave
  <2> HIDE DEF l
  <2> QED
    BY <1>2, <2>1, <2>2, <2>3, AddTurn
<1> QED
  BY <1>1, <1>2 DEF LogQuit

LEMMA UserTurn ==
  ASSUME Coherent, Coherent', TurnInv, NEW p \in Procs, User(p)
  PROVE  Turns'
<1>1. CASE ExitSave(p)
  <2>1. CASE UpdateRefused(p)
    BY <2>1, RefusedTurn
  <2>2. CASE Exit(p, "off") /\ UNCHANGED <<fileVars, outcomeVars, envVars>>
    BY <2>2, ExitTurn DEF Kept, fileVars, envVars, outcomeVars
  <2> QED
    BY <1>1, <2>1, <2>2 DEF ExitSave
<1>2. CASE Quit(p)
  BY <1>2, LogQuitTurn DEF Quit, Asking, InGame
<1> QED
  BY <1>1, <1>2, RecordTurn DEF User

LEMMA GameOverTurn ==
  ASSUME Coherent, Coherent', TurnInv, NEW p \in Procs, GameOver(p)
  PROVE  Turns'
<1>1. TypeOK
  BY DEF Coherent
<1>2. CASE Die(p)
  <2>1. CASE Exit(p, "off") /\ UNCHANGED <<fileVars, outcomeVars, envVars>>
    BY <2>1, ExitTurn DEF Kept, fileVars, envVars, outcomeVars
  <2>2. CASE LogQuit(p)
    BY <1>2, <2>2, LogQuitTurn DEF Die, InGame
  <2> QED
    BY <1>2, <2>1, <2>2 DEF Die
<1>3. CASE LogGameOver(p)
  <2>1. CASE UpdateRefused(p)
    BY <2>1, RefusedTurn
  <2>2. CASE Goto(p, "ended") /\ UNCHANGED <<lines, partial, rcount, hint, outcomeVars, view, envVars>>
    <3>1. Kept /\ OthersKeep(p) /\ pc'[p] = "ended"
      BY <1>1, <2>2 DEF Kept, envVars, outcomeVars, OthersKeep, Goto, TypeOK
    <3>2. Turn(p)'
      BY <3>1 DEF Turn, TurnSound, MenuSound
    <3> QED
      BY <3>1, <3>2, KeptTurn
  <2> QED
    BY <1>3, <2>1, <2>2 DEF LogGameOver
<1>4. CASE FinishGame(p)
  BY <1>4, ExitTurn DEF FinishGame, Kept, fileVars, envVars, outcomeVars
<1> QED
  BY <1>2, <1>3, <1>4 DEF GameOver

LEMMA PanicTurn ==
  ASSUME Coherent, Coherent', TurnInv, NEW p \in Procs, Panic(p) \/ PanicInDiff(p)
  PROVE  Turns'
<1>1. panics' # 0 /\ EOF \in 1..EOF /\ StartOfTurn(p) \in 1..EOF
  BY RecoveryOffset DEF Panic, PanicInDiff, DiffFails, Coherent, TypeOK
<1>2. CASE Panic(p)
  <2>1. Kept /\ \E r \in {EOF, StartOfTurn(p)} : AskRecovery(p, r)
    BY <1>1, <1>2 DEF Panic, Kept, fileVars
  <2> QED
    BY <1>1, <2>1, AskRecoveryTurn
<1>3. CASE PanicInDiff(p)
  <2>1. OthersKeep(p) /\ pc'[p] = "recover"
    BY <1>3, Moved DEF PanicInDiff, DiffFails, AskRecovery, Coherent
  <2>2. Turn(p)'
    BY <1>1, <2>1 DEF Turn, TurnSound, MenuSound, InGame
  <2>3. InGame(p) /\ pc[p] \notin {"over", "ended"} /\ pc[p] = "neutral" /\ MayUpdate(p)
    BY <1>3 DEF PanicInDiff, DiffFails, InGame
  <2>4. PICK l \in {SpoiltLine(view[p].bin), DiffLine(view[p].engine, view[p].bin)} :
          AppendLine(l)
    BY <1>3 DEF PanicInDiff, DiffFails
  <2>5. Fitting(l, view[p].bsl + 1)
    BY <2>3, <2>4, SaveFits
  <2> QED
    BY <1>1, <2>1, <2>2, <2>3, <2>4, <2>5, AddTurn
<1> QED
  BY <1>2, <1>3

\* A recovery makes every other view stale.
LEMMA TruncateTurn ==
  ASSUME Coherent, Coherent', TurnInv, NEW p \in Procs, pc[p] \in {"recover", "unquit"},
         ~CountStale(p), Truncate(p), OthersKeep(p), Turn(p)', panics' = panics
  PROVE  Turns'
<1>1. view[p].roff \in 1..EOF /\ TypeOK
  BY DEF Coherent, ViewSound
<1>2. LinesFit'
  BY <1>1, FitCut DEF Truncate, TurnInv
<1> QED
  BY <1>2, TurnStep DEF Truncate

LEMMA RecoveryTurn ==
  ASSUME Coherent, Coherent', TurnInv, NEW p \in Procs, Recovery(p)
  PROVE  Turns'
<1>1. CASE ViewerLostTrack(p) \/ RecoveryRefused(p)
  BY <1>1, ExitTurn DEF ViewerLostTrack, RecoveryRefused, Kept, fileVars, envVars, outcomeVars
<1>2. CASE Recover(p)
  <2>1. Exit(p, "restart") /\ pc[p] = "recover" /\ panics' = panics
    BY <1>2 DEF Recover, envVars, outcomeVars
  <2>2. CASE UNCHANGED fileVars
    BY <2>1, <2>2, ExitTurn DEF Kept, fileVars
  <2>3. CASE ~CountStale(p) /\ Truncate(p)
    <3>1. OthersKeep(p) /\ pc'[p] = "restart"
      BY <2>1, Moved DEF Exit, Coherent
    <3>2. Turn(p)'
      BY <3>1, NoTurn DEF InGame
    <3> QED
      BY <2>1, <2>3, <3>1, <3>2, TruncateTurn
  <2> QED
    BY <1>2, <2>2, <2>3 DEF Recover
<1> QED
  BY <1>1, <1>2 DEF Recovery

LEMMA KillTurn ==
  ASSUME Coherent, Coherent', TurnInv, NEW p \in Procs, Kill(p)
  PROVE  Turns'
<1>1. Exit(p, "off") /\ TypeOK /\ panics' = panics
  BY DEF Kill, Crash, CrashInLine, CrashBeforeHint, CrashInRecovery, MayCrash, Coherent
<1>2. OthersKeep(p) /\ pc'[p] = "off"
  BY <1>1, Moved DEF Exit
<1>3. Turn(p)'
  BY <1>2, NoTurn DEF InGame
<1>4. CASE Crash(p) \/ CrashInLine(p)
  BY <1>1, <1>4, ExitTurn DEF Crash, CrashInLine, fileVars, Kept
<1>5. CASE CrashBeforeHint(p)
  <2>1. InGame(p) /\ pc[p] \notin {"over", "ended"} /\ pc[p] = "neutral" /\ MayUpdate(p)
    BY <1>5 DEF CrashBeforeHint, InGame
  <2> DEFINE l == FullLine(view[p].engine)
  <2>2. AppendLine(l) /\ Fitting(l, view[p].bsl + 1)
    BY <1>5, <2>1, SaveFits DEF CrashBeforeHint
  <2> HIDE DEF l
  <2> QED
    BY <1>1, <1>2, <1>3, <2>1, <2>2, AddTurn
<1>6. CASE CrashInRecovery(p)
  <2>1. rcount' = rcount + 1 /\ lines' = lines
    BY <1>6 DEF CrashInRecovery
  <2>2. LinesFit'
    BY <2>1 DEF TurnInv, LinesFit, LastSave, IsSave, EOF
  <2> QED
    BY <1>1, <1>2, <1>3, <2>1, <2>2, TurnStep
<1> QED
  BY <1>4, <1>5, <1>6 DEF Kill

LEMMA LoadTurn ==
  ASSUME Coherent, Coherent', TurnInv, NEW p \in Procs, Load(p)
  PROVE  Turns'
<1>1. TypeOK /\ view[p] \in View /\ EOF \in Nat
  BY DEF Coherent, TypeOK, EOF
<1>2. CASE PlayGame(p) \/ SyncHeader(p) \/ SyncBackup(p) \/ SyncForward(p)
  <2>1. OthersKeep(p)
    BY <1>1, <1>2
    DEF PlayGame, SyncHeader, SyncBackup, SyncForward, TypeOK, Goto, OthersKeep
  <2>2. ~InGame(p)' /\ pc'[p] \notin {"unquit", "recover"}
    BY <1>1, <1>2
    DEF PlayGame, SyncHeader, SyncBackup, SyncForward, TypeOK, Goto, InGame
  <2>3. Kept
    BY <1>2 DEF PlayGame, SyncHeader, SyncBackup, SyncForward, fileVars, envVars, outcomeVars, Kept
  <2> QED
    BY <2>1, <2>2, <2>3, AwayTurn
<1>3. CASE PlayGameOver(p) \/ DiffError(p)
  BY <1>3, ExitTurn DEF PlayGameOver, DiffError, fileVars, envVars, outcomeVars, Kept
<1>4. CASE UndoQuitRead(p)
  <2> DEFINE w == [view[p] EXCEPT !.expected = rcount, !.roff = EOF - 1]
             place == IF lines[EOF].kind = "Q" THEN "unquit" ELSE "sync"
  <2>1. w.roff = EOF - 1
    BY <1>1 DEF View
  <2>2. view' = [view EXCEPT ![p] = w] /\ Goto(p, place)
    BY <1>4 DEF UndoQuitRead
  <2> HIDE DEF w
  <2>3. OthersKeep(p) /\ pc'[p] = place /\ view'[p] = w
    BY <1>1, <2>2, Moved
  <2>4. Kept /\ lines' = lines /\ EOF' = EOF
    BY <1>4 DEF UndoQuitRead, fileVars, envVars, outcomeVars, Kept, EOF
  <2>5. pc'[p] = "unquit" => view'[p].roff < EOF' /\ lines'[view'[p].roff + 1].kind = "Q"
    <3>1. EOF - 1 < EOF /\ (EOF - 1) + 1 = EOF
      BY <1>1
    <3> QED
      BY <2>1, <2>3, <2>4, <3>1
  <2>6. Turn(p)'
    BY <2>3, <2>5 DEF Turn, TurnSound, MenuSound, InGame
  <2> QED
    BY <2>3, <2>4, <2>6, KeptTurn
<1>5. CASE UndoQuit(p)
  <2>1. CASE Exit(p, "restart") /\ UNCHANGED fileVars
    BY <1>5, <2>1, ExitTurn DEF UndoQuit, fileVars, envVars, outcomeVars, Kept
  <2>2. CASE /\ ~CountStale(p)
             /\ Truncate(p)
             /\ view' = [view EXCEPT ![p].expected = @ + 1]
             /\ Goto(p, "sync")
    <3>1. OthersKeep(p) /\ pc'[p] = "sync"
      BY <1>1, <2>2, Moved
    <3>2. Turn(p)' /\ pc[p] = "unquit" /\ panics' = panics
      BY <1>5, <3>1, NoTurn DEF InGame, UndoQuit, envVars, outcomeVars
    <3> QED
      BY <2>2, <3>1, <3>2, TruncateTurn
  <2> QED
    BY <1>5, <2>1, <2>2 DEF UndoQuit
<1>6. CASE SyncEnd(p)
  <2>1. Kept
    BY <1>6 DEF SyncEnd, fileVars, envVars, outcomeVars, Kept
  <2>2. CASE partial
    <3>1. AskRecovery(p, EOF) /\ EOF \in 1..EOF
      BY <1>6, <2>2, RecoveryOffset DEF SyncEnd, AskRecovery
    <3> QED
      BY <2>1, <2>2, <3>1, AskRecoveryTurn
  <2>3. CASE ~partial
    BY <1>1, <1>6, <2>1, <2>3, LoadedTurn DEF SyncEnd
  <2> QED
    BY <2>2, <2>3
<1> QED
  BY <1>2, <1>3, <1>4, <1>5, <1>6 DEF Load

\* What a session is for is said when it starts, and does not change.
Says(p) == OthersKeep(p) /\ (pc'[p] \in {"off", "restart"} \/ view'[p].mode # "none")

LEMMA ViewModes ==
  ASSUME TypeOK, NEW w \in View
  PROVE  /\ Loaded(w).mode = w.mode
         /\ \A v \in Values : Consumed(w, v).mode = w.mode
         /\ \A n \in 0..(EOF - 1) : Adopt(w, n).mode = w.mode
         /\ \A r : [w EXCEPT !.roff = r].mode = w.mode
         /\ \A e : [w EXCEPT !.eogs = e].mode = w.mode
         /\ [w EXCEPT !.cmd = NoCommand].mode = w.mode
BY DEF View, Loaded, Consumed, Adopt

LEMMA LeaverSays ==
  ASSUME TypeOK, NEW p \in Procs, NEW place \in {"off", "restart"}, Exit(p, place)
  PROVE  Says(p)
BY Moved DEF Exit, Says

LEMMA MoverSays ==
  ASSUME TypeOK, ModeKnown, NEW p \in Procs, pc[p] \notin {"off", "restart"},
         NEW w, w.mode = view[p].mode, NEW place,
         Goto(p, place), view' = [view EXCEPT ![p] = w]
  PROVE  Says(p)
BY Moved DEF Says, ModeKnown

LEMMA LoadSays ==
  ASSUME Coherent, ModeKnown, NEW p \in Procs, Load(p)
  PROVE  Says(p)
<1>1. TypeOK /\ view[p] \in View /\ EOF \in Nat
  BY DEF Coherent, TypeOK, EOF
<1>2. CASE PlayGame(p)
  <2>1. PICK mode \in {"play", "watch", "recoverquit"}, place \in {"undo", "sync"} :
          view' = [view EXCEPT ![p] = [NoView EXCEPT !.mode = mode]] /\ Goto(p, place)
    BY <1>2 DEF PlayGame
  <2>2. [NoView EXCEPT !.mode = mode].mode = mode
    BY DEF NoView
  <2> QED
    BY <1>1, <2>1, <2>2, Moved DEF Says
<1>3. CASE PlayGameOver(p) \/ DiffError(p)
  BY <1>1, <1>3, LeaverSays DEF PlayGameOver, DiffError
<1>4. CASE UndoQuitRead(p) \/ SyncHeader(p) \/ SyncBackup(p)
  <2>1. OthersKeep(p) /\ pc[p] \notin {"off", "restart"} /\ view'[p].mode = view[p].mode
    BY <1>1, <1>4
    DEF UndoQuitRead, SyncHeader, SyncBackup, TypeOK, Goto, OthersKeep, View
  <2> QED
    BY <2>1 DEF Says, ModeKnown
<1>5. CASE UndoQuit(p)
  <2>1. CASE Exit(p, "restart")
    BY <1>1, <2>1, LeaverSays
  <2>2. CASE view' = [view EXCEPT ![p].expected = @ + 1] /\ Goto(p, "sync")
    <3>1. OthersKeep(p) /\ pc[p] \notin {"off", "restart"} /\ view'[p].mode = view[p].mode
      BY <1>1, <1>5, <2>2 DEF UndoQuit, TypeOK, Goto, OthersKeep, View
    <3> QED
      BY <3>1 DEF Says, ModeKnown
  <2> QED
    BY <1>5, <2>1, <2>2 DEF UndoQuit
<1>6. CASE SyncForward(p)
  <2>1. PICK n \in SavesAfter(view[p].bsl) : view' = [view EXCEPT ![p] = Adopt(view[p], n)]
    BY <1>6 DEF SyncForward
  <2>2. n \in 0..(EOF - 1)
    BY <1>1, <2>1 DEF SavesAfter, View
  <2>3. Adopt(view[p], n).mode = view[p].mode /\ pc' = pc /\ pc[p] = "scan"
    BY <1>1, <1>6, <2>2, ViewModes DEF SyncForward
  <2>4. OthersKeep(p) /\ view'[p] = Adopt(view[p], n)
    BY <1>1, <2>1, <2>3 DEF OthersKeep, TypeOK
  <2> QED
    BY <2>3, <2>4 DEF Says, ModeKnown
<1>7. CASE SyncEnd(p)
  <2>1. \E w \in {Loaded(view[p]), [view[p] EXCEPT !.roff = EOF]} :
          \E place : view' = [view EXCEPT ![p] = w] /\ Goto(p, place)
    BY <1>7 DEF SyncEnd
  <2>2. pc[p] = "scan"
    BY <1>7 DEF SyncEnd
  <2> QED
    BY <1>1, <2>1, <2>2, ViewModes, MoverSays
<1> QED
  BY <1>2, <1>3, <1>4, <1>5, <1>6, <1>7 DEF Load

LEMMA ReadLineSays ==
  ASSUME Coherent, ModeKnown, NEW p \in Procs, ReadLine(p)
  PROVE  Says(p)
<1>1. TypeOK /\ view[p] \in View /\ EOF \in Nat /\ pc[p] \notin {"off", "restart"}
  BY DEF Coherent, TypeOK, EOF, ReadLine, Ask, ServerCancel, Replay, ReplayQuit, ReplayPartial,
         Desync, RecoverQuitStuck, ReplaySaveLine, SaveLineTimeout, WantsLine, Asking
<1>2. CASE Ask(p) \/ ServerCancel(p)
  <2>1. OthersKeep(p) /\ view' = view
    BY <1>1, <1>2 DEF Ask, ServerCancel, OthersKeep, Goto, TypeOK
  <2> QED
    BY <1>1, <2>1 DEF Says, ModeKnown
<1>3. CASE ReplayQuit(p) \/ RecoverQuitStuck(p)
  BY <1>1, <1>3, LeaverSays DEF ReplayQuit, RecoverQuitStuck
<1>4. CASE ReplayPartial(p) \/ Desync(p)
  <2>1. Exit(p, "restart") \/ \E r : AskRecovery(p, r)
    BY <1>4 DEF ReplayPartial, Desync
  <2>2. ASSUME NEW r, AskRecovery(p, r) PROVE Says(p)
    BY <1>1, <2>2, ViewModes, MoverSays DEF AskRecovery
  <2> QED
    BY <1>1, <2>1, <2>2, LeaverSays
<1>5. CASE Replay(p)
  <2> DEFINE v == LineAt(view[p].eogs).val
  <2>1. v \in Values /\ Consume(p, v)
    <3>1. WantsLine(p) /\ v \in Wanted(p) /\ Consume(p, v)
      BY <1>5 DEF Replay
    <3> QED
      BY <1>1, <3>1, WantedType DEF Coherent
  <2> HIDE DEF v
  <2> QED
    BY <1>1, <2>1, ViewModes, MoverSays DEF Consume
<1>6. CASE ReplaySaveLine(p) \/ SaveLineTimeout(p)
  <2> DEFINE n == view[p].eogs
  <2>1. \/ Exit(p, "off")
        \/ Goto(p, "ready") /\ view' = [view EXCEPT ![p].cmd = NoCommand]
        \/ HasLine(n) /\ Goto(p, "ready")
           /\ view' = [view EXCEPT ![p] = Loaded(Adopt(view[p], n))]
    BY <1>6 DEF ReplaySaveLine, SaveLineTimeout
  <2>2. CASE Goto(p, "ready") /\ view' = [view EXCEPT ![p].cmd = NoCommand]
    BY <1>1, <2>2, ViewModes, MoverSays
  <2>3. CASE HasLine(n) /\ Goto(p, "ready")
             /\ view' = [view EXCEPT ![p] = Loaded(Adopt(view[p], n))]
    <3>1. n \in 0..(EOF - 1)
      BY <1>1, <2>3 DEF HasLine, View
    <3>2. Adopt(view[p], n) \in View /\ Adopt(view[p], n).mode = view[p].mode
      BY <1>1, <3>1, AdoptType, ViewModes
    <3>3. Loaded(Adopt(view[p], n)).mode = view[p].mode
      BY <1>1, <3>2, ViewModes
    <3> QED
      BY <1>1, <2>3, <3>3, MoverSays
  <2> QED
    BY <1>1, <2>1, <2>2, <2>3, LeaverSays
<1> QED
  BY <1>2, <1>3, <1>4, <1>5, <1>6 DEF ReadLine

LEMMA OtherSays ==
  ASSUME Coherent, ModeKnown, NEW p \in Procs,
         User(p) \/ EndTurn(p) \/ GameOver(p) \/ Panic(p) \/ PanicInDiff(p) \/ Recovery(p)
           \/ Kill(p)
  PROVE  Says(p)
<1>1. TypeOK /\ view[p] \in View /\ EOF \in Nat
  BY DEF Coherent, TypeOK, EOF
<1>2. ASSUME UpdateRefused(p) PROVE Says(p)
  BY <1>1, <1>2, LeaverSays DEF UpdateRefused
<1>3. ASSUME LogQuit(p), pc[p] \notin {"off", "restart"} PROVE Says(p)
  <2>1. UpdateRefused(p) \/ (Goto(p, "over") /\ view' = [view EXCEPT ![p].eogs = EOF + 1])
    BY <1>3 DEF LogQuit
  <2> QED
    BY <1>1, <1>2, <1>3, <2>1, ViewModes, MoverSays
<1>4. CASE User(p)
  <2>1. CASE ExitSave(p) \/ Quit(p)
    BY <1>1, <1>2, <1>3, <2>1, LeaverSays DEF ExitSave, Quit, Asking
  <2>2. ASSUME NEW v \in Values, Record(p, v) PROVE Says(p)
    <3>1. CASE Consume(p, v)
      <4>1. pc[p] \notin {"off", "restart"}
        BY <2>2 DEF Record, Asking
      <4> QED
        BY <1>1, <3>1, <4>1, ViewModes, MoverSays DEF Consume
    <3> QED
      BY <1>2, <2>2, <3>1 DEF Record
  <2> QED
    BY <1>4, <2>1, <2>2 DEF User
<1>5. CASE EndTurn(p)
  <2>1. pc[p] = "neutral"
    BY <1>5 DEF EndTurn, NeutralTurnstate
  <2>2. CASE WriteBackup(p) \/ WriteDiff(p)
    <3>1. PICK l : Saved(p, l) /\ Goto(p, "ready")
      BY <2>2 DEF WriteBackup, WriteDiff
    <3>2. view'[p].mode = view[p].mode /\ OthersKeep(p)
      BY <1>1, <3>1 DEF Saved, TypeOK, View, OthersKeep, Goto
    <3> QED
      BY <2>1, <3>2 DEF Says, ModeKnown
  <2>3. CASE Goto(p, "saveline") /\ view' = view
    <3>1. OthersKeep(p)
      BY <1>1, <2>3 DEF OthersKeep, Goto, TypeOK
    <3> QED
      BY <2>1, <2>3, <3>1 DEF Says, ModeKnown
  <2> QED
    BY <1>2, <1>5, <2>2, <2>3 DEF EndTurn, NeutralTurnstate
<1>6. CASE GameOver(p)
  <2>1. CASE Die(p) \/ FinishGame(p)
    BY <1>1, <1>3, <2>1, LeaverSays DEF Die, FinishGame
  <2>2. CASE LogGameOver(p)
    <3>1. CASE Goto(p, "ended") /\ view' = view
      <4>1. OthersKeep(p) /\ pc[p] = "over"
        BY <1>1, <2>2, <3>1 DEF LogGameOver, OthersKeep, Goto, TypeOK
      <4> QED
        BY <3>1, <4>1 DEF Says, ModeKnown
    <3> QED
      BY <1>2, <2>2, <3>1 DEF LogGameOver
  <2> QED
    BY <1>6, <2>1, <2>2 DEF GameOver
<1>7. CASE Panic(p) \/ PanicInDiff(p)
  <2>1. pc[p] \notin {"off", "restart"} /\ \E r : AskRecovery(p, r)
    BY <1>7 DEF Panic, PanicInDiff, DiffFails
  <2> QED
    BY <1>1, <2>1, ViewModes, MoverSays DEF AskRecovery
<1>8. CASE Recovery(p) \/ Kill(p)
  <2>1. \E place \in {"restart", "off"} : Exit(p, place)
    BY <1>8 DEF Recovery, ViewerLostTrack, RecoveryRefused, Recover, Kill, Crash,
                CrashInLine, CrashBeforeHint, CrashInRecovery, MayCrash
  <2> QED
    BY <1>1, <2>1, LeaverSays
<1> QED
  BY <1>4, <1>5, <1>6, <1>7, <1>8

-----------------------------------------------------------------------------

LEMMA NextTurn ==
  Coherent /\ Coherent' /\ TurnInv /\ [Next]_vars => TurnInv'
<1> SUFFICES ASSUME Coherent, Coherent', TurnInv, [Next]_vars PROVE TurnInv'
  OBVIOUS
<1>1. CASE UNCHANGED vars
  <2> USE <1>1 DEF vars, fileVars, envVars, outcomeVars
  <2>1. LinesFit' /\ ModeKnown'
    BY DEF TurnInv, LinesFit, LastSave, IsSave, EOF, ModeKnown
  <2>2. ASSUME NEW p \in Procs PROVE TurnSound(p)'
    <3>1. TurnSound(p)
      BY DEF TurnInv
    <3> QED
      BY <3>1 DEF TurnSound, CountStale, InGame, NothingAt, HasLine, PartialAt, EOF
  <2>3. ASSUME NEW p \in Procs PROVE MenuSound(p)'
    BY DEF TurnInv, MenuSound, CountStale, EOF
  <2> QED
    BY <2>1, <2>2, <2>3 DEF TurnInv
<1>2. CASE Next
  <2>1. PICK p \in Procs :
          \/ Load(p) \/ ReadLine(p) \/ User(p) \/ EndTurn(p) \/ GameOver(p)
          \/ Panic(p) \/ PanicInDiff(p) \/ Recovery(p) \/ Kill(p)
    BY <1>2 DEF Next
  <2>2. Turns'
    BY <2>1, LoadTurn, ReadLineTurn, UserTurn, NeutralTurnstateTurn, GameOverTurn, PanicTurn,
       RecoveryTurn, KillTurn DEF EndTurn
  <2>3. Says(p)
    BY <2>1, LoadSays, ReadLineSays, OtherSays DEF TurnInv
  <2>4. ModeKnown'
    BY <2>3 DEF TurnInv, ModeKnown, Says, OthersKeep
  <2> QED
    BY <2>2, <2>4 DEF TurnInv, Turns, Turn
<1> QED
  BY <1>1, <1>2

LEMMA InitTurn == Init => TurnInv
<1> SUFFICES ASSUME Init PROVE TurnInv
  OBVIOUS
<1>1. EOF = 1
  BY DEF Init, EOF
<1>2. LinesFit
  BY <1>1 DEF LinesFit
<1>3. ModeKnown /\ \A p \in Procs : TurnSound(p) /\ MenuSound(p)
  BY DEF Init, ModeKnown, TurnSound, MenuSound, InGame
<1> QED
  BY <1>2, <1>3 DEF TurnInv

\* What is in the file is what an engine reads, and a process is where it says.
THEOREM TurnInvariance == Spec => []TurnInv
<1>1. Coherent /\ Coherent' /\ TurnInv /\ [Next]_vars => TurnInv'
  BY NextTurn
<1> QED
  BY <1>1, InitTurn, Coherence, PTL DEF Spec

\* Only a recovery changes the recovery count.
LEMMA CountChanges ==
  ASSUME Coherent, NEW p \in Procs, rcount' # rcount,
         \/ Load(p) \/ ReadLine(p) \/ User(p) \/ EndTurn(p) \/ GameOver(p)
         \/ Panic(p) \/ PanicInDiff(p) \/ Recovery(p) \/ Kill(p)
  PROVE  \/ CrashInRecovery(p)
         \/ /\ pc[p] = "unquit" \/ (pc[p] = "recover" /\ view[p].mode = "play")
            /\ ~CountStale(p)
            /\ Truncate(p)
<1> USE DEF fileVars
<1>1. ~ReadLine(p)
  BY DEF ReadLine, Ask, ServerCancel, Replay, ReplayQuit, ReplayPartial, Desync,
         RecoverQuitStuck, ReplaySaveLine, SaveLineTimeout
<1>2. ~User(p)
  BY DEF User, Record, ExitSave, Quit, LogQuit, UpdateRefused, AppendLine
<1>3. ~EndTurn(p)
  BY DEF EndTurn, NeutralTurnstate, WriteBackup, WriteDiff, UpdateRefused, AppendLine
<1>4. ~GameOver(p)
  BY DEF GameOver, Die, LogGameOver, FinishGame, LogQuit, UpdateRefused, AppendLine
<1>5. ~Panic(p) /\ ~PanicInDiff(p)
  BY DEF Panic, PanicInDiff, DiffFails, AppendLine
<1>6. CASE Load(p)
  <2>1. UndoQuit(p)
    BY <1>6 DEF Load, PlayGame, PlayGameOver, UndoQuitRead, SyncHeader, SyncBackup,
                SyncForward, SyncEnd, DiffError
  <2>2. /\ pc[p] = "unquit"
        /\ \/ UNCHANGED fileVars
           \/ ~CountStale(p) /\ Truncate(p)
    <3> HIDE DEF fileVars
    <3> QED
      BY <2>1 DEF UndoQuit
  <2> QED
    BY <2>2
<1>7. CASE Recovery(p)
  BY <1>7 DEF Recovery, ViewerLostTrack, RecoveryRefused, Recover
<1>8. CASE Kill(p)
  BY <1>8 DEF Kill, Crash, CrashInLine, CrashBeforeHint, AppendLine
<1> QED
  BY <1>1, <1>2, <1>3, <1>4, <1>5, <1>6, <1>7, <1>8

\* As long as the engine itself does not panic, a recovery takes back nothing but
\* an unfinished line, or the "Q" of a game whose end is being done again: a
\* killed process, at whatever point, costs nobody a whole line.
THEOREM RecoveriesLoseNothing == Spec => RecoveryLosesNothing
<1>1. ASSUME Coherent, TurnInv, Next, panics = 0, rcount' # rcount
      PROVE  \/ lines' = lines
             \/ lines[EOF].kind = "Q" /\ lines' = SubSeq(lines, 1, EOF - 1)
  <2>1. PICK p \in Procs :
          \/ CrashInRecovery(p)
          \/ /\ pc[p] = "unquit" \/ (pc[p] = "recover" /\ view[p].mode = "play")
             /\ ~CountStale(p)
             /\ Truncate(p)
    BY <1>1, CountChanges DEF Next
  <2>2. CASE CrashInRecovery(p)
    BY <2>2 DEF CrashInRecovery
  <2>3. CASE ~CountStale(p) /\ Truncate(p)
    <3>1. TypeOK /\ EOF \in Nat /\ lines' = SubSeq(lines, 1, view[p].roff)
      BY <1>1, <2>3 DEF Coherent, TypeOK, EOF, Truncate
    <3>2. CASE pc[p] = "unquit"
      <4>1. /\ view[p].roff < EOF /\ lines[view[p].roff + 1].kind = "Q"
            /\ view[p].roff \in 1..EOF
        BY <1>1, <2>3, <3>2 DEF TurnInv, MenuSound, Coherent, ViewSound
      <4> DEFINE r == view[p].roff + 1
      <4>2. r \in 1..(EOF - 1) \/ r = EOF
        BY <3>1, <4>1
      <4>3. r = EOF /\ view[p].roff = EOF - 1
        BY <1>1, <3>1, <4>1, <4>2 DEF Coherent, QuitIsLast
      <4> QED
        BY <3>1, <4>1, <4>3
    <3>3. CASE pc[p] = "recover" /\ view[p].mode = "play"
      <4>1. view[p].roff = EOF
        BY <1>1, <2>3, <3>3 DEF TurnInv, MenuSound
      <4>2. SubSeq(lines, 1, Len(lines)) = lines
        BY <3>1 DEF TypeOK
      <4> QED
        BY <3>1, <4>1, <4>2 DEF EOF
    <3> QED
      BY <1>1, <2>1, <2>3, <3>2, <3>3, <2>2
  <2> QED
    BY <2>1, <2>2, <2>3
<1>2. ASSUME Coherent, TurnInv, [Next]_vars
      PROVE  [panics = 0 /\ rcount' # rcount =>
                 \/ lines' = lines
                 \/ lines[EOF].kind = "Q" /\ lines' = SubSeq(lines, 1, EOF - 1)]_vars
  BY <1>1, <1>2
<1> QED
  BY <1>2, Coherence, TurnInvariance, PTL DEF Spec, RecoveryLosesNothing

\* No player with the current recovery count ever loses track of the file.
THEOREM PlayersFollowHolds == Spec => PlayersFollow
<1>1. ASSUME Coherent, TurnInv, NEW p \in Procs, view[p].mode = "play", ~CountStale(p)
      PROVE  ~Desync(p)
  BY <1>1, NoDesync
<1>2. ASSUME Coherent, TurnInv
      PROVE  [ \A p \in Procs :
                 view[p].mode = "play" /\ ~CountStale(p) => ~Desync(p) ]_vars
  BY <1>1, <1>2
<1> QED
  BY <1>2, Coherence, TurnInvariance, PTL DEF PlayersFollow
=============================================================================
