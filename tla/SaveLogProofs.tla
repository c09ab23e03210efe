--------------------------- MODULE SaveLogProofs ---------------------------
(* Theorems about SaveLog, and their proofs. *)
EXTENDS SaveLog, SequenceTheorems, TLAPS

-----------------------------------------------------------------------------
(* Types. *)

\* What the file denotes at any offset is an engine state.
LEMMA AfterType ==
  ASSUME lines \in Seq(Line), NEW n \in Int
  PROVE  After(n) \in State
<1>1. <<>> \in State
  BY DEF State
<1>2. ASSUME n \in 1..Len(lines) PROVE lines[n].after \in State
  <2>1. lines[n] \in Line
    BY <1>2
  <2> QED
    BY <2>1 DEF Line
<1> QED
  BY <1>1, <1>2 DEF After

\* Lines the code appends are lines.
LEMMA LineTypes ==
  ASSUME TypeOK
  PROVE  /\ \A v \in Values : InputLine(v) \in Line
         /\ QuitLine \in Line
         /\ \A s \in State : FullLine(s) \in Line
         /\ \A s, b \in State : DiffLine(s, b) \in Line
         /\ \A b \in State : SpoiltLine(b) \in Line
<1>1. After(EOF) \in State
  BY AfterType DEF TypeOK, EOF
<1>2. \A v \in Values : Append(After(EOF), v) \in State
  BY <1>1 DEF State
<1>3. <<>> \in State /\ <<Garble>> \in State
  BY DEF State
<1> QED
  BY <1>1, <1>2, <1>3 DEF InputLine, QuitLine, FullLine, DiffLine, SpoiltLine, Line

LEMMA NoViewType == NoView \in View
BY DEF NoView, View, State

\* A session that ends leaves well-typed places and views.
LEMMA ExitType ==
  ASSUME TypeOK, NEW p \in Procs, NEW place \in {"off", "restart"}, Exit(p, place)
  PROVE  pc' \in [Procs -> Place] /\ view' \in [Procs -> View]
BY NoViewType DEF TypeOK, Exit, Goto, Place

\* The helpers on views return views.
LEMMA LineAtType ==
  ASSUME TypeOK, NEW n \in 0..(EOF - 1)
  PROVE  LineAt(n) \in Line
BY DEF TypeOK, LineAt, EOF

LEMMA AdoptType ==
  ASSUME TypeOK, NEW w \in View, NEW n \in 0..(EOF - 1)
  PROVE  Adopt(w, n) \in View
<1>1. LineAt(n).snap \in State
  BY LineAtType DEF Line
<1>2. Applied(LineAt(n), w.bin) \in State
  BY <1>1 DEF Applied, State
<1>3. n \in Nat
  BY DEF EOF, TypeOK
<1> QED
  BY <1>1, <1>2, <1>3 DEF Adopt, View

LEMMA LoadedType ==
  ASSUME TypeOK, NEW w \in View
  PROVE  /\ Loaded(w) \in View
         /\ Loaded(w).eogs = IF HasLine(w.bsl) THEN w.bsl + 1 ELSE w.bsl
         /\ Loaded(w).engine = w.bin
         /\ Loaded(w).cmd = NoCommand
         /\ Loaded(w).bsl = w.bsl /\ Loaded(w).sbl = w.sbl
         /\ Loaded(w).bin = w.bin
         /\ Loaded(w).expected = w.expected
<1> DEFINE e == IF HasLine(w.bsl) THEN w.bsl + 1 ELSE w.bsl
<1>1. e \in Nat
  BY DEF View
<1>2. Loaded(w) = [w EXCEPT !.eogs = e, !.engine = w.bin, !.cmd = NoCommand,
                            !.todo = 0]
  BY DEF Loaded
<1>3. w.bin \in State /\ 0 \in Nat
  BY DEF View
<1> HIDE DEF e
<1>4. /\ Loaded(w) \in View
      /\ Loaded(w).eogs = e /\ Loaded(w).engine = w.bin
      /\ Loaded(w).cmd = NoCommand /\ Loaded(w).bsl = w.bsl
      /\ Loaded(w).sbl = w.sbl
      /\ Loaded(w).bin = w.bin /\ Loaded(w).expected = w.expected
  BY <1>1, <1>2, <1>3 DEF View
<1> QED
  BY <1>4 DEF e

\* Consuming a value moves on by one line.
LEMMA ConsumedType ==
  ASSUME TypeOK, NEW w \in View, NEW v \in Values,
         w.cmd = NoCommand => v \in Commands,
         w.cmd # NoCommand => w.todo > 0
  PROVE  /\ Consumed(w, v) \in View
         /\ Consumed(w, v).eogs = w.eogs + 1
         /\ Consumed(w, v).engine = Append(w.engine, v)
         /\ Consumed(w, v).cmd # NoCommand
         /\ Consumed(w, v).bsl = w.bsl /\ Consumed(w, v).sbl = w.sbl
         /\ Consumed(w, v).bin = w.bin
         /\ Consumed(w, v).expected = w.expected
<1> DEFINE c == IF w.cmd = NoCommand THEN v ELSE w.cmd
           t == IF w.cmd = NoCommand THEN Prompts[v] ELSE w.todo - 1
           s == Append(w.engine, v)
           e == w.eogs + 1
<1>1. c \in Commands /\ c # NoCommand
  BY ValueAssumption DEF View
<1>2. t \in Nat
  <2>1. CASE w.cmd = NoCommand
    BY <2>1, ValueAssumption
  <2>2. CASE w.cmd # NoCommand
    <3>1. w.todo \in Nat
      BY DEF View
    <3> QED
      BY <2>2, <3>1
  <2> QED
    BY <2>1, <2>2
<1>3. s \in State
  <2>1. w.engine \in State
    BY DEF View
  <2> QED
    BY <2>1 DEF State
<1>4. Consumed(w, v) = [w EXCEPT !.engine = s, !.eogs = e, !.cmd = c,
                                 !.todo = t]
  BY DEF Consumed
<1>6. e \in Nat
  BY DEF View
<1> HIDE DEF c, t, s, e
<1>5. /\ Consumed(w, v) \in View
      /\ Consumed(w, v).eogs = e /\ Consumed(w, v).engine = s
      /\ Consumed(w, v).cmd = c /\ Consumed(w, v).bsl = w.bsl
      /\ Consumed(w, v).sbl = w.sbl
      /\ Consumed(w, v).bin = w.bin /\ Consumed(w, v).expected = w.expected
  BY <1>1, <1>2, <1>3, <1>4, <1>6 DEF View
<1> QED
  BY <1>1, <1>5 DEF s, e

\* A value the engine accepts is the current command, or answers it.
LEMMA WantedType ==
  ASSUME TypeOK, NEW p \in Procs, ControlSound(p),
         WantsLine(p) \/ Asking(p), NEW v \in Wanted(p)
  PROVE  /\ v \in Values
         /\ view[p].cmd = NoCommand => v \in Commands
         /\ view[p].cmd # NoCommand => view[p].todo > 0
BY DEF WantsLine, Asking, ControlSound, Wanted, Values

LEMMA PlaceAfterType ==
  ASSUME NEW w
  PROVE  PlaceAfter(w) \in {"turn", "dead", "neutral"}
BY DEF PlaceAfter

LEMMA AppendType ==
  ASSUME TypeOK, NEW l \in Line, AppendLine(l)
  PROVE  lines' \in Seq(Line) /\ partial' \in BOOLEAN /\ status' \in Status
         /\ rcount' \in Nat
BY DEF TypeOK, AppendLine

\* What is kept of a sequence that is cut off after its first r elements.
LEMMA PrefixOfSequence ==
  ASSUME NEW S, NEW s \in Seq(S), NEW r \in 1..Len(s)
  PROVE  /\ SubSeq(s, 1, r) \in Seq(S)
         /\ Len(SubSeq(s, 1, r)) = r
         /\ \A n \in 1..r : SubSeq(s, 1, r)[n] = s[n]
<1>1. \A n \in 1..r : s[n] \in S
  OBVIOUS
<1>2. r \in Int /\ 1 \in Int /\ 1 <= r
  OBVIOUS
<1>3. /\ SubSeq(s, 1, r) \in Seq(S)
      /\ Len(SubSeq(s, 1, r)) = IF 1 <= r THEN r - 1 + 1 ELSE 0
      /\ \A i \in 1 .. r - 1 + 1 : SubSeq(s, 1, r)[i] = s[1 + i - 1]
  BY ONLY <1>1, <1>2, SubSeqProperties
<1> QED
  BY <1>2, <1>3

\* A recovery to an offset inside the file keeps what is in front of it.
LEMMA TruncateLines ==
  ASSUME TypeOK, NEW r \in 1..EOF, lines' = SubSeq(lines, 1, r)
  PROVE  /\ lines' \in Seq(Line)
         /\ EOF' = r
         /\ \A n \in 1..r : lines'[n] = lines[n]
<1>1. lines \in Seq(Line) /\ r \in 1..Len(lines)
  BY DEF TypeOK, EOF
<1>2. /\ SubSeq(lines, 1, r) \in Seq(Line)
      /\ Len(SubSeq(lines, 1, r)) = r
      /\ \A n \in 1..r : SubSeq(lines, 1, r)[n] = lines[n]
  BY ONLY <1>1, PrefixOfSequence
<1> QED
  BY <1>2 DEF EOF

LEMMA ViewMoved ==
  ASSUME NEW w \in View, NEW n \in Nat
  PROVE  [w EXCEPT !.eogs = n] \in View
BY DEF View

\* The sections a process writes in are well typed in all they change.
LEMMA UpdateRefusedType ==
  ASSUME TypeOK, NEW p \in Procs, UpdateRefused(p)
  PROVE  TypeOK'
<1>1. \E place \in {"off", "restart"} : Exit(p, place)
  BY DEF UpdateRefused
<1>2. pc' \in [Procs -> Place] /\ view' \in [Procs -> View]
  BY <1>1, ExitType
<1> QED
  BY <1>2 DEF TypeOK, UpdateRefused, fileVars, envVars, outcomeVars

LEMMA LogQuitType ==
  ASSUME TypeOK, NEW p \in Procs, LogQuit(p)
  PROVE  TypeOK'
<1>1. CASE UpdateRefused(p)
  BY <1>1, UpdateRefusedType
<1>2. CASE /\ AppendLine(QuitLine)
           /\ view' = [view EXCEPT ![p].eogs = EOF + 1]
           /\ Goto(p, "over")
           /\ UNCHANGED <<hint, outcomeVars, envVars>>
  <2>1. lines' \in Seq(Line) /\ partial' \in BOOLEAN /\ status' \in Status
        /\ rcount' \in Nat
    BY <1>2, LineTypes, AppendType
  <2>2. EOF + 1 \in Nat
    BY DEF EOF, TypeOK
  <2>3. [view[p] EXCEPT !.eogs = EOF + 1] \in View
    BY <2>2, ViewMoved DEF TypeOK
  <2>4. view' \in [Procs -> View]
    BY <1>2, <2>3 DEF TypeOK
  <2> QED
    BY <1>2, <2>1, <2>4 DEF TypeOK, Goto, Place, envVars, outcomeVars
<1> QED
  BY <1>1, <1>2 DEF LogQuit

-----------------------------------------------------------------------------
(* What a step leaves alone. *)

Sound(p) == ControlSound(p) /\ ViewSound(p)

OthersKeep(p) ==
  \A q \in Procs \ {p} : pc'[q] = pc[q] /\ view'[q] = view[q]

\* The file may have grown.
Grown ==
  /\ EOF <= EOF'
  /\ \A n \in 1..EOF : lines'[n] = lines[n]

\* Lines in front of the old end of the file are where they were.
LEMMA GrownKeeps ==
  ASSUME TypeOK, TypeOK', Grown
  PROVE  /\ EOF \in Nat /\ EOF' \in Nat
         /\ \A n \in Int : 0 <= n /\ n < EOF => LineAt(n)' = LineAt(n)
         /\ \A n \in Int : n <= EOF => After(n)' = After(n)
<1>1. EOF \in Nat /\ EOF' \in Nat
  BY DEF EOF, TypeOK
<1>2. \A n \in Int : 0 <= n /\ n < EOF => LineAt(n)' = LineAt(n)
  BY <1>1 DEF LineAt, Grown
<1>3. \A n \in Int : n <= EOF => After(n)' = After(n)
  BY <1>1 DEF After, Grown, EOF
<1> QED
  BY <1>1, <1>2, <1>3

\* A process that does nothing stays sound: while the count is the same the
\* file has only grown, and else its view has become stale.
LEMMA OthersSound ==
  ASSUME TypeOK, TypeOK', NEW q \in Procs, Sound(q),
         pc'[q] = pc[q], view'[q] = view[q],
         (rcount' = rcount /\ Grown) \/ rcount' = rcount + 1
  PROVE  Sound(q)'
<1>1. view[q].expected \in Nat /\ rcount \in Nat
  BY DEF TypeOK, View
<1>2. ControlSound(q)'
  BY <1>1 DEF Sound, ControlSound
<1>3. CASE rcount' = rcount + 1
  <2>1. CountStale(q)'
    BY <1>1, <1>3 DEF Sound, ControlSound, CountStale
  <2> QED
    BY <1>2, <2>1 DEF Sound, ViewSound
<1>4. CASE rcount' = rcount /\ Grown
  <2>1. CountStale(q)' = CountStale(q) /\ InGame(q)' = InGame(q)
    BY <1>4 DEF CountStale, InGame
  <2> SUFFICES ASSUME ~CountStale(q) PROVE ViewSound(q)'
    BY <1>2, <2>1 DEF Sound, ViewSound
  <2>2. /\ EOF \in Nat /\ EOF' \in Nat
        /\ EOF <= EOF'
        /\ \A n \in Int : 0 <= n /\ n < EOF => LineAt(n)' = LineAt(n)
        /\ \A n \in Int : n <= EOF => After(n)' = After(n)
    BY <1>4, GrownKeeps DEF Grown
  <2>3. /\ view[q].sbl \in Nat /\ view[q].bsl \in Nat
        /\ view[q].eogs \in Nat /\ view[q].roff \in Nat
    BY DEF TypeOK, View
  <2>4. SaveKnown(q) => SaveKnown(q)'
    BY <2>2, <2>3 DEF SaveKnown, IsSave
  <2>5. PlaceKnown(q) => PlaceKnown(q)'
    <3> SUFFICES ASSUME PlaceKnown(q) PROVE PlaceKnown(q)'
      OBVIOUS
    <3>1. view[q].eogs \in 1..EOF /\ view[q].eogs \in 1..EOF'
      BY <2>2, <2>3 DEF PlaceKnown
    <3>2. After(view[q].eogs)' = After(view[q].eogs)
      BY <2>2, <2>3, <3>1
    <3>3. \A n \in (view[q].bsl + 1)..(view[q].eogs - 1) : ~IsSave(LineAt(n))'
      BY <2>2, <2>3, <3>1 DEF PlaceKnown, IsSave
    <3>4. LineAt(view[q].eogs - 1)' = LineAt(view[q].eogs - 1)
      BY <2>2, <2>3, <3>1
    <3>5. \A n \in 1..view[q].eogs : lines'[n] = lines[n]
      BY <1>4, <2>2, <2>3, <3>1 DEF Grown
    <3> QED
      BY <3>1, <3>2, <3>3, <3>4, <3>5 DEF PlaceKnown
  <2>6. view[q].roff \in 1..EOF => view[q].roff \in 1..EOF'
    BY <2>2, <2>3
  <2> QED
    BY <2>1, <2>4, <2>5, <2>6 DEF Sound, ViewSound
<1> QED
  BY <1>3, <1>4

-----------------------------------------------------------------------------
(* The three things a step does to the file: nothing, add a line, cut it   *)
(* off.  Each leaves a sound file and sound views of it.                   *)

\* What Coherent' takes once the file is known to be sound.
LEMMA StepSound ==
  ASSUME Coherent, NEW p \in Procs, TypeOK', FileSound', QuitIsLast',
         DoneEndsWithQuit', OthersKeep(p), Sound(p)',
         (rcount' = rcount /\ Grown) \/ rcount' = rcount + 1
  PROVE  Coherent'
<1> SUFFICES ASSUME NEW q \in Procs PROVE Sound(q)'
  BY DEF Coherent, Sound
<1>1. CASE q = p
  BY <1>1
<1>2. CASE q # p
  <2>1. pc'[q] = pc[q] /\ view'[q] = view[q] /\ Sound(q) /\ TypeOK
    BY <1>2 DEF OthersKeep, Coherent, Sound
  <2> QED
    BY <2>1, OthersSound
<1> QED
  BY <1>1, <1>2

\* The lines stay as they are.  (The status may be reset, and a line begun.)
LEMMA KeepStep ==
  ASSUME Coherent, NEW p \in Procs, TypeOK', lines' = lines,
         OthersKeep(p), Sound(p)',
         rcount' = rcount \/ rcount' = rcount + 1,
         status' = "done" => status = "done" /\ partial' = partial
  PROVE  Coherent'
<1>1. Grown
  BY DEF Grown, EOF, Coherent, TypeOK
<1>2. FileSound'
  BY DEF Coherent, FileSound, AfterFollows, SavesHold, EOF, IsSave
<1>3. QuitIsLast'
  BY DEF Coherent, QuitIsLast, EOF
<1>4. DoneEndsWithQuit'
  BY DEF Coherent, DoneEndsWithQuit, EOF
<1> QED
  BY <1>1, <1>2, <1>3, <1>4, StepSound

\* A session ends and touches nothing.
LEMMA ExitSound ==
  ASSUME TypeOK, TypeOK', NEW p \in Procs, NEW place \in {"off", "restart"},
         Exit(p, place)
  PROVE  OthersKeep(p) /\ Sound(p)'
<1>1. pc'[p] = place /\ view'[p] = NoView /\ OthersKeep(p)
  BY DEF Exit, Goto, OthersKeep, TypeOK
<1>2. view'[p].expected = 0 /\ rcount' \in Nat
  BY <1>1 DEF NoView, TypeOK
<1> QED
  BY <1>1, <1>2 DEF Sound, ControlSound, ViewSound, InGame

LEMMA ExitStep ==
  ASSUME Coherent, NEW p \in Procs, NEW place \in {"off", "restart"},
         Exit(p, place), UNCHANGED <<fileVars, envVars>>, finished' \in Nat,
         declined' \in BOOLEAN
  PROVE  Coherent'
<1>1. pc' \in [Procs -> Place] /\ view' \in [Procs -> View]
  BY ExitType DEF Coherent
<1>2. TypeOK'
  BY <1>1 DEF Coherent, TypeOK, fileVars, envVars, outcomeVars
<1>3. OthersKeep(p) /\ Sound(p)'
  BY <1>2, ExitSound DEF Coherent
<1> QED
  BY <1>2, <1>3, KeepStep DEF fileVars

\* A process that may append knows where the file's end leads, and that the
\* game has not ended.
LEMMA WriterKnows ==
  ASSUME Coherent, NEW p \in Procs, InGame(p), MayUpdate(p)
  PROVE  /\ view[p].eogs = EOF
         /\ view[p].engine = After(EOF)
         /\ SaveKnown(p) /\ PlaceKnown(p)
         /\ status # "done" /\ ~partial /\ EOF \in Nat \ {0}
BY DEF Coherent, ViewSound, MayUpdate, AtEOF, PlaceKnown, TypeOK, EOF

\* l continues the file as p's engine does.
Continues(p, l) ==
  /\ l \in Line
  /\ l.after = CASE l.kind = "input"  -> Append(After(EOF), l.val)
                [] l.kind = "spoilt" -> <<Garble>>
                [] OTHER -> After(EOF)
  /\ IsSave(l) => l.snap = l.after
  /\ l.kind \in {"diff", "spoilt"} => l.base = view[p].bin

\* A line added by a process that may add one keeps the file sound.
LEMMA AppendSound ==
  ASSUME Coherent, NEW p \in Procs, InGame(p), pc[p] \notin {"over", "ended"},
         MayUpdate(p), NEW l, Continues(p, l), AppendLine(l)
  PROVE  /\ lines' \in Seq(Line)
         /\ FileSound' /\ QuitIsLast' /\ DoneEndsWithQuit'
         /\ rcount' = rcount /\ Grown
         /\ EOF' = EOF + 1 /\ lines'[EOF + 1] = l
<1>1. /\ lines \in Seq(Line) /\ EOF \in Nat \ {0} /\ EOF = Len(lines)
      /\ view[p].eogs = EOF
      /\ SaveKnown(p) /\ PlaceKnown(p) /\ status # "done"
  BY WriterKnows DEF Coherent, TypeOK, EOF
<1>2. /\ lines' \in Seq(Line)
      /\ EOF' = EOF + 1 /\ lines'[EOF + 1] = l
      /\ \A n \in 1..EOF : lines'[n] = lines[n]
  BY <1>1 DEF AppendLine, Continues, EOF
<1>3. Grown
  BY <1>1, <1>2 DEF Grown
<1>4. After(EOF) = lines[EOF].after
  BY <1>1 DEF After
<1>5. AfterFollows'
  <2> SUFFICES ASSUME NEW n \in 2..(EOF + 1)
               PROVE  lines'[n].after =
                        CASE lines'[n].kind = "input" ->
                               Append(lines'[n - 1].after, lines'[n].val)
                          [] lines'[n].kind = "spoilt" -> <<Garble>>
                          [] OTHER -> lines'[n - 1].after
    BY <1>2 DEF AfterFollows
  <2>1. CASE n = EOF + 1
    <3>1. lines'[n] = l /\ lines'[n - 1] = lines[EOF]
      BY <1>1, <1>2, <2>1
    <3> QED
      BY <1>4, <3>1 DEF Continues
  <2>2. CASE n # EOF + 1
    <3>1. n \in 2..EOF /\ lines'[n] = lines[n] /\ lines'[n - 1] = lines[n - 1]
      BY <1>1, <1>2, <2>2
    <3> QED
      BY <3>1 DEF Coherent, FileSound, AfterFollows
  <2> QED
    BY <2>1, <2>2
<1>6. SavesHold'
  <2> DEFINE HasBase(n) == \E m \in 1..(n - 1) :
               /\ IsSave(lines'[m]) /\ lines'[m].snap = lines'[n].base
               /\ \A k \in (m + 1)..(n - 1) : ~IsSave(lines'[k])
  <2> SUFFICES ASSUME NEW n \in 1..(EOF + 1)
               PROVE  /\ IsSave(lines'[n]) => lines'[n].snap = lines'[n].after
                      /\ lines'[n].kind \in {"diff", "spoilt"} => HasBase(n)
    BY <1>2 DEF SavesHold, IsSave
  <2>1. CASE n = EOF + 1
    <3>1. lines'[n] = l
      BY <1>2, <2>1
    <3>2. IsSave(l) => l.snap = l.after
      BY DEF Continues, IsSave
    <3>3. ASSUME l.kind \in {"diff", "spoilt"} PROVE HasBase(n)
      <4> DEFINE m == view[p].bsl + 1
      <4>1. view[p].bsl \in Nat
        BY DEF Coherent, TypeOK, View
      <4>2. m \in 1..EOF /\ IsSave(lines[m]) /\ lines[m].snap = l.base
        BY <1>1, <3>3, <4>1 DEF SaveKnown, LineAt, Continues
      <4>3. \A k \in (m + 1)..EOF : ~IsSave(lines[k])
        <5> SUFFICES ASSUME NEW k \in (m + 1)..EOF PROVE ~IsSave(lines[k])
          OBVIOUS
        <5>1. k - 1 \in (view[p].bsl + 1)..(view[p].eogs - 1)
          BY <1>1, <4>1
        <5>2. ~IsSave(LineAt(k - 1))
          BY <1>1, <5>1 DEF PlaceKnown
        <5>3. (k - 1) + 1 = k
          BY <1>1, <4>1
        <5> QED
          BY <5>2, <5>3 DEF LineAt
      <4>4. /\ m \in 1..(n - 1) /\ IsSave(lines'[m])
            /\ lines'[m].snap = lines'[n].base
        BY <1>1, <1>2, <2>1, <3>1, <4>2
      <4>5. \A k \in (m + 1)..(n - 1) : ~IsSave(lines'[k])
        <5> SUFFICES ASSUME NEW k \in (m + 1)..(n - 1)
                     PROVE  ~IsSave(lines'[k])
          OBVIOUS
        <5>1. k \in (m + 1)..EOF /\ k \in 1..EOF
          BY <1>1, <2>1, <4>1
        <5> QED
          BY <1>2, <4>3, <5>1
      <4> HIDE DEF m
      <4> QED
        BY <4>4, <4>5
    <3> QED
      BY <3>1, <3>2, <3>3
  <2>2. CASE n # EOF + 1
    <3>1. n \in 1..EOF /\ lines'[n] = lines[n]
      BY <1>1, <1>2, <2>2
    <3>2. IsSave(lines[n]) => lines[n].snap = lines[n].after
      BY <3>1 DEF Coherent, FileSound, SavesHold
    <3>3. ASSUME lines[n].kind \in {"diff", "spoilt"} PROVE HasBase(n)
      <4>1. PICK m \in 1..(n - 1) :
              /\ IsSave(lines[m]) /\ lines[m].snap = lines[n].base
              /\ \A k \in (m + 1)..(n - 1) : ~IsSave(lines[k])
        BY <3>1, <3>3 DEF Coherent, FileSound, SavesHold
      <4>2. \A k \in 1..(n - 1) : lines'[k] = lines[k]
        BY <1>1, <1>2, <3>1
      <4>3. \A k \in (m + 1)..(n - 1) : k \in 1..(n - 1)
        BY <1>1, <3>1
      <4> QED
        BY <3>1, <4>1, <4>2, <4>3
    <3> QED
      BY <3>1, <3>2, <3>3
  <2> QED
    BY <2>1, <2>2
<1>7. FileSound'
  BY <1>1, <1>2, <1>5, <1>6 DEF FileSound, Coherent
<1>8. QuitIsLast'
  <2> SUFFICES ASSUME NEW n \in 1..EOF PROVE lines'[n].kind # "Q"
    BY <1>1, <1>2 DEF QuitIsLast
  <2> QED
    BY <1>1, <1>2 DEF PlaceKnown
<1>9. DoneEndsWithQuit'
  BY <1>1 DEF DoneEndsWithQuit, AppendLine
<1> QED
  BY <1>2, <1>3, <1>7, <1>8, <1>9 DEF AppendLine

\* A recovery to an offset inside the file keeps the file sound.
LEMMA TruncateSound ==
  ASSUME Coherent, NEW p \in Procs, ~CountStale(p), pc[p] \in {"recover", "unquit"},
         Truncate(p)
  PROVE  /\ lines' \in Seq(Line)
         /\ FileSound' /\ QuitIsLast' /\ DoneEndsWithQuit'
<1> DEFINE r == view[p].roff
<1>1. lines \in Seq(Line) /\ EOF \in Nat /\ r \in 1..EOF /\ TypeOK
  BY DEF Coherent, ViewSound, TypeOK, EOF
<1>2. /\ lines' \in Seq(Line) /\ EOF' = r
      /\ \A n \in 1..r : lines'[n] = lines[n]
  BY <1>1, TruncateLines DEF Truncate
<1> HIDE DEF r
<1>3. AfterFollows'
  <2> SUFFICES ASSUME NEW n \in 2..r
               PROVE  lines'[n].after =
                        CASE lines'[n].kind = "input" ->
                               Append(lines'[n - 1].after, lines'[n].val)
                          [] lines'[n].kind = "spoilt" -> <<Garble>>
                          [] OTHER -> lines'[n - 1].after
    BY <1>2 DEF AfterFollows
  <2>1. n \in 2..EOF /\ lines'[n] = lines[n] /\ lines'[n - 1] = lines[n - 1]
    BY <1>1, <1>2
  <2> QED
    BY <2>1 DEF Coherent, FileSound, AfterFollows
<1>4. SavesHold'
  <2> SUFFICES ASSUME NEW n \in 1..r
               PROVE  /\ IsSave(lines'[n]) => lines'[n].snap = lines'[n].after
                      /\ lines'[n].kind \in {"diff", "spoilt"} =>
                           \E m \in 1..(n - 1) :
                             /\ IsSave(lines'[m])
                             /\ lines'[m].snap = lines'[n].base
                             /\ \A k \in (m + 1)..(n - 1) : ~IsSave(lines'[k])
    BY <1>2 DEF SavesHold, IsSave
  <2>1. n \in 1..EOF /\ \A k \in 1..n : lines'[k] = lines[k]
    BY <1>1, <1>2
  <2>2. IsSave(lines[n]) => lines[n].snap = lines[n].after
    BY <2>1 DEF Coherent, FileSound, SavesHold
  <2>3. ASSUME lines[n].kind \in {"diff", "spoilt"}
        PROVE  \E m \in 1..(n - 1) :
                 /\ IsSave(lines'[m]) /\ lines'[m].snap = lines[n].base
                 /\ \A k \in (m + 1)..(n - 1) : ~IsSave(lines'[k])
    <3>1. PICK m \in 1..(n - 1) :
            /\ IsSave(lines[m]) /\ lines[m].snap = lines[n].base
            /\ \A k \in (m + 1)..(n - 1) : ~IsSave(lines[k])
      BY <2>1, <2>3 DEF Coherent, FileSound, SavesHold
    <3>2. m \in 1..n /\ \A k \in (m + 1)..(n - 1) : k \in 1..n
      BY <1>1, <2>1
    <3> QED
      BY <2>1, <3>1, <3>2
  <2>4. lines'[n] = lines[n]
    BY <1>1, <1>2
  <2> QED
    BY <2>2, <2>3, <2>4
<1>5. FileSound'
  BY <1>1, <1>2, <1>3, <1>4 DEF FileSound, Coherent
<1>6. QuitIsLast'
  BY <1>1, <1>2 DEF QuitIsLast, Coherent
<1> QED
  BY <1>2, <1>5, <1>6 DEF DoneEndsWithQuit, Truncate

-----------------------------------------------------------------------------
(* Steps of one process that leave the file alone. *)

\* The process moves to a place with a view; types, and everybody else.
LEMMA MoveType ==
  ASSUME TypeOK, NEW p \in Procs, NEW place \in Place, NEW w \in View,
         Goto(p, place), view' = [view EXCEPT ![p] = w]
  PROVE  /\ pc' \in [Procs -> Place] /\ view' \in [Procs -> View]
         /\ OthersKeep(p) /\ pc'[p] = place /\ view'[p] = w
BY DEF TypeOK, Goto, OthersKeep

LEMMA LocalStep ==
  ASSUME Coherent, NEW p \in Procs, NEW place \in Place, NEW w \in View,
         Goto(p, place), view' = [view EXCEPT ![p] = w],
         UNCHANGED fileVars, finished' \in Nat, declined' \in BOOLEAN, crashes' \in Nat,
         panics' \in Nat, Sound(p)'
  PROVE  Coherent'
<1>1. /\ pc' \in [Procs -> Place] /\ view' \in [Procs -> View]
      /\ OthersKeep(p)
  BY MoveType DEF Coherent
<1>2. TypeOK'
  BY <1>1 DEF Coherent, TypeOK, fileVars
<1> QED
  BY <1>1, <1>2, KeepStep DEF fileVars

\* The process consumes nothing and stays in the game.
LEMMA SameSpot ==
  ASSUME Coherent, NEW p \in Procs, InGame(p), InGame(p)',
         pc[p] \notin {"over", "ended"}, pc'[p] \notin {"over", "ended"},
         lines' = lines, rcount' = rcount,
         view'[p].eogs = view[p].eogs, view'[p].engine = view[p].engine,
         view'[p].bsl = view[p].bsl, view'[p].bin = view[p].bin,
         view'[p].sbl = view[p].sbl,
         view'[p].expected = view[p].expected
  PROVE  ViewSound(p)'
<1> SUFFICES ASSUME ~CountStale(p)' PROVE SaveKnown(p)' /\ PlaceKnown(p)'
  BY DEF ViewSound, InGame
<1>1. ~CountStale(p)
  BY DEF CountStale
<1>2. SaveKnown(p) /\ PlaceKnown(p)
  BY <1>1 DEF Coherent, ViewSound
<1>3. EOF' = EOF
  BY DEF EOF
<1>4. SaveKnown(p)'
  BY <1>2, <1>3 DEF SaveKnown, LineAt, IsSave
<1>5. PlaceKnown(p)'
  BY <1>2, <1>3 DEF PlaceKnown, LineAt, IsSave, After
<1> QED
  BY <1>4, <1>5

LEMMA AskStep ==
  ASSUME Coherent, NEW p \in Procs, Ask(p) \/ ServerCancel(p)
  PROVE  Coherent'
<1>1. PICK place \in {"ready", "turn", "askready", "askturn"} :
        /\ Goto(p, place)
        /\ place \in {"ready", "askready"} <=> pc[p] \in {"ready", "askready"}
        /\ pc[p] \in {"ready", "turn", "askready", "askturn"}
  BY DEF Ask, ServerCancel, WantsLine, Asking
<1>2. /\ UNCHANGED <<fileVars, outcomeVars, view, envVars>>
      /\ TypeOK
  BY DEF Ask, ServerCancel, Coherent
<1>3. /\ pc'[p] = place /\ pc' \in [Procs -> Place] /\ OthersKeep(p)
      /\ place \in Place
  BY <1>1, <1>2 DEF Goto, TypeOK, OthersKeep, Place
<1>4. TypeOK'
  BY <1>2, <1>3 DEF TypeOK, fileVars, envVars, outcomeVars
<1>5. ViewSound(p)'
  BY <1>1, <1>2, <1>3, SameSpot DEF InGame, fileVars
<1>6. ControlSound(p)'
  BY <1>1, <1>2, <1>3 DEF Coherent, ControlSound, fileVars
<1> QED
  BY <1>2, <1>3, <1>4, <1>5, <1>6, KeepStep DEF fileVars, Sound

\* The recovery menu opens with an offset inside the file.
LEMMA RecoveryOffset ==
  ASSUME Coherent, NEW p \in Procs
  PROVE  EOF \in 1..EOF /\ StartOfTurn(p) \in 1..EOF
<1>1. EOF \in Nat /\ EOF >= 1 /\ view[p].bsl \in Nat
  BY DEF Coherent, FileSound, TypeOK, EOF, View
<1> QED
  BY <1>1 DEF StartOfTurn, HasLine

LEMMA AskRecoveryStep ==
  ASSUME Coherent, NEW p \in Procs, NEW r \in 1..EOF, AskRecovery(p, r),
         UNCHANGED <<fileVars, outcomeVars>>, crashes' \in Nat, panics' \in Nat
  PROVE  Coherent'
<1> DEFINE w == [view[p] EXCEPT !.roff = r]
<1>1. r \in Nat /\ view[p] \in View /\ TypeOK
  BY DEF Coherent, TypeOK, EOF
<1>2. w \in View /\ w.roff = r /\ w.expected = view[p].expected
  BY <1>1 DEF View
<1>3. view' = [view EXCEPT ![p] = w] /\ Goto(p, "recover")
  BY DEF AskRecovery
<1>4. "recover" \in Place
  BY DEF Place
<1>5. view'[p] = w /\ pc'[p] = "recover"
  BY <1>1, <1>3, <1>4, <1>2, MoveType
<1> HIDE DEF w
<1>6. Sound(p)'
  BY <1>2, <1>5 DEF Sound, ControlSound, ViewSound, InGame, EOF, Coherent, fileVars
<1> QED
  BY <1>2, <1>3, <1>4, <1>6, LocalStep DEF Coherent, TypeOK, outcomeVars

LEMMA RefusedStep ==
  ASSUME Coherent, NEW p \in Procs, UpdateRefused(p)
  PROVE  Coherent'
<1>1. PICK place \in {"off", "restart"} : Exit(p, place)
  BY DEF UpdateRefused
<1> QED
  BY <1>1, ExitStep DEF UpdateRefused, Coherent, TypeOK, outcomeVars

-----------------------------------------------------------------------------
(* Opening the game. *)

\* Adopting the next save line after the one that is known: a diff is against
\* exactly that one, so the result is what the new line holds.
LEMMA AdoptKnown ==
  ASSUME Coherent, NEW w \in View, NEW n \in 0..(EOF - 1), IsSave(LineAt(n)),
         w.bsl < n, IsSave(LineAt(w.bsl)), w.bin = LineAt(w.bsl).snap,
         \A m \in (w.bsl + 1)..(n - 1) : ~IsSave(LineAt(m))
  PROVE  Adopt(w, n).bin = LineAt(n).snap
<1>1. /\ w.bsl \in Nat /\ n \in Nat /\ EOF \in Nat
      /\ TypeOK /\ LineAt(n) = lines[n + 1]
  BY DEF View, Coherent, TypeOK, EOF, LineAt
<1>2. CASE LineAt(n).kind = "full"
  BY <1>1, <1>2 DEF Adopt, View
<1>3. CASE LineAt(n).kind \in {"diff", "spoilt"}
  <2>1. n + 1 \in 1..EOF
    BY <1>1
  <2>2. PICK m \in 1..n :
          /\ IsSave(lines[m]) /\ lines[m].snap = LineAt(n).base
          /\ \A k \in (m + 1)..n : ~IsSave(lines[k])
    BY <1>1, <1>3, <2>1 DEF Coherent, FileSound, SavesHold
  <2>3. m = w.bsl + 1
    <3>1. ASSUME m < w.bsl + 1 PROVE FALSE
      <4>1. w.bsl + 1 \in (m + 1)..n
        BY <1>1, <3>1
      <4> QED
        BY <2>2, <4>1 DEF LineAt
    <3>2. ASSUME m > w.bsl + 1 PROVE FALSE
      <4>1. m - 1 \in (w.bsl + 1)..(n - 1) /\ (m - 1) + 1 = m
        BY <1>1, <3>2
      <4>2. ~IsSave(LineAt(m - 1))
        BY <4>1
      <4> QED
        BY <2>2, <4>1, <4>2 DEF LineAt
    <3> QED
      BY <1>1, <3>1, <3>2
  <2>4. w.bin = LineAt(n).base
    BY <2>2, <2>3 DEF LineAt
  <2>5. Adopt(w, n) = [w EXCEPT !.bin = Applied(LineAt(n), w.bin), !.bsl = n]
    BY <1>3 DEF Adopt
  <2>6. Applied(LineAt(n), w.bin) = LineAt(n).snap
    BY <2>4 DEF Applied
  <2> QED
    BY <2>5, <2>6 DEF View
<1> QED
  BY <1>2, <1>3 DEF IsSave

LEMMA AdoptFields ==
  ASSUME TypeOK, NEW w \in View, NEW n \in 0..(EOF - 1)
  PROVE  /\ Adopt(w, n) \in View
         /\ Adopt(w, n).bsl = n
         /\ Adopt(w, n).sbl = IF LineAt(n).kind = "full" THEN n ELSE w.sbl
         /\ Adopt(w, n).eogs = w.eogs
         /\ Adopt(w, n).expected = w.expected
         /\ Adopt(w, n).cmd = w.cmd
         /\ Adopt(w, n).roff = w.roff
<1> DEFINE s == LineAt(n).snap
           a == Applied(LineAt(n), w.bin)
<1>1. IF LineAt(n).kind = "full"
      THEN Adopt(w, n) = [w EXCEPT !.bin = s, !.bsl = n, !.sbl = n]
      ELSE Adopt(w, n) = [w EXCEPT !.bin = a, !.bsl = n]
  BY DEF Adopt
<1> HIDE DEF s, a
<1> QED
  BY <1>1, AdoptType DEF View

LEMMA PlayGameStep ==
  ASSUME Coherent, NEW p \in Procs, PlayGame(p)
  PROVE  Coherent'
<1>1. PICK mode \in {"play", "watch", "recoverquit"},
           place \in {"undo", "sync"} :
        /\ view' = [view EXCEPT ![p] = [NoView EXCEPT !.mode = mode]]
        /\ Goto(p, place)
  BY DEF PlayGame
<1> DEFINE w == [NoView EXCEPT !.mode = mode]
<1>2. w \in View /\ w.expected = 0
  BY NoViewType DEF NoView, View
<1>3. place \in Place /\ view' = [view EXCEPT ![p] = w]
  BY <1>1 DEF Place
<1> HIDE DEF w
<1>4. view'[p] = w /\ pc'[p] = place
  BY <1>1, <1>2, <1>3, MoveType DEF Coherent
<1>5. rcount' \in Nat
  BY DEF PlayGame, fileVars, Coherent, TypeOK
<1>6. Sound(p)'
  BY <1>2, <1>4, <1>5 DEF Sound, ControlSound, ViewSound, InGame
<1> QED
  BY <1>1, <1>2, <1>3, <1>6, LocalStep DEF PlayGame, envVars, outcomeVars, Coherent, TypeOK

LEMMA UndoQuitReadStep ==
  ASSUME Coherent, NEW p \in Procs, UndoQuitRead(p)
  PROVE  Coherent'
<1> DEFINE r == EOF - 1
           w == [view[p] EXCEPT !.expected = rcount, !.roff = r]
           place == IF lines[EOF].kind = "Q" THEN "unquit" ELSE "sync"
<1>1. /\ EOF \in Nat \ {0} /\ r \in Nat /\ rcount \in Nat /\ TypeOK
      /\ view[p] \in View
  BY DEF Coherent, FileSound, TypeOK, EOF
<1>2. lines[EOF].kind = "Q" => r \in 1..EOF
  BY <1>1 DEF Coherent, FileSound
<1> HIDE DEF r
<1>3. w \in View /\ w.roff = r /\ w.expected = rcount
  BY <1>1 DEF View
<1>4. view' = [view EXCEPT ![p] = w] /\ Goto(p, place) /\ place \in Place
  BY DEF UndoQuitRead, Place, r
<1> HIDE DEF w
<1>5. view'[p] = w /\ pc'[p] = place
  BY <1>1, <1>3, <1>4, MoveType
<1>6. rcount' = rcount /\ EOF' = EOF
  BY DEF UndoQuitRead, fileVars, EOF
<1>7. Sound(p)'
  BY <1>1, <1>2, <1>3, <1>5, <1>6
  DEF Sound, ControlSound, ViewSound, InGame
<1> QED
  BY <1>1, <1>3, <1>4, <1>7, LocalStep
  DEF UndoQuitRead, envVars, outcomeVars, Coherent, TypeOK

LEMMA SyncHeaderStep ==
  ASSUME Coherent, NEW p \in Procs, SyncHeader(p)
  PROVE  Coherent'
<1> DEFINE w == [view[p] EXCEPT !.expected = rcount]
<1>1. rcount \in Nat /\ TypeOK /\ view[p] \in View
  BY DEF Coherent, TypeOK
<1>2. w \in View /\ w.expected = rcount
  BY <1>1 DEF View
<1>3. /\ view' = [view EXCEPT ![p] = w] /\ Goto(p, "backup")
      /\ "backup" \in Place
  BY DEF SyncHeader, Place
<1> HIDE DEF w
<1>4. view'[p] = w /\ pc'[p] = "backup"
  BY <1>1, <1>2, <1>3, MoveType
<1>5. Sound(p)'
  BY <1>1, <1>2, <1>4
  DEF Sound, ControlSound, ViewSound, InGame, SyncHeader, fileVars
<1> QED
  BY <1>1, <1>2, <1>3, <1>5, LocalStep
  DEF SyncHeader, envVars, outcomeVars, Coherent, TypeOK

LEMMA SyncBackupStep ==
  ASSUME Coherent, NEW p \in Procs, SyncBackup(p)
  PROVE  Coherent'
<1> DEFINE b == IF IsBackupAt(hint) THEN hint ELSE 0
           s == LineAt(b).snap
           w == [view[p] EXCEPT !.sbl = b, !.bsl = b, !.bin = s]
<1>1. /\ EOF \in Nat /\ EOF >= 1 /\ hint \in Nat /\ TypeOK /\ view[p] \in View
      /\ LineAt(0).kind = "full"
  BY DEF Coherent, FileSound, TypeOK, EOF, LineAt
<1>2. b \in Nat /\ b < EOF /\ LineAt(b).kind = "full"
  BY <1>1 DEF IsBackupAt, HasLine, IsSave
<1> HIDE DEF b
<1>3. s \in State
  <2>1. b \in 0..(EOF - 1)
    BY <1>1, <1>2
  <2> QED
    BY <1>1, <2>1, LineAtType DEF Line
<1> HIDE DEF s
<1>4. /\ w \in View /\ w.bsl = b /\ w.sbl = b /\ w.bin = s
      /\ w.expected = view[p].expected
  BY <1>1, <1>2, <1>3 DEF View
<1>5. /\ view' = [view EXCEPT ![p] = w] /\ Goto(p, "scan")
      /\ "scan" \in Place
  BY DEF SyncBackup, Place, b, s
<1> HIDE DEF w
<1>6. view'[p] = w /\ pc'[p] = "scan"
  BY <1>1, <1>4, <1>5, MoveType
<1>7. SaveKnown(p)'
  <2> PICK n \in Nat : n = b
    BY <1>2
  <2>1. EOF' = EOF /\ lines' = lines
    BY DEF SyncBackup, fileVars, EOF
  <2>2. view'[p].sbl = n /\ view'[p].bsl = n /\ view'[p].bin = LineAt(n).snap
    BY <1>4, <1>6 DEF s
  <2>3. LineAt(n)' = LineAt(n) /\ n < EOF /\ LineAt(n).kind = "full"
    BY <1>2, <2>1 DEF LineAt
  <2> QED
    BY <1>1, <2>1, <2>2, <2>3 DEF SaveKnown, IsSave
<1>8. Sound(p)'
  BY <1>4, <1>6, <1>7
  DEF Sound, ControlSound, ViewSound, InGame, SyncBackup, fileVars, Coherent
<1> QED
  BY <1>1, <1>4, <1>5, <1>8, LocalStep
  DEF SyncBackup, envVars, outcomeVars, Coherent, TypeOK

LEMMA SyncForwardStep ==
  ASSUME Coherent, NEW p \in Procs, SyncForward(p)
  PROVE  Coherent'
<1>1. PICK n \in SavesAfter(view[p].bsl) :
        /\ \A m \in SavesAfter(view[p].bsl) : n <= m
        /\ view' = [view EXCEPT ![p] = Adopt(view[p], n)]
  BY DEF SyncForward
<1> DEFINE w == Adopt(view[p], n)
<1>2. /\ EOF \in Nat /\ TypeOK /\ view[p] \in View /\ view[p].bsl \in Nat
      /\ view[p].sbl \in Nat
      /\ n \in Int /\ view[p].bsl < n /\ n < EOF /\ n \in 0..(EOF - 1)
      /\ IsSave(LineAt(n))
  BY DEF Coherent, TypeOK, EOF, View, SavesAfter
<1>3. /\ w \in View /\ w.bsl = n
      /\ w.sbl = IF LineAt(n).kind = "full" THEN n ELSE view[p].sbl
      /\ w.expected = view[p].expected
  BY <1>2, AdoptFields
<1>4. \A m \in (view[p].bsl + 1)..(n - 1) : ~IsSave(LineAt(m))
  BY <1>1, <1>2 DEF SavesAfter
<1>5. SaveKnown(p) => w.bin = LineAt(n).snap
  BY <1>2, <1>4, AdoptKnown DEF SaveKnown
<1> HIDE DEF w
<1>6. "scan" \in Place /\ pc[p] = "scan" /\ pc' = pc /\ UNCHANGED fileVars
  BY DEF Place, SyncForward
<1>7. Goto(p, "scan") /\ view' = [view EXCEPT ![p] = w]
  BY <1>1, <1>2, <1>6 DEF Goto, TypeOK, w
<1>8. view'[p] = w /\ pc'[p] = "scan"
  BY <1>2, <1>3, <1>6, <1>7, MoveType
<1>9. SaveKnown(p) => SaveKnown(p)'
  BY <1>2, <1>3, <1>5, <1>6, <1>8 DEF SaveKnown, EOF, LineAt, IsSave, fileVars
<1>10. ~CountStale(p)' => SaveKnown(p)
  BY <1>3, <1>6, <1>8 DEF CountStale, Coherent, ViewSound, fileVars
<1>11. Sound(p)'
  BY <1>3, <1>6, <1>8, <1>9, <1>10
  DEF Sound, ControlSound, ViewSound, InGame, fileVars, Coherent
<1> QED
  BY <1>2, <1>3, <1>6, <1>7, <1>11, LocalStep
  DEF SyncForward, envVars, outcomeVars, Coherent, TypeOK

\* There is no "Q" up to a line that is not the last one, or no "Q" itself.
LEMMA NoQuitBefore ==
  ASSUME Coherent, NEW n \in Nat, n < EOF, LineAt(n).kind # "Q"
  PROVE  \A m \in 1..(n + 1) : lines[m].kind # "Q"
<1>1. EOF \in Nat
  BY DEF Coherent, TypeOK, EOF
<1> SUFFICES ASSUME NEW m \in 1..(n + 1) PROVE lines[m].kind # "Q"
  OBVIOUS
<1>2. CASE m = n + 1
  BY <1>2 DEF LineAt
<1>3. CASE m # n + 1
  <2>1. m \in 1..(EOF - 1)
    BY <1>1, <1>3
  <2> QED
    BY <2>1 DEF Coherent, QuitIsLast
<1> QED
  BY <1>2, <1>3

\* A process whose engine has just been loaded from a save line that it knows
\* is where the file goes; and that line is no "Q".
LEMMA LoadedSound ==
  ASSUME Coherent, NEW p \in Procs, NEW w \in View,
         pc'[p] = "ready", view'[p] = Loaded(w), UNCHANGED fileVars,
         w.expected <= rcount,
         w.expected = rcount =>
           /\ w.sbl <= w.bsl /\ w.bsl < EOF
           /\ LineAt(w.sbl).kind = "full"
           /\ IsSave(LineAt(w.bsl))
           /\ w.bin = LineAt(w.bsl).snap
  PROVE  Sound(p)'
<1> DEFINE u == Loaded(w)
<1>1. /\ TypeOK /\ EOF \in Nat /\ EOF' = EOF /\ w.bsl \in Nat
      /\ rcount' = rcount /\ lines' = lines /\ EOF = Len(lines)
  BY DEF Coherent, TypeOK, EOF, View, fileVars
<1>2. /\ u.eogs = IF HasLine(w.bsl) THEN w.bsl + 1 ELSE w.bsl
      /\ u.engine = w.bin /\ u.cmd = NoCommand /\ u.bsl = w.bsl
      /\ u.sbl = w.sbl
      /\ u.bin = w.bin /\ u.expected = w.expected
  BY <1>1, LoadedType
<1> HIDE DEF u
<1>3. view'[p] = u
  BY DEF u
<1>4. ControlSound(p)'
  BY <1>1, <1>2, <1>3 DEF ControlSound
<1>5. ASSUME w.expected = rcount PROVE SaveKnown(p)' /\ PlaceKnown(p)'
  <2>1. /\ w.bsl < EOF /\ IsSave(LineAt(w.bsl)) /\ w.bin = LineAt(w.bsl).snap
        /\ u.eogs = w.bsl + 1
        /\ w.sbl <= w.bsl /\ LineAt(w.sbl).kind = "full"
    BY <1>2, <1>5 DEF HasLine
  <2>2. SaveKnown(p)'
    BY <1>1, <1>2, <1>3, <2>1 DEF SaveKnown, IsSave, LineAt
  <2>3. w.bsl + 1 \in 1..EOF
    BY <1>1, <2>1
  <2>4. LineAt(w.bsl).snap = LineAt(w.bsl).after
    BY <2>1, <2>3 DEF Coherent, FileSound, SavesHold, LineAt
  <2>5. u.engine = After(u.eogs)
    BY <1>1, <1>2, <2>1, <2>3, <2>4 DEF After, LineAt
  <2>6. \A n \in 1..(w.bsl + 1) : lines[n].kind # "Q"
    <3>1. LineAt(w.bsl).kind # "Q"
      BY <2>1 DEF IsSave
    <3> QED
      BY <1>1, <2>1, <3>1, NoQuitBefore
  <2>7. After(w.bsl + 1)' = After(w.bsl + 1)
    BY <1>1 DEF After
  <2>8. PlaceKnown(p)'
    BY <1>1, <1>2, <1>3, <2>1, <2>3, <2>5, <2>6, <2>7 DEF PlaceKnown, After
  <2> QED
    BY <2>2, <2>8
<1>6. ViewSound(p)'
  BY <1>1, <1>2, <1>3, <1>5 DEF ViewSound, CountStale, InGame
<1> QED
  BY <1>4, <1>6 DEF Sound

LEMMA SyncEndStep ==
  ASSUME Coherent, NEW p \in Procs, SyncEnd(p)
  PROVE  Coherent'
<1> DEFINE v == view[p]
<1>0. TypeOK /\ v \in View /\ v.bsl \in Nat /\ EOF \in Nat
  BY DEF Coherent, TypeOK, View, EOF
<1>1. /\ TypeOK /\ v \in View /\ v.bsl \in Nat /\ EOF \in Nat
      /\ UNCHANGED <<fileVars, outcomeVars, envVars>> /\ pc[p] = "scan"
  BY <1>0 DEF SyncEnd
<1>2. CASE partial
  <2>1. AskRecovery(p, EOF)
    BY <1>2 DEF SyncEnd, AskRecovery
  <2> QED
    BY <1>1, <2>1, RecoveryOffset, AskRecoveryStep DEF envVars, outcomeVars, TypeOK
<1>3. CASE ~partial
  <2>1. /\ view' = [view EXCEPT ![p] = Loaded(v)] /\ Goto(p, "ready")
        /\ "ready" \in Place /\ Loaded(v) \in View
    BY <1>1, <1>3, LoadedType DEF SyncEnd, Place
  <2>2. view'[p] = Loaded(v) /\ pc'[p] = "ready"
    BY <1>1, <2>1, MoveType
  <2>3. v.expected <= rcount /\ (v.expected = rcount => SaveKnown(p))
    BY <1>1 DEF Coherent, ControlSound, ViewSound, CountStale
  <2>5. Sound(p)'
    <3>1. v.expected = rcount =>
            /\ v.sbl <= v.bsl /\ v.bsl < EOF
            /\ LineAt(v.sbl).kind = "full"
            /\ IsSave(LineAt(v.bsl))
            /\ v.bin = LineAt(v.bsl).snap
      BY <2>3 DEF SaveKnown
    <3> HIDE DEF v
    <3> QED
      BY <1>1, <2>2, <2>3, <3>1, LoadedSound
  <2> QED
    BY <1>1, <2>1, <2>5, LocalStep DEF envVars, outcomeVars, TypeOK
<1> QED
  BY <1>2, <1>3

-----------------------------------------------------------------------------
(* The turn. *)

\* A process consumes the value v of the input line at its place; the line
\* has been there (Replay) or is what it has just added (Record).
LEMMA ConsumeSound ==
  ASSUME Coherent, TypeOK', NEW p \in Procs, WantsLine(p) \/ Asking(p),
         NEW v \in Wanted(p), Consume(p, v), rcount' = rcount, Grown,
         ~CountStale(p) =>
           /\ view[p].eogs < EOF'
           /\ lines'[view[p].eogs + 1].kind = "input"
           /\ lines'[view[p].eogs + 1].after = Append(After(view[p].eogs), v)
  PROVE  OthersKeep(p) /\ Sound(p)'
<1> DEFINE u == view[p]
           w == Consumed(view[p], v)
<1>0. /\ EOF \in Nat /\ EOF' \in Nat /\ EOF' = Len(lines')
  BY DEF Coherent, TypeOK, EOF
<1>1. /\ TypeOK /\ ControlSound(p) /\ u \in View /\ EOF \in Nat /\ EOF' \in Nat
      /\ u.eogs \in Nat /\ u.bsl \in Nat /\ u.sbl \in Nat /\ EOF' = Len(lines')
  BY <1>0 DEF Coherent, TypeOK, View
<1>e. PICK e \in Nat : e = u.eogs
  BY <1>1
<1>2. /\ w \in View /\ w.eogs = u.eogs + 1
      /\ w.engine = Append(u.engine, v) /\ w.cmd # NoCommand
      /\ w.bsl = u.bsl /\ w.sbl = u.sbl /\ w.bin = u.bin /\ w.expected = u.expected
  BY <1>1, WantedType, ConsumedType
<1>3. PlaceAfter(w) \in {"turn", "dead", "neutral"}
  BY PlaceAfterType
<1>4. PlaceAfter(w) = "turn" => w.todo > 0
  BY DEF PlaceAfter
<1> DEFINE place == PlaceAfter(w)
<1>5. Goto(p, place) /\ view' = [view EXCEPT ![p] = w] /\ place \in Place
  BY <1>3 DEF Consume, Place
<1> HIDE DEF w, place
<1>6. view'[p] = w /\ pc'[p] = place /\ OthersKeep(p)
  BY <1>1, <1>2, <1>5, MoveType
<1>7. place \in {"turn", "dead", "neutral"} /\ (place = "turn" => w.todo > 0)
  BY <1>3, <1>4 DEF place
<1>8. ControlSound(p)'
  BY <1>1, <1>2, <1>6, <1>7 DEF ControlSound
<1>9. ASSUME ~CountStale(p) PROVE SaveKnown(p)' /\ PlaceKnown(p)'
  <2>1. SaveKnown(p) /\ PlaceKnown(p) /\ pc[p] \notin {"over", "ended"}
    BY <1>9 DEF Coherent, ViewSound, InGame, WantsLine, Asking
  <2>2. /\ \A n \in Int : 0 <= n /\ n < EOF => LineAt(n)' = LineAt(n)
        /\ \A n \in Int : n <= EOF => After(n)' = After(n)
        /\ EOF <= EOF'
    BY <1>1, GrownKeeps DEF Grown
  <2>3. SaveKnown(p)'
    BY <1>1, <1>2, <1>6, <2>1, <2>2 DEF SaveKnown, IsSave
  <2>4. u.eogs + 1 \in 1..EOF' /\ u.eogs \in 1..EOF
    BY <1>1, <1>9, <2>1 DEF PlaceKnown
  <2>5. After(e + 1)' = Append(u.engine, v)
    <3>1. After(e + 1)' = lines'[e + 1].after
      BY <1>1, <1>e, <2>4 DEF After
    <3>2. lines'[e + 1].after = Append(After(u.eogs), v)
      BY <1>9, <1>e
    <3> QED
      BY <2>1, <3>1, <3>2 DEF PlaceKnown
  <2>6. \A n \in (u.bsl + 1)..u.eogs : ~IsSave(LineAt(n))'
    <3> SUFFICES ASSUME NEW n \in (u.bsl + 1)..u.eogs
                 PROVE  ~IsSave(LineAt(n))'
      OBVIOUS
    <3>1. CASE n = u.eogs
      BY <1>9, <3>1 DEF LineAt, IsSave
    <3>2. CASE n # u.eogs
      <4>1. n \in (u.bsl + 1)..(u.eogs - 1) /\ n \in Int /\ 0 <= n /\ n < EOF
        BY <1>1, <2>4, <3>2
      <4>2. ~IsSave(LineAt(n)) /\ LineAt(n)' = LineAt(n)
        BY <2>1, <2>2, <4>1 DEF PlaceKnown
      <4> QED
        BY <4>2 DEF IsSave
    <3> QED
      BY <3>1, <3>2
  <2>7. \A n \in 1..(u.eogs + 1) : lines'[n].kind # "Q"
    <3> SUFFICES ASSUME NEW n \in 1..(u.eogs + 1) PROVE lines'[n].kind # "Q"
      OBVIOUS
    <3>1. CASE n = u.eogs + 1
      BY <1>9, <3>1
    <3>2. CASE n # u.eogs + 1
      <4>1. n \in 1..u.eogs /\ n \in 1..EOF
        BY <1>1, <2>4, <3>2
      <4> QED
        BY <2>1, <4>1 DEF PlaceKnown, Grown
    <3> QED
      BY <3>1, <3>2
  <2>8. w.eogs - 1 = u.eogs /\ u.bsl < w.eogs
    BY <1>1, <1>2, <2>1 DEF PlaceKnown
  <2>9. PlaceKnown(p)'
    <3>1. view'[p].eogs = e + 1 /\ e + 1 \in 1..EOF' /\ (e + 1) - 1 = e
      BY <1>2, <1>6, <1>e, <2>4
    <3>2. view'[p].engine = After(e + 1)'
      BY <1>2, <1>6, <2>5
    <3>3. view'[p].bsl < view'[p].eogs
      BY <1>2, <1>6, <2>8
    <3>4. \A n \in (view'[p].bsl + 1)..e : ~IsSave(LineAt(n))'
      BY <1>2, <1>6, <1>e, <2>6
    <3>5. \A n \in 1..(e + 1) : lines'[n].kind # "Q"
      BY <1>e, <2>7
    <3>6. pc'[p] \notin {"over", "ended"}
      BY <1>6, <1>7
    <3> QED
      BY <3>1, <3>2, <3>3, <3>4, <3>5, <3>6 DEF PlaceKnown
  <2> QED
    BY <2>3, <2>9
<1>10. ViewSound(p)'
  BY <1>2, <1>6, <1>7, <1>9 DEF ViewSound, CountStale, InGame
<1> QED
  BY <1>6, <1>8, <1>10 DEF Sound

\* A process whose count is the file's can read on where it is.
LEMMA NextLine ==
  ASSUME Coherent, NEW p \in Procs, InGame(p), ~CountStale(p), HasLine(view[p].eogs)
  PROVE  /\ view[p].eogs \in 1..(EOF - 1) /\ EOF \in Nat
         /\ After(view[p].eogs) = lines[view[p].eogs].after
         /\ LineAt(view[p].eogs).kind = "input" =>
              LineAt(view[p].eogs).after =
                Append(After(view[p].eogs), LineAt(view[p].eogs).val)
<1> DEFINE n == view[p].eogs
<1>1. n \in 1..EOF /\ EOF \in Nat /\ n < EOF
  BY DEF Coherent, ViewSound, PlaceKnown, TypeOK, EOF, HasLine
<1>2. n \in 1..(EOF - 1) /\ n + 1 \in 2..EOF /\ (n + 1) - 1 = n
  BY <1>1
<1>3. After(n) = lines[n].after
  BY <1>2 DEF After, EOF
<1>4. lines[n + 1].kind = "input" =>
        lines[n + 1].after = Append(lines[n].after, lines[n + 1].val)
  BY <1>2 DEF Coherent, FileSound, AfterFollows
<1> QED
  BY <1>1, <1>2, <1>3, <1>4 DEF LineAt

LEMMA ReplayStep ==
  ASSUME Coherent, NEW p \in Procs, Replay(p)
  PROVE  Coherent'
<1> DEFINE v == LineAt(view[p].eogs).val
<1>1. /\ WantsLine(p) /\ v \in Wanted(p) /\ Consume(p, v)
      /\ HasLine(view[p].eogs) /\ LineAt(view[p].eogs).kind = "input"
      /\ UNCHANGED <<fileVars, outcomeVars, envVars>>
  BY DEF Replay
<1>2. InGame(p)
  BY <1>1 DEF InGame, WantsLine
<1>3. ~CountStale(p) =>
        /\ view[p].eogs \in 1..(EOF - 1) /\ EOF \in Nat
        /\ LineAt(view[p].eogs).after = Append(After(view[p].eogs), v)
  BY <1>1, <1>2, NextLine
<1>4. lines' = lines /\ EOF' = EOF /\ rcount' = rcount /\ Grown
  BY <1>1 DEF fileVars, EOF, Grown, Coherent, TypeOK
<1> HIDE DEF v
<1>5. TypeOK'
  <2>1. v \in Values /\ Consumed(view[p], v) \in View
    BY <1>1, WantedType, ConsumedType DEF Coherent, TypeOK
  <2>2. PlaceAfter(Consumed(view[p], v)) \in Place
    BY PlaceAfterType DEF Place
  <2>3. pc' \in [Procs -> Place] /\ view' \in [Procs -> View]
    BY <1>1, <2>1, <2>2, MoveType DEF Consume, Coherent
  <2> QED
    BY <1>1, <2>3 DEF Coherent, TypeOK, fileVars, envVars, outcomeVars
<1>6. OthersKeep(p) /\ Sound(p)'
  BY <1>1, <1>3, <1>4, <1>5, ConsumeSound DEF LineAt
<1> QED
  BY <1>1, <1>4, <1>5, <1>6, KeepStep DEF fileVars

LEMMA RecordStep ==
  ASSUME Coherent, NEW p \in Procs, NEW v \in Values, Record(p, v)
  PROVE  Coherent'
<1>1. CASE UpdateRefused(p)
  BY <1>1, RefusedStep
<1>2. CASE /\ MayUpdate(p)
           /\ AppendLine(InputLine(v))
           /\ Consume(p, v)
           /\ UNCHANGED <<hint, outcomeVars, envVars>>
  <2>1. /\ Asking(p) /\ v \in Wanted(p)
        /\ InGame(p) /\ pc[p] \notin {"over", "ended"}
    BY DEF Record, Asking, InGame
  <2> DEFINE l == InputLine(v)
  <2>2. /\ Continues(p, l) /\ l.kind = "input"
        /\ l.after = Append(After(EOF), v)
    BY LineTypes DEF Continues, InputLine, IsSave, Coherent
  <2> HIDE DEF l
  <2>3. AppendLine(l)
    BY <1>2 DEF l
  <2>4. /\ lines' \in Seq(Line)
        /\ FileSound' /\ QuitIsLast' /\ DoneEndsWithQuit'
        /\ rcount' = rcount /\ Grown
        /\ EOF' = EOF + 1 /\ lines'[EOF + 1] = l
    BY <1>2, <2>1, <2>2, <2>3, AppendSound
  <2>5. view[p].eogs = EOF /\ EOF \in Nat
    BY <1>2, <2>1, WriterKnows
  <2>6. TypeOK'
    <3>1. Consumed(view[p], v) \in View
      BY <2>1, WantedType, ConsumedType DEF Coherent, TypeOK
    <3>2. PlaceAfter(Consumed(view[p], v)) \in Place
      BY PlaceAfterType DEF Place
    <3>3. pc' \in [Procs -> Place] /\ view' \in [Procs -> View]
      BY <1>2, <3>1, <3>2, MoveType DEF Consume, Coherent
    <3> QED
      BY <1>2, <2>4, <3>3 DEF Coherent, TypeOK, AppendLine, envVars, outcomeVars
  <2>7. OthersKeep(p) /\ Sound(p)'
    <3>1. /\ view[p].eogs < EOF'
          /\ lines'[view[p].eogs + 1].kind = "input"
          /\ lines'[view[p].eogs + 1].after = Append(After(view[p].eogs), v)
      BY <2>2, <2>4, <2>5
    <3> QED
      BY <1>2, <2>1, <2>4, <2>6, <3>1, ConsumeSound
  <2> QED
    BY <2>4, <2>6, <2>7, StepSound
<1> QED
  BY <1>1, <1>2 DEF Record

\* A save line added at the end of a turn; what becomes of the process.
LEMMA SaveStep ==
  ASSUME Coherent, NEW p \in Procs, InGame(p), pc[p] \notin {"over", "ended"},
         MayUpdate(p), NEW l, Continues(p, l), l.kind \in {"full", "diff"}, AppendLine(l),
         Saved(p, l), Goto(p, "ready"), hint' \in Nat,
         UNCHANGED <<outcomeVars, envVars>>
  PROVE  Coherent'
<1>1. /\ lines' \in Seq(Line)
      /\ FileSound' /\ QuitIsLast' /\ DoneEndsWithQuit'
      /\ rcount' = rcount /\ Grown
      /\ EOF' = EOF + 1 /\ lines'[EOF + 1] = l
  BY AppendSound
<1>2. /\ TypeOK /\ view[p] \in View /\ EOF \in Nat \ {0}
      /\ view[p].engine = After(EOF) /\ PlaceKnown(p) /\ view[p].eogs = EOF
      /\ SaveKnown(p) /\ view[p].sbl \in Nat /\ view[p].bsl \in Nat
  BY WriterKnows DEF Coherent, TypeOK, View
<1> DEFINE e == view[p].engine
           m == EOF
           f == EOF + 1
           w == [view[p] EXCEPT !.bin = e, !.bsl = m, !.eogs = f,
                                !.cmd = NoCommand]
           x == [w EXCEPT !.sbl = m]
           u == IF l.kind = "full" THEN x ELSE w
<1>3. e \in State /\ m \in Nat /\ f \in Nat
  BY <1>2 DEF View
<1>4. view' = [view EXCEPT ![p] = u]
  BY DEF Saved
<1> HIDE DEF e, m, f
<1>5. /\ w \in View /\ w.eogs = f /\ w.engine = view[p].engine
      /\ w.bin = e /\ w.sbl = view[p].sbl /\ w.bsl = m /\ w.cmd = NoCommand
      /\ w.expected = view[p].expected
  BY <1>2, <1>3 DEF View
<1> HIDE DEF w
<1>6. /\ x \in View /\ x.eogs = f /\ x.engine = view[p].engine
      /\ x.bin = e /\ x.sbl = m /\ x.bsl = m /\ x.cmd = NoCommand
      /\ x.expected = view[p].expected
  BY <1>3, <1>5 DEF View
<1> HIDE DEF x
<1>7. /\ u \in View /\ u.eogs = EOF + 1 /\ u.engine = After(EOF)
      /\ u.bin = After(EOF) /\ u.bsl = EOF /\ u.cmd = NoCommand
      /\ u.sbl = IF l.kind = "full" THEN EOF ELSE view[p].sbl
      /\ u.expected = view[p].expected
  BY <1>2, <1>5, <1>6 DEF e, m, f
<1> HIDE DEF u
<1>8. "ready" \in Place
  BY DEF Place
<1>9. /\ pc' \in [Procs -> Place] /\ view' \in [Procs -> View]
      /\ OthersKeep(p) /\ pc'[p] = "ready" /\ view'[p] = u
  BY <1>2, <1>4, <1>7, <1>8, MoveType
<1>10. TypeOK'
  BY <1>1, <1>2, <1>9 DEF TypeOK, AppendLine, envVars, outcomeVars
<1> PICK n \in Nat : n = EOF
  BY <1>2
<1>11. l.snap = After(n) /\ l.after = After(n) /\ l.kind # "Q"
  BY DEF Continues, IsSave
<1>12. SaveKnown(p)'
  <2>1. LineAt(n)' = l /\ view'[p].bsl = n /\ n < EOF'
    BY <1>1, <1>2, <1>7, <1>9 DEF LineAt
  <2>2. view'[p].sbl <= n /\ LineAt(view[p].sbl)'.kind = "full"
    <3>1. CASE l.kind = "full"
      BY <1>2, <1>7, <1>9, <2>1, <3>1
    <3>2. CASE l.kind # "full"
      <4>1. view'[p].sbl = view[p].sbl
        BY <1>7, <1>9, <3>2
      <4>2. /\ view[p].sbl < n /\ view[p].sbl + 1 \in 1..EOF
            /\ LineAt(view[p].sbl).kind = "full"
        BY <1>2 DEF SaveKnown
      <4>3. lines'[view[p].sbl + 1] = lines[view[p].sbl + 1]
        BY <1>1, <4>2 DEF Grown
      <4> QED
        BY <1>2, <4>1, <4>2, <4>3 DEF LineAt
    <3> QED
      BY <3>1, <3>2
  <2> QED
    BY <1>7, <1>9, <1>11, <2>1, <2>2 DEF SaveKnown, IsSave
<1>13. PlaceKnown(p)'
  <2>1. After(n + 1)' = l.after
    BY <1>1, <1>2 DEF After, EOF
  <2>2. view'[p].eogs = n + 1 /\ n + 1 \in 1..EOF' /\ view'[p].bsl = n
    BY <1>1, <1>7, <1>9
  <2>3. \A k \in 1..(n + 1) : lines'[k].kind # "Q"
    <3>1. \A k \in 1..n : lines'[k] = lines[k] /\ lines[k].kind # "Q"
      BY <1>1, <1>2 DEF Grown, PlaceKnown
    <3> QED
      BY <1>1, <1>11, <3>1
  <2>4. view'[p].engine = After(n + 1)'
    BY <1>7, <1>9, <1>11, <2>1
  <2>5. \A k \in (n + 1)..((n + 1) - 1) : ~IsSave(LineAt(k))'
    OBVIOUS
  <2> QED
    BY <1>9, <2>2, <2>3, <2>4, <2>5 DEF PlaceKnown
<1>14. ControlSound(p)'
  BY <1>1, <1>7, <1>9 DEF ControlSound, Coherent
<1>15. Sound(p)'
  BY <1>9, <1>12, <1>13, <1>14 DEF Sound, ViewSound
<1> QED
  BY <1>1, <1>9, <1>10, <1>15, StepSound

LEMMA NeutralTurnstateStep ==
  ASSUME Coherent, NEW p \in Procs, NeutralTurnstate(p)
  PROVE  Coherent'
<1>1. pc[p] = "neutral" /\ InGame(p) /\ pc[p] \notin {"over", "ended"}
  BY DEF NeutralTurnstate, InGame
<1>2. CASE WriteBackup(p) /\ UNCHANGED <<outcomeVars, envVars>>
  <2>1. /\ view[p].engine = After(EOF) /\ view[p].engine \in State
        /\ EOF \in Nat
    BY <1>1, <1>2, WriterKnows DEF WriteBackup, Coherent, TypeOK, View
  <2> DEFINE l == FullLine(view[p].engine)
  <2>2. Continues(p, l) /\ l.kind \in {"full", "diff"}
    BY <2>1, LineTypes DEF Continues, FullLine, IsSave, Coherent
  <2> HIDE DEF l
  <2>3. MayUpdate(p) /\ AppendLine(l) /\ Saved(p, l) /\ hint' = EOF
        /\ Goto(p, "ready")
    BY <1>2 DEF WriteBackup, l
  <2> QED
    BY <1>1, <1>2, <2>1, <2>2, <2>3, SaveStep
<1>3. CASE WriteDiff(p) /\ UNCHANGED <<outcomeVars, envVars>>
  <2>1. /\ view[p].engine = After(EOF) /\ view[p].engine \in State
        /\ view[p].bin \in State
    BY <1>1, <1>3, WriterKnows DEF WriteDiff, Coherent, TypeOK, View
  <2> DEFINE l == DiffLine(view[p].engine, view[p].bin)
  <2>2. Continues(p, l) /\ l.kind \in {"full", "diff"}
    BY <2>1, LineTypes DEF Continues, DiffLine, IsSave, Coherent
  <2> HIDE DEF l
  <2>3. MayUpdate(p) /\ AppendLine(l) /\ Saved(p, l) /\ hint' = hint
        /\ Goto(p, "ready")
    BY <1>3 DEF WriteDiff, l
  <2> QED
    BY <1>1, <1>3, <2>2, <2>3, SaveStep DEF Coherent, TypeOK
<1>4. CASE UpdateRefused(p)
  BY <1>4, RefusedStep
<1>5. CASE /\ Goto(p, "saveline")
           /\ UNCHANGED <<fileVars, outcomeVars, view, envVars>>
  <2>1. "saveline" \in Place /\ view[p] \in View /\ TypeOK
    BY DEF Place, Coherent, TypeOK
  <2>2. view' = [view EXCEPT ![p] = view[p]]
    BY <1>5, <2>1 DEF TypeOK
  <2>3. pc'[p] = "saveline" /\ view'[p] = view[p]
    BY <1>5, <2>1, <2>2, MoveType
  <2>4. ViewSound(p)'
    BY <1>1, <1>5, <2>3, SameSpot DEF InGame, fileVars
  <2>5. ControlSound(p)'
    BY <1>5, <2>3 DEF ControlSound, Coherent, fileVars
  <2> QED
    BY <1>5, <2>1, <2>2, <2>4, <2>5, LocalStep DEF Sound, TypeOK, envVars, outcomeVars
<1> QED
  BY <1>2, <1>3, <1>4, <1>5 DEF NeutralTurnstate

\* The process gives up on the save line and goes on with the next command.
LEMMA NoSaveLineStep ==
  ASSUME Coherent, NEW p \in Procs, pc[p] = "saveline",
         view' = [view EXCEPT ![p].cmd = NoCommand], Goto(p, "ready"),
         UNCHANGED <<fileVars, outcomeVars, envVars>>
  PROVE  Coherent'
<1> DEFINE w == [view[p] EXCEPT !.cmd = NoCommand]
<1>1. view[p] \in View /\ TypeOK /\ "ready" \in Place
  BY DEF Coherent, TypeOK, Place
<1>2. /\ w \in View /\ w.cmd = NoCommand /\ w.eogs = view[p].eogs
      /\ w.engine = view[p].engine /\ w.bsl = view[p].bsl
      /\ w.sbl = view[p].sbl
      /\ w.bin = view[p].bin /\ w.expected = view[p].expected
  BY <1>1 DEF View
<1>3. view' = [view EXCEPT ![p] = w]
  OBVIOUS
<1> HIDE DEF w
<1>4. view'[p] = w /\ pc'[p] = "ready"
  BY <1>1, <1>3 DEF TypeOK, Goto
<1>5. ViewSound(p)'
  BY <1>2, <1>4, SameSpot DEF InGame, fileVars
<1>6. ControlSound(p)'
  BY <1>2, <1>4 DEF ControlSound, Coherent, fileVars
<1> QED
  BY <1>1, <1>2, <1>3, <1>5, <1>6, LocalStep DEF Sound, envVars, outcomeVars, TypeOK

LEMMA ReplaySaveLineStep ==
  ASSUME Coherent, NEW p \in Procs, ReplaySaveLine(p)
  PROVE  Coherent'
<1> DEFINE n == view[p].eogs
<1>1. /\ pc[p] = "saveline" /\ HasLine(n)
      /\ UNCHANGED <<fileVars, outcomeVars, envVars>>
  BY DEF ReplaySaveLine
<1>2. /\ view[p] \in View /\ n \in Nat /\ view[p].bsl \in Nat /\ TypeOK
      /\ view[p].sbl \in Nat
      /\ EOF \in Nat
  BY DEF Coherent, TypeOK, View, EOF
<1>3. CASE IsSave(LineAt(n))
  <2> DEFINE w == Adopt(view[p], n)
  <2>1. n \in 0..(EOF - 1)
    BY <1>1, <1>2 DEF HasLine
  <2>2. /\ w \in View /\ w.bsl = n
        /\ w.sbl = IF LineAt(n).kind = "full" THEN n ELSE view[p].sbl
        /\ w.expected = view[p].expected
    BY <1>2, <2>1, AdoptFields
  <2>3. w.expected = rcount =>
          /\ w.sbl <= w.bsl /\ w.bsl < EOF
          /\ LineAt(w.sbl).kind = "full"
          /\ IsSave(LineAt(w.bsl))
          /\ w.bin = LineAt(w.bsl).snap
    <3>1. ASSUME ~CountStale(p) PROVE  /\ w.bin = LineAt(n).snap
             /\ w.sbl <= n /\ LineAt(w.sbl).kind = "full"
      <4>1. SaveKnown(p) /\ PlaceKnown(p)
        BY <1>1, <3>1 DEF Coherent, ViewSound, InGame
      <4>2. w.bin = LineAt(n).snap
        BY <1>2, <1>3, <2>1, <4>1, AdoptKnown DEF SaveKnown, PlaceKnown
      <4>3. w.sbl <= n /\ LineAt(w.sbl).kind = "full"
        <5> HIDE DEF w
        <5> QED
          BY <1>2, <2>2, <4>1 DEF SaveKnown, PlaceKnown
      <4> QED
        BY <4>2, <4>3
    <3>2. w.expected = rcount => ~CountStale(p)
      BY <2>2 DEF CountStale
    <3>3. n < EOF
      BY <1>2, <2>1
    <3> HIDE DEF w, n
    <3> QED
      BY <1>3, <2>2, <3>1, <3>2, <3>3
  <2>4. w.expected <= rcount
    BY <2>2 DEF Coherent, ControlSound
  <2>5. /\ view' = [view EXCEPT ![p] = Loaded(w)] /\ Goto(p, "ready")
        /\ "ready" \in Place
    BY <1>3 DEF ReplaySaveLine, Place
  <2> HIDE DEF w
  <2>6. Loaded(w) \in View
    BY <1>2, <2>2, LoadedType
  <2>7. view'[p] = Loaded(w) /\ pc'[p] = "ready"
    BY <1>2, <2>5, <2>6, MoveType
  <2>8. Sound(p)'
    BY <1>1, <2>2, <2>3, <2>4, <2>7, LoadedSound
  <2> QED
    BY <1>1, <1>2, <2>5, <2>6, <2>8, LocalStep DEF envVars, outcomeVars, TypeOK
<1>4. CASE ~IsSave(LineAt(n)) /\ LineAt(n).kind = "Q"
  <2>1. Exit(p, "off")
    BY <1>4 DEF ReplaySaveLine
  <2> QED
    BY <1>1, <1>2, <2>1, ExitStep DEF TypeOK, outcomeVars
<1>5. CASE ~IsSave(LineAt(n)) /\ LineAt(n).kind # "Q"
  <2>1. /\ view' = [view EXCEPT ![p].cmd = NoCommand]
        /\ Goto(p, "ready")
    BY <1>5 DEF ReplaySaveLine
  <2> QED
    BY <1>1, <2>1, NoSaveLineStep
<1> QED
  BY <1>3, <1>4, <1>5

LEMMA ReadLineStep ==
  ASSUME Coherent, NEW p \in Procs, ReadLine(p)
  PROVE  Coherent'
<1>0. finished \in Nat /\ declined \in BOOLEAN /\ crashes \in Nat /\ panics \in Nat
  BY DEF Coherent, TypeOK
<1>1. CASE Ask(p) \/ ServerCancel(p)
  BY <1>1, AskStep
<1>2. CASE Replay(p)
  BY <1>2, ReplayStep
<1>3. CASE ReplayQuit(p) \/ RecoverQuitStuck(p)
  <2>1. Exit(p, "off") /\ UNCHANGED <<fileVars, outcomeVars, envVars>>
    BY <1>3 DEF ReplayQuit, RecoverQuitStuck
  <2> QED
    BY <1>0, <2>1, ExitStep DEF outcomeVars
<1>4. CASE ReplayPartial(p)
  <2>1. AskRecovery(p, EOF) /\ UNCHANGED <<fileVars, outcomeVars, envVars>>
    BY <1>4 DEF ReplayPartial
  <2> QED
    BY <1>0, <2>1, RecoveryOffset, AskRecoveryStep DEF envVars, outcomeVars
<1>5. CASE Desync(p)
  <2>1. UNCHANGED <<fileVars, outcomeVars, envVars>>
    BY <1>5 DEF Desync
  <2>2. \/ Exit(p, "restart")
        \/ AskRecovery(p, EOF)
        \/ AskRecovery(p, StartOfTurn(p))
    BY <1>5 DEF Desync
  <2> QED
    BY <1>0, <2>1, <2>2, ExitStep, RecoveryOffset, AskRecoveryStep DEF envVars, outcomeVars
<1>6. CASE ReplaySaveLine(p)
  BY <1>6, ReplaySaveLineStep
<1>7. CASE SaveLineTimeout(p)
  BY <1>7, NoSaveLineStep DEF SaveLineTimeout
<1> QED
  BY <1>1, <1>2, <1>3, <1>4, <1>5, <1>6, <1>7 DEF ReadLine

-----------------------------------------------------------------------------
(* The user, game over, recovery and killed processes. *)

LEMMA LogQuitStep ==
  ASSUME Coherent, NEW p \in Procs, InGame(p), pc[p] \notin {"over", "ended"},
         LogQuit(p)
  PROVE  Coherent'
<1>1. CASE UpdateRefused(p)
  BY <1>1, RefusedStep
<1>2. CASE /\ MayUpdate(p)
           /\ AppendLine(QuitLine)
           /\ view' = [view EXCEPT ![p].eogs = EOF + 1]
           /\ Goto(p, "over")
           /\ UNCHANGED <<hint, outcomeVars, envVars>>
  <2> DEFINE l == QuitLine
             f == EOF + 1
             w == [view[p] EXCEPT !.eogs = f]
  <2>1. Continues(p, l) /\ l.kind = "Q" /\ l.after = After(EOF)
    BY LineTypes DEF Continues, QuitLine, IsSave, Coherent
  <2>2. /\ TypeOK /\ view[p] \in View /\ EOF \in Nat \ {0}
        /\ view[p].engine = After(EOF) /\ view[p].eogs = EOF
        /\ SaveKnown(p) /\ PlaceKnown(p) /\ view[p].bsl \in Nat
        /\ view[p].sbl \in Nat
    BY <1>2, WriterKnows DEF Coherent, TypeOK, View
  <2> HIDE DEF l
  <2>3. AppendLine(l)
    BY <1>2 DEF l
  <2>4. /\ lines' \in Seq(Line)
        /\ FileSound' /\ QuitIsLast' /\ DoneEndsWithQuit'
        /\ rcount' = rcount /\ Grown
        /\ EOF' = EOF + 1 /\ lines'[EOF + 1] = l
    BY <1>2, <2>1, <2>3, AppendSound
  <2>5. f \in Nat
    BY <2>2
  <2>6. view' = [view EXCEPT ![p] = w]
    BY <1>2
  <2> HIDE DEF f
  <2>7. /\ w \in View /\ w.eogs = f /\ w.engine = view[p].engine
        /\ w.bin = view[p].bin /\ w.bsl = view[p].bsl /\ w.cmd = view[p].cmd
        /\ w.sbl = view[p].sbl
        /\ w.expected = view[p].expected
    BY <2>2, <2>5 DEF View
  <2> HIDE DEF w
  <2>8. "over" \in Place
    BY DEF Place
  <2>9. /\ pc' \in [Procs -> Place] /\ view' \in [Procs -> View]
        /\ OthersKeep(p) /\ pc'[p] = "over" /\ view'[p] = w
    BY <1>2, <2>2, <2>6, <2>7, <2>8, MoveType
  <2>10. TypeOK'
    BY <1>2, <2>2, <2>4, <2>9 DEF TypeOK, AppendLine, envVars, outcomeVars
  <2> PICK n \in Nat : n = EOF
    BY <2>2
  <2>11. /\ \A k \in Int : 0 <= k /\ k < EOF => LineAt(k)' = LineAt(k)
         /\ EOF' \in Nat
    BY <2>2, <2>4, <2>10, GrownKeeps
  <2>12. SaveKnown(p)'
    BY <2>2, <2>4, <2>7, <2>9, <2>11 DEF SaveKnown, IsSave
  <2>13. PlaceKnown(p)'
    <3>1. After(n + 1)' = l.after
      BY <2>2, <2>4 DEF After, EOF
    <3>2. view'[p].eogs = n + 1 /\ n + 1 \in 1..EOF'
      BY <2>2, <2>4, <2>7, <2>9 DEF f
    <3>3. view'[p].engine = After(n + 1)'
      BY <2>1, <2>2, <2>7, <2>9, <3>1
    <3>4. view'[p].bsl = view[p].bsl /\ view[p].bsl < n
      BY <2>2, <2>7, <2>9 DEF PlaceKnown
    <3>5. \A k \in (view[p].bsl + 1)..n : ~IsSave(LineAt(k))'
      <4> SUFFICES ASSUME NEW k \in (view[p].bsl + 1)..n
                   PROVE  ~IsSave(LineAt(k))'
        OBVIOUS
      <4>1. CASE k = n
        BY <2>1, <2>4, <4>1 DEF LineAt, IsSave
      <4>2. CASE k # n
        <5>1. /\ k \in (view[p].bsl + 1)..(view[p].eogs - 1)
              /\ k \in Int /\ 0 <= k /\ k < EOF
          BY <2>2, <4>2
        <5>2. ~IsSave(LineAt(k)) /\ LineAt(k)' = LineAt(k)
          BY <2>2, <2>11, <5>1 DEF PlaceKnown
        <5> QED
          BY <5>2 DEF IsSave
      <4> QED
        BY <4>1, <4>2
    <3>6. LineAt(n)'.kind = "Q" /\ (n + 1) - 1 = n
      BY <2>1, <2>4 DEF LineAt
    <3> QED
      <4>1. view'[p].eogs - 1 = n
        BY <3>2, <3>6
      <4>2. \A k \in (view'[p].bsl + 1)..(view'[p].eogs - 1) :
              ~IsSave(LineAt(k))'
        BY <3>4, <3>5, <4>1
      <4>3. LineAt(view[p].eogs - 1)'.kind = "Q"
        BY <3>6, <4>1
      <4>4. view'[p].engine = After(view[p].eogs)'
        BY <3>2, <3>3
      <4>5. view'[p].bsl < view'[p].eogs
        BY <2>2, <3>2, <3>4
      <4> QED
        BY <2>9, <3>2, <4>2, <4>3, <4>4, <4>5 DEF PlaceKnown
  <2>14. ControlSound(p)'
    BY <2>4, <2>7, <2>9 DEF ControlSound, Coherent
  <2>15. Sound(p)'
    BY <2>9, <2>12, <2>13, <2>14 DEF Sound, ViewSound
  <2> QED
    BY <2>4, <2>9, <2>10, <2>15, StepSound
<1> QED
  BY <1>1, <1>2 DEF LogQuit

LEMMA UserStep ==
  ASSUME Coherent, NEW p \in Procs, User(p)
  PROVE  Coherent'
<1>1. CASE \E v \in Values : Record(p, v)
  BY <1>1, RecordStep
<1>2. CASE ExitSave(p)
  <2>1. CASE UpdateRefused(p)
    BY <2>1, RefusedStep
  <2>2. CASE Exit(p, "off") /\ UNCHANGED <<fileVars, outcomeVars, envVars>>
    BY <2>2, ExitStep DEF Coherent, TypeOK, outcomeVars
  <2> QED
    BY <1>2, <2>1, <2>2 DEF ExitSave
<1>3. CASE Quit(p)
  <2>1. InGame(p) /\ pc[p] \notin {"over", "ended"} /\ LogQuit(p)
    BY <1>3 DEF Quit, Asking, InGame
  <2> QED
    BY <2>1, LogQuitStep
<1> QED
  BY <1>1, <1>2, <1>3 DEF User

LEMMA LogGameOverStep ==
  ASSUME Coherent, NEW p \in Procs, LogGameOver(p)
  PROVE  Coherent'
<1>1. CASE UpdateRefused(p)
  BY <1>1, RefusedStep
<1>2. CASE /\ MayUpdate(p)
           /\ status' = "done"
           /\ Goto(p, "ended")
           /\ UNCHANGED <<lines, partial, rcount, hint, outcomeVars, view, envVars>>
  <2>1. pc[p] = "over" /\ InGame(p)
    BY DEF LogGameOver, InGame
  <2>2. /\ TypeOK /\ view[p].eogs = EOF /\ SaveKnown(p) /\ PlaceKnown(p)
        /\ ~partial /\ EOF \in Nat \ {0}
    BY <1>2, <2>1, WriterKnows DEF Coherent
  <2>3. lines[EOF].kind = "Q"
    BY <2>1, <2>2 DEF PlaceKnown, LineAt
  <2>4. /\ pc' \in [Procs -> Place] /\ OthersKeep(p) /\ pc'[p] = "ended"
        /\ view'[p] = view[p]
    BY <1>2, <2>2 DEF TypeOK, Goto, Place, OthersKeep
  <2>5. TypeOK'
    BY <1>2, <2>2, <2>4 DEF TypeOK, Status, envVars, outcomeVars
  <2>s. EOF' = EOF
    BY <1>2 DEF EOF
  <2>f. FileSound'
    BY <1>2, <2>s DEF Coherent, FileSound, AfterFollows, SavesHold, IsSave
  <2>6. FileSound' /\ QuitIsLast' /\ Grown /\ EOF' = EOF
    BY <1>2, <2>2, <2>s, <2>f DEF Coherent, QuitIsLast, Grown
  <2>7. DoneEndsWithQuit'
    BY <1>2, <2>2, <2>3, <2>6 DEF DoneEndsWithQuit
  <2>8. SaveKnown(p)'
    BY <1>2, <2>2, <2>4, <2>6 DEF SaveKnown, LineAt, IsSave
  <2>9. PlaceKnown(p)'
    BY <1>2, <2>1, <2>2, <2>4, <2>6 DEF PlaceKnown, LineAt, IsSave, After
  <2>10. ControlSound(p)'
    BY <1>2, <2>4 DEF ControlSound, Coherent
  <2>11. Sound(p)'
    BY <2>4, <2>8, <2>9, <2>10 DEF Sound, ViewSound
  <2> QED
    BY <1>2, <2>4, <2>5, <2>6, <2>7, <2>11, StepSound
<1> QED
  BY <1>1, <1>2 DEF LogGameOver

LEMMA GameOverStep ==
  ASSUME Coherent, NEW p \in Procs, GameOver(p)
  PROVE  Coherent'
<1>1. CASE Die(p)
  <2>1. CASE view[p].mode = "watch"
    BY <1>1, <2>1, ExitStep DEF Die, Coherent, TypeOK, outcomeVars
  <2>2. CASE view[p].mode # "watch"
    BY <1>1, <2>2, LogQuitStep DEF Die, InGame
  <2> QED
    BY <2>1, <2>2
<1>2. CASE LogGameOver(p)
  BY <1>2, LogGameOverStep
<1>3. CASE FinishGame(p)
  BY <1>3, ExitStep DEF FinishGame, Coherent, TypeOK
<1> QED
  BY <1>1, <1>2, <1>3 DEF GameOver

LEMMA PanicStep ==
  ASSUME Coherent, NEW p \in Procs, Panic(p)
  PROVE  Coherent'
<1>1. /\ UNCHANGED <<fileVars, outcomeVars, crashes>>
      /\ crashes' \in Nat /\ panics' \in Nat
  BY DEF Panic, Coherent, TypeOK
<1>2. AskRecovery(p, EOF) \/ AskRecovery(p, StartOfTurn(p))
  BY DEF Panic
<1> QED
  BY <1>1, <1>2, RecoveryOffset, AskRecoveryStep

LEMMA PanicInDiffStep ==
  ASSUME Coherent, NEW p \in Procs, PanicInDiff(p)
  PROVE  Coherent'
<1>0. PICK l \in {SpoiltLine(view[p].bin), DiffLine(view[p].engine, view[p].bin)} :
        AppendLine(l)
  BY DEF PanicInDiff, DiffFails
<1> DEFINE r == view[p].bsl + 1
           w == [view[p] EXCEPT !.roff = r]
<1>1. /\ InGame(p) /\ pc[p] \notin {"over", "ended"} /\ MayUpdate(p)
      /\ hint' = hint /\ panics' = panics + 1
      /\ UNCHANGED outcomeVars /\ crashes' = crashes
      /\ Goto(p, "recover") /\ view' = [view EXCEPT ![p].roff = r]
      /\ "recover" \in Place
  BY DEF PanicInDiff, DiffFails, AskRecovery, InGame, Place
<1>2. /\ TypeOK /\ view[p] \in View /\ view[p].engine = After(EOF)
      /\ view[p].engine \in State /\ view[p].bin \in State
      /\ view[p].bsl \in Nat /\ EOF \in Nat /\ SaveKnown(p)
  BY <1>1, WriterKnows DEF Coherent, TypeOK, View
<1>3. r \in Nat /\ r \in 1..EOF
  BY <1>2 DEF SaveKnown
<1>4. Continues(p, l)
  BY <1>0, <1>2, LineTypes DEF Continues, SpoiltLine, DiffLine, IsSave
<1>5. view' = [view EXCEPT ![p] = w]
  BY <1>1
<1> HIDE DEF r
<1>6. /\ lines' \in Seq(Line)
      /\ FileSound' /\ QuitIsLast' /\ DoneEndsWithQuit'
      /\ rcount' = rcount /\ Grown /\ EOF' = EOF + 1
  BY <1>0, <1>1, <1>4, AppendSound
<1>7. w \in View /\ w.roff = r /\ w.expected = view[p].expected
  BY <1>2, <1>3 DEF View
<1> HIDE DEF w
<1>8. /\ pc' \in [Procs -> Place] /\ view' \in [Procs -> View]
      /\ OthersKeep(p) /\ pc'[p] = "recover" /\ view'[p] = w
  BY <1>1, <1>2, <1>5, <1>7, MoveType
<1>9. TypeOK'
  BY <1>0, <1>1, <1>2, <1>6, <1>8 DEF TypeOK, AppendLine, outcomeVars
<1>10. view'[p].roff \in 1..EOF'
  BY <1>2, <1>3, <1>6, <1>7, <1>8
<1>11. Sound(p)'
  BY <1>6, <1>7, <1>8, <1>10
  DEF Sound, ControlSound, ViewSound, InGame, Coherent
<1> QED
  BY <1>6, <1>8, <1>9, <1>11, StepSound

\* A recovery: every other view of the file becomes stale.
LEMMA TruncateStep ==
  ASSUME Coherent, NEW p \in Procs, ~CountStale(p), pc[p] \in {"recover", "unquit"},
         Truncate(p), pc' \in [Procs -> Place], view' \in [Procs -> View],
         OthersKeep(p), Sound(p)', UNCHANGED <<outcomeVars, envVars>>
  PROVE  Coherent'
<1>1. /\ lines' \in Seq(Line)
      /\ FileSound' /\ QuitIsLast' /\ DoneEndsWithQuit'
  BY TruncateSound
<1>2. TypeOK'
  <2>1. rcount' \in Nat /\ hint' \in Nat
    BY DEF Coherent, TypeOK, Truncate
  <2>2. partial' \in BOOLEAN /\ status' \in Status
    BY DEF Truncate, Status
  <2>3. finished' \in Nat /\ declined' \in BOOLEAN /\ crashes' \in Nat /\ panics' \in Nat
    BY DEF Coherent, TypeOK, envVars, outcomeVars
  <2> QED
    BY <1>1, <2>1, <2>2, <2>3 DEF TypeOK
<1>3. rcount' = rcount + 1
  BY DEF Truncate
<1> QED
  BY <1>1, <1>2, <1>3, StepSound

LEMMA RecoverStep ==
  ASSUME Coherent, NEW p \in Procs, Recover(p)
  PROVE  Coherent'
<1>1. CASE CountStale(p) /\ declined' = TRUE /\ UNCHANGED fileVars
  BY <1>1, ExitStep DEF Recover, Coherent, TypeOK
<1>2. CASE ~CountStale(p) /\ Truncate(p) /\ UNCHANGED declined
  <2>1. Exit(p, "restart") /\ UNCHANGED <<outcomeVars, envVars>>
        /\ pc[p] \in {"recover", "unquit"} /\ TypeOK
    BY <1>2 DEF Recover, Coherent, outcomeVars
  <2>2. pc' \in [Procs -> Place] /\ view' \in [Procs -> View]
    BY <2>1, ExitType
  <2>3. pc'[p] = "restart" /\ view'[p] = NoView /\ OthersKeep(p)
    BY <2>1 DEF Exit, Goto, OthersKeep, TypeOK
  <2>4. rcount' \in Nat /\ view'[p].expected = 0
    BY <1>2, <2>1, <2>3 DEF Truncate, TypeOK, NoView
  <2>5. Sound(p)'
    BY <2>3, <2>4 DEF Sound, ControlSound, ViewSound, InGame
  <2> QED
    BY <1>2, <2>1, <2>2, <2>3, <2>5, TruncateStep
<1> QED
  BY <1>1, <1>2 DEF Recover

LEMMA UndoQuitStep ==
  ASSUME Coherent, NEW p \in Procs, UndoQuit(p)
  PROVE  Coherent'
<1>1. CASE CountStale(p) /\ Exit(p, "restart") /\ UNCHANGED fileVars
  BY <1>1, ExitStep DEF UndoQuit, Coherent, TypeOK, outcomeVars
<1>2. CASE /\ ~CountStale(p)
           /\ Truncate(p)
           /\ view' = [view EXCEPT ![p].expected = @ + 1]
           /\ Goto(p, "sync")
  <2> DEFINE e == view[p].expected + 1
             w == [view[p] EXCEPT !.expected = e]
  <2>1. /\ pc[p] \in {"recover", "unquit"} /\ UNCHANGED <<outcomeVars, envVars>>
        /\ TypeOK /\ view[p] \in View
    BY DEF UndoQuit, Coherent, TypeOK
  <2>2. e \in Nat /\ e <= rcount'
    BY <1>2, <2>1 DEF View, CountStale, Truncate, TypeOK
  <2>3. view' = [view EXCEPT ![p] = w]
    BY <1>2
  <2> HIDE DEF e
  <2>4. w \in View /\ w.expected = e
    BY <2>1, <2>2 DEF View
  <2> HIDE DEF w
  <2>5. "sync" \in Place
    BY DEF Place
  <2>6. /\ pc' \in [Procs -> Place] /\ view' \in [Procs -> View]
        /\ OthersKeep(p) /\ pc'[p] = "sync" /\ view'[p] = w
    BY <1>2, <2>1, <2>3, <2>4, <2>5, MoveType
  <2>7. Sound(p)'
    BY <2>2, <2>4, <2>6 DEF Sound, ControlSound, ViewSound, InGame
  <2> QED
    BY <1>2, <2>1, <2>6, <2>7, TruncateStep
<1> QED
  BY <1>1, <1>2 DEF UndoQuit

LEMMA RecoveryStep ==
  ASSUME Coherent, NEW p \in Procs, Recovery(p)
  PROVE  Coherent'
<1>1. CASE ViewerLostTrack(p)
  BY <1>1, ExitStep DEF ViewerLostTrack, Coherent, TypeOK, outcomeVars
<1>2. CASE RecoveryRefused(p)
  BY <1>2, ExitStep DEF RecoveryRefused, Coherent, TypeOK
<1>3. CASE Recover(p)
  BY <1>3, RecoverStep
<1> QED
  BY <1>1, <1>2, <1>3 DEF Recovery

LEMMA KillStep ==
  ASSUME Coherent, NEW p \in Procs, Kill(p)
  PROVE  Coherent'
<1>1. /\ Exit(p, "off") /\ crashes' = crashes + 1 /\ finished' = finished
      /\ declined' \in BOOLEAN
      /\ panics' = panics /\ TypeOK
  BY DEF Kill, Crash, CrashInLine, CrashBeforeHint, CrashInRecovery, MayCrash,
         Coherent
<1>2. pc' \in [Procs -> Place] /\ view' \in [Procs -> View]
  BY <1>1, ExitType
<1>3. crashes' \in Nat /\ panics' \in Nat /\ finished' \in Nat /\ declined' \in BOOLEAN
  BY <1>1 DEF TypeOK
<1>4. CASE CrashBeforeHint(p)
  <2> DEFINE l == FullLine(view[p].engine)
  <2>1. /\ InGame(p) /\ pc[p] \notin {"over", "ended"} /\ MayUpdate(p)
        /\ AppendLine(l) /\ hint' = hint
    BY <1>4 DEF CrashBeforeHint, InGame
  <2>2. view[p].engine = After(EOF) /\ view[p].engine \in State
    BY <1>1, <2>1, WriterKnows DEF TypeOK, View
  <2>3. Continues(p, l)
    BY <2>2, LineTypes DEF Continues, FullLine, IsSave, Coherent
  <2> HIDE DEF l
  <2>4. /\ lines' \in Seq(Line)
        /\ FileSound' /\ QuitIsLast' /\ DoneEndsWithQuit'
        /\ rcount' = rcount /\ Grown
    BY <2>1, <2>3, AppendSound
  <2>5. TypeOK'
    BY <1>1, <1>2, <1>3, <2>1, <2>4 DEF TypeOK, AppendLine
  <2>6. OthersKeep(p) /\ Sound(p)'
    BY <1>1, <2>5, ExitSound
  <2> QED
    BY <2>4, <2>5, <2>6, StepSound
<1>5. CASE Crash(p) \/ CrashInLine(p) \/ CrashInRecovery(p)
  <2>1. /\ lines' = lines /\ hint' = hint
        /\ partial' \in {partial, TRUE}
        /\ status' \in {status, "save"}
        /\ rcount' \in {rcount, rcount + 1}
        /\ status' = "done" => status = "done" /\ partial' = partial
    <3>1. CASE Crash(p)
      BY <3>1 DEF Crash, fileVars
    <3>2. CASE CrashInLine(p)
      BY <3>2 DEF CrashInLine, MayUpdate
    <3>3. CASE CrashInRecovery(p)
      BY <3>3 DEF CrashInRecovery
    <3> QED
      BY <1>5, <3>1, <3>2, <3>3
  <2>2. TypeOK'
    <3>1. lines' \in Seq(Line) /\ hint' \in Nat /\ rcount' \in Nat
      BY <1>1, <2>1 DEF TypeOK
    <3>2. partial' \in BOOLEAN /\ status' \in Status
      BY <1>1, <2>1 DEF TypeOK, Status
    <3> QED
      BY <1>2, <1>3, <3>1, <3>2 DEF TypeOK
  <2>3. OthersKeep(p) /\ Sound(p)'
    BY <1>1, <2>2, ExitSound
  <2> QED
    BY <2>1, <2>2, <2>3, KeepStep
<1> QED
  BY <1>4, <1>5 DEF Kill

LEMMA LoadStep ==
  ASSUME Coherent, NEW p \in Procs, Load(p)
  PROVE  Coherent'
<1>1. CASE PlayGameOver(p)
  BY <1>1, ExitStep DEF PlayGameOver, Coherent, TypeOK, outcomeVars
<1>2. CASE DiffError(p)
  BY <1>2, ExitStep DEF DiffError, Coherent, TypeOK, outcomeVars
<1> QED
  BY <1>1, <1>2, PlayGameStep, UndoQuitReadStep, UndoQuitStep, SyncHeaderStep,
     SyncBackupStep, SyncForwardStep, SyncEndStep
  DEF Load

-----------------------------------------------------------------------------
(* The theorems. *)

LEMMA InitCoherent == Init => Coherent
<1> SUFFICES ASSUME Init PROVE Coherent
  OBVIOUS
<1> DEFINE l == [kind |-> "full", val |-> NoCommand, snap |-> <<>>,
                 base |-> <<>>, after |-> <<>>]
<1>1. l \in Line
  BY DEF Line, State
<1>2. lines = <<l>>
  BY DEF Init
<1>3. l.kind = "full" /\ l.snap = l.after
  OBVIOUS
<1> HIDE DEF l
<1>4. lines \in Seq(Line) /\ EOF = 1 /\ lines[1] = l
  BY <1>1, <1>2 DEF EOF
<1>5. TypeOK
  BY <1>4, NoViewType DEF Init, TypeOK, Status, Place
<1>6. FileSound
  <2>1. AfterFollows
    BY <1>4 DEF AfterFollows
  <2>2. SavesHold
    BY <1>3, <1>4 DEF SavesHold, IsSave
  <2> QED
    BY <1>3, <1>4, <2>1, <2>2 DEF FileSound
<1>7. QuitIsLast /\ DoneEndsWithQuit
  BY <1>4 DEF QuitIsLast, DoneEndsWithQuit, Init
<1>8. ASSUME NEW p \in Procs PROVE ControlSound(p) /\ ViewSound(p)
  <2>1. pc[p] = "off" /\ view[p].expected = 0 /\ rcount = 1
    BY DEF Init, NoView
  <2> QED
    BY <2>1 DEF ControlSound, ViewSound, InGame
<1> QED
  BY <1>5, <1>6, <1>7, <1>8 DEF Coherent

\* Every step keeps what the processes know of the file.
LEMMA NextCoherent == Coherent /\ [Next]_vars => Coherent'
<1> SUFFICES ASSUME Coherent, [Next]_vars PROVE Coherent'
  OBVIOUS
<1>1. CASE UNCHANGED vars
  <2>1. UNCHANGED <<lines, partial, rcount, status, hint, outcomeVars, pc, view,
                    crashes, panics>>
    BY <1>1 DEF vars, fileVars, envVars, outcomeVars
  <2>2. TypeOK' /\ EOF' = EOF
    BY <2>1 DEF Coherent, TypeOK, EOF, outcomeVars
  <2>3. FileSound' /\ QuitIsLast' /\ DoneEndsWithQuit'
    BY <2>1, <2>2
    DEF Coherent, FileSound, AfterFollows, SavesHold, IsSave, QuitIsLast,
        DoneEndsWithQuit
  <2>4. ASSUME NEW p \in Procs PROVE ControlSound(p)' /\ ViewSound(p)'
    <3>1. SaveKnown(p)' = SaveKnown(p) /\ PlaceKnown(p)' = PlaceKnown(p)
      BY <2>1, <2>2 DEF SaveKnown, PlaceKnown, IsSave, LineAt, After
    <3> QED
      BY <2>1, <2>2, <3>1 DEF Coherent, ControlSound, ViewSound, CountStale, InGame
  <2> QED
    BY <2>2, <2>3, <2>4 DEF Coherent
<1>2. ASSUME NEW p \in Procs, Load(p) PROVE Coherent'
  BY <1>2, LoadStep
<1>3. ASSUME NEW p \in Procs, ReadLine(p) PROVE Coherent'
  BY <1>3, ReadLineStep
<1>4. ASSUME NEW p \in Procs, User(p) PROVE Coherent'
  BY <1>4, UserStep
<1>5. ASSUME NEW p \in Procs, EndTurn(p) PROVE Coherent'
  BY <1>5, NeutralTurnstateStep DEF EndTurn
<1>6. ASSUME NEW p \in Procs, GameOver(p) PROVE Coherent'
  BY <1>6, GameOverStep
<1>7. ASSUME NEW p \in Procs, Panic(p) \/ PanicInDiff(p) PROVE Coherent'
  BY <1>7, PanicStep, PanicInDiffStep
<1>8. ASSUME NEW p \in Procs, Recovery(p) PROVE Coherent'
  BY <1>8, RecoveryStep
<1>9. ASSUME NEW p \in Procs, Kill(p) PROVE Coherent'
  BY <1>9, KillStep
<1> QED
  BY <1>1, <1>2, <1>3, <1>4, <1>5, <1>6, <1>7, <1>8, <1>9 DEF Next

-----------------------------------------------------------------------------
(* What is spoilt does not stay unnoticed. *)

Steps(p) ==
  \/ Load(p) \/ ReadLine(p) \/ User(p) \/ EndTurn(p) \/ GameOver(p)
  \/ Panic(p) \/ PanicInDiff(p) \/ Recovery(p) \/ Kill(p)

\* Only a diff that fails adds a spoilt line.
Appends(p) == \E l : AppendLine(l) /\ (l.kind = "spoilt" => PanicInDiff(p))
Cuts(p) ==
  pc[p] \in {"recover", "unquit"} /\ ~CountStale(p) /\ Truncate(p)
Writes(p) == lines' = lines \/ Appends(p) \/ Cuts(p)

\* A step only moves the process that takes it.
MovesOnly(p) ==
  /\ pc' = pc \/ \E place : Goto(p, place)
  /\ view' = view \/ \E w : view' = [view EXCEPT ![p] = w]

LEMMA StepWrites ==
  ASSUME NEW p \in Procs, Steps(p)
  PROVE  Writes(p) /\ (declined => declined') /\ MovesOnly(p)
<1> USE DEF fileVars, outcomeVars
<1>1. ASSUME NEW l, l.kind # "spoilt", AppendLine(l) PROVE Appends(p)
  BY <1>1 DEF Appends
<1>2. ASSUME NEW place, Exit(p, place) PROVE MovesOnly(p)
  BY <1>2 DEF Exit, MovesOnly
<1>3. ASSUME UpdateRefused(p)
      PROVE  Writes(p) /\ (declined => declined') /\ MovesOnly(p)
  BY <1>2, <1>3 DEF UpdateRefused, Writes
<1>4. ASSUME NEW r, AskRecovery(p, r) PROVE MovesOnly(p)
  BY <1>4 DEF AskRecovery, MovesOnly
<1>5. ASSUME LogQuit(p)
      PROVE  Writes(p) /\ (declined => declined') /\ MovesOnly(p)
  <2>1. CASE /\ AppendLine(QuitLine)
             /\ view' = [view EXCEPT ![p].eogs = EOF + 1]
             /\ Goto(p, "over")
             /\ UNCHANGED <<hint, outcomeVars, envVars>>
    <3>1. Appends(p)
      BY <1>1, <2>1 DEF QuitLine
    <3>2. MovesOnly(p)
      BY <2>1 DEF MovesOnly
    <3> QED
      BY <2>1, <3>1, <3>2 DEF Writes
  <2> QED
    BY <1>3, <1>5, <2>1 DEF LogQuit
<1>6. CASE Load(p)
  <2>1. CASE UndoQuit(p)
    <3>1. Writes(p) /\ (declined => declined')
      BY <2>1 DEF UndoQuit, Writes, Cuts
    <3>2. MovesOnly(p)
      BY <1>2, <2>1 DEF UndoQuit, MovesOnly
    <3> QED
      BY <3>1, <3>2
  <2>2. CASE PlayGame(p) \/ PlayGameOver(p) \/ UndoQuitRead(p) \/ SyncHeader(p)
    <3>1. Writes(p) /\ (declined => declined')
      BY <2>2 DEF PlayGame, PlayGameOver, UndoQuitRead, SyncHeader, Writes
    <3>2. MovesOnly(p)
      BY <1>2, <2>2 DEF PlayGame, PlayGameOver, UndoQuitRead, SyncHeader, MovesOnly
    <3> QED
      BY <3>1, <3>2
  <2>3. CASE SyncBackup(p) \/ SyncForward(p) \/ SyncEnd(p) \/ DiffError(p)
    <3>1. Writes(p) /\ (declined => declined')
      BY <2>3 DEF SyncBackup, SyncForward, SyncEnd, DiffError, Writes
    <3>2. MovesOnly(p)
      BY <1>2, <2>3 DEF SyncBackup, SyncForward, SyncEnd, DiffError, MovesOnly
    <3> QED
      BY <3>1, <3>2
  <2> QED
    BY <1>6, <2>1, <2>2, <2>3 DEF Load
<1>7. CASE ReadLine(p)
  <2>1. Writes(p) /\ (declined => declined')
    BY <1>7 DEF Writes, ReadLine, Ask, ServerCancel, Replay, ReplayQuit, ReplayPartial, Desync,
                RecoverQuitStuck, ReplaySaveLine, SaveLineTimeout
  <2>2. MovesOnly(p)
    BY <1>2, <1>4, <1>7
    DEF MovesOnly, ReadLine, Ask, ServerCancel, Replay, ReplayQuit, ReplayPartial, Desync,
        RecoverQuitStuck, ReplaySaveLine, SaveLineTimeout, Consume
  <2> QED
    BY <2>1, <2>2
<1>8. CASE User(p)
  <2>1. ASSUME NEW v, Record(p, v)
        PROVE  Writes(p) /\ (declined => declined') /\ MovesOnly(p)
    <3>1. CASE AppendLine(InputLine(v)) /\ Consume(p, v) /\ UNCHANGED outcomeVars
      <4>1. Appends(p)
        BY <1>1, <3>1 DEF InputLine
      <4>2. MovesOnly(p)
        BY <3>1 DEF Consume, MovesOnly
      <4> QED
        BY <3>1, <4>1, <4>2 DEF Writes
    <3> QED
      BY <1>3, <2>1, <3>1 DEF Record
  <2>2. CASE ExitSave(p)
    BY <1>2, <1>3, <2>2 DEF ExitSave, Writes
  <2> QED
    BY <1>5, <1>8, <2>1, <2>2 DEF User, Quit
<1>9. CASE EndTurn(p)
  <2>1. ASSUME NEW l, l.kind # "spoilt", AppendLine(l), Saved(p, l), Goto(p, "ready")
        PROVE  Writes(p) /\ MovesOnly(p)
    BY <1>1, <2>1 DEF Saved, Writes, MovesOnly
  <2>2. CASE (WriteBackup(p) \/ WriteDiff(p)) /\ UNCHANGED outcomeVars
    <3>1. FullLine(view[p].engine).kind # "spoilt"
          /\ DiffLine(view[p].engine, view[p].bin).kind # "spoilt"
      BY DEF FullLine, DiffLine
    <3> QED
      BY <2>1, <2>2, <3>1 DEF WriteBackup, WriteDiff
  <2>3. CASE Goto(p, "saveline") /\ UNCHANGED <<fileVars, outcomeVars, view>>
    BY <2>3 DEF Writes, MovesOnly
  <2> QED
    BY <1>3, <1>9, <2>2, <2>3 DEF EndTurn, NeutralTurnstate
<1>10. CASE GameOver(p)
  <2>1. CASE Die(p)
    BY <1>2, <1>5, <2>1 DEF Die, Writes
  <2>2. CASE LogGameOver(p)
    <3>1. CASE Goto(p, "ended") /\ UNCHANGED <<lines, outcomeVars, view>>
      BY <3>1 DEF Writes, MovesOnly
    <3> QED
      BY <1>3, <2>2, <3>1 DEF LogGameOver
  <2>3. CASE FinishGame(p)
    BY <1>2, <2>3 DEF FinishGame, Writes
  <2> QED
    BY <1>10, <2>1, <2>2, <2>3 DEF GameOver
<1>11. CASE Panic(p)
  BY <1>4, <1>11 DEF Panic, Writes
<1>12. CASE PanicInDiff(p)
  <2>1. (\E l : AppendLine(l)) /\ UNCHANGED outcomeVars /\ (\E r : AskRecovery(p, r))
    BY <1>12 DEF PanicInDiff, DiffFails
  <2> QED
    BY <1>4, <1>12, <2>1 DEF Appends, Writes
<1>13. CASE Recovery(p)
  BY <1>2, <1>13
  DEF Recovery, ViewerLostTrack, RecoveryRefused, Recover, Writes, Cuts
<1>14. CASE Kill(p)
  <2>1. FullLine(view[p].engine).kind # "spoilt"
    BY DEF FullLine
  <2> QED
    BY <1>1, <1>2, <1>14, <2>1
    DEF Kill, Crash, CrashInLine, CrashBeforeHint, CrashInRecovery, MayCrash, Writes
<1> QED
  BY <1>6, <1>7, <1>8, <1>9, <1>10, <1>11, <1>12, <1>13, <1>14 DEF Steps

\* A spoilt line that was not there before is the last one.
LEMMA SpoiltIsOld ==
  ASSUME Coherent, NEW p \in Procs, Writes(p),
         NEW n \in 1..EOF', lines'[n].kind = "spoilt"
  PROVE  \/ n \in 1..EOF /\ lines[n].kind = "spoilt"
         \/ n = EOF + 1 /\ PanicInDiff(p)
<1>1. lines \in Seq(Line) /\ EOF = Len(lines) /\ EOF \in Nat
  BY DEF Coherent, TypeOK, EOF
<1>2. CASE lines' = lines
  BY <1>2 DEF EOF
<1>3. CASE Appends(p)
  <2>1. PICK l : lines' = Append(lines, l) /\ (l.kind = "spoilt" => PanicInDiff(p))
    BY <1>3 DEF Appends, AppendLine
  <2> QED
    BY <1>1, <2>1 DEF EOF
<1>4. CASE Cuts(p)
  <2>1. view[p].roff \in 1..EOF
    BY <1>4 DEF Cuts, Coherent, ViewSound
  <2>2. EOF' = view[p].roff /\ \A k \in 1..view[p].roff : lines'[k] = lines[k]
    BY <1>1, <1>4, <2>1, TruncateLines DEF Cuts, Truncate, EOF
  <2> QED
    BY <1>1, <2>1, <2>2
<1> QED
  BY <1>2, <1>3, <1>4 DEF Writes

\* A player whose menu is open goes away only by cutting the file off, or by
\* declining to.
LEMMA MenuCloses ==
  ASSUME NEW p \in Procs, Steps(p), pc[p] = "recover", view[p].mode = "play"
  PROVE  declined' \/ Cuts(p)
<1>1. Recovery(p) \/ Kill(p)
  BY DEF Steps, Load, PlayGame, PlayGameOver, UndoQuitRead, UndoQuit, SyncHeader,
         SyncBackup, SyncForward, SyncEnd, DiffError, ReadLine, Ask, ServerCancel, Replay,
         ReplayQuit, ReplayPartial, Desync, RecoverQuitStuck, ReplaySaveLine,
         SaveLineTimeout, WantsLine, Asking, User, Record, ExitSave, Quit, EndTurn,
         NeutralTurnstate, GameOver, Die, LogGameOver, FinishGame, Panic, PanicInDiff,
         DiffFails
<1> QED
  BY <1>1 DEF Recovery, ViewerLostTrack, RecoveryRefused, Recover, Kill, Crash,
              CrashInLine, CrashBeforeHint, CrashInRecovery, MayCrash, Cuts

LEMMA WatchedStep ==
  ASSUME Coherent, SpoiltWatched, NEW p \in Procs, Steps(p)
  PROVE  SpoiltWatched'
<1> SUFFICES ASSUME NEW n \in 1..EOF', lines'[n].kind = "spoilt", ~declined'
             PROVE  \E q \in Procs : /\ pc'[q] = "recover"
                                     /\ view'[q].mode = "play" /\ view'[q].roff < n
  BY DEF SpoiltWatched
<1>1. Writes(p) /\ ~declined /\ MovesOnly(p) /\ TypeOK /\ EOF \in Nat
  BY StepWrites DEF Coherent, TypeOK, EOF
<1>2. CASE n \in 1..EOF /\ lines[n].kind = "spoilt"
  <2>1. PICK q \in Procs : pc[q] = "recover" /\ view[q].mode = "play" /\ view[q].roff < n
    BY <1>1, <1>2 DEF SpoiltWatched
  <2>2. CASE q # p
    BY <1>1, <2>1, <2>2 DEF MovesOnly, Goto, TypeOK
  <2>3. CASE q = p
    <3>1. Cuts(p)
      BY <2>1, <2>3, MenuCloses
    <3>2. view[p].roff \in 1..EOF
      BY <3>1 DEF Cuts, Coherent, ViewSound
    <3>3. EOF' = view[p].roff
      BY <1>1, <3>1, <3>2, TruncateLines DEF Cuts, Truncate, EOF, TypeOK
    <3> QED
      BY <1>1, <2>1, <2>3, <3>2, <3>3
  <2> QED
    BY <2>2, <2>3
<1>3. CASE n = EOF + 1 /\ PanicInDiff(p)
  <2>1. /\ InGame(p) /\ MayUpdate(p) /\ view[p].mode = "play"
        /\ Goto(p, "recover") /\ view' = [view EXCEPT ![p].roff = view[p].bsl + 1]
    BY <1>3 DEF PanicInDiff, DiffFails, AskRecovery, InGame
  <2>2. view[p].bsl < EOF /\ view[p] \in View /\ view[p].bsl \in Nat
    BY <1>1, <2>1, WriterKnows DEF SaveKnown, TypeOK, View
  <2>3. pc'[p] = "recover" /\ view'[p] = [view[p] EXCEPT !.roff = view[p].bsl + 1]
    BY <1>1, <2>1 DEF TypeOK, Goto
  <2>4. view'[p].mode = "play" /\ view'[p].roff = view[p].bsl + 1
    BY <2>1, <2>2, <2>3 DEF View
  <2>5. view'[p].roff < n
    BY <1>1, <1>3, <2>2, <2>4
  <2> QED
    BY <2>3, <2>4, <2>5
<1> QED
  BY <1>1, <1>2, <1>3, SpoiltIsOld

LEMMA InitInv == Init => Inv
<1> SUFFICES ASSUME Init PROVE Inv
  OBVIOUS
<1>1. SpoiltWatched
  BY DEF Init, SpoiltWatched, EOF
<1> QED
  BY <1>1, InitCoherent DEF Inv

\* Every step keeps the inductive invariant.
LEMMA NextInv == Inv /\ [Next]_vars => Inv'
<1> SUFFICES ASSUME Inv, [Next]_vars PROVE Inv'
  OBVIOUS
<1>1. Coherent'
  BY NextCoherent DEF Inv
<1>2. ASSUME UNCHANGED vars PROVE SpoiltWatched'
  BY <1>2 DEF vars, fileVars, outcomeVars, Inv, SpoiltWatched, EOF
<1>3. ASSUME Next PROVE SpoiltWatched'
  <2>1. PICK p \in Procs : Steps(p)
    BY <1>3 DEF Next, Steps
  <2> QED
    BY <2>1, WatchedStep DEF Inv
<1>4. SpoiltWatched'
  BY <1>2, <1>3
<1> QED
  BY <1>1, <1>4 DEF Inv

\* The inductive invariant: whatever the number of processes, the commands and
\* the bounds, a process whose recovery count (log.c's expected_recovery_count)
\* is the file's holds locations that mean what they did when it read them; and
\* a diff that failed its verification stays in the file only as long as the
\* menu of who wrote it is open, or because such a menu was left.
THEOREM Invariance == Spec => []Inv
<1>1. Init => Inv
  BY InitInv
<1>2. Inv /\ [Next]_vars => Inv'
  BY NextInv
<1> QED
  BY <1>1, <1>2, PTL DEF Spec

LEMMA Coherence == Spec => []Coherent
<1>1. Inv => Coherent
  BY DEF Inv
<1> QED
  BY <1>1, Invariance, PTL

\* Every variable keeps its type.
THEOREM TypeCorrect == Spec => []TypeOK
<1>1. Coherent => TypeOK
  BY DEF Coherent
<1> QED
  BY <1>1, Coherence, PTL

\* start_updating_logfile is enough: whoever passes its checks continues the
\* game that the whole file denotes.
THEOREM WritersInSync == Spec => []WriterInSync
<1>1. Coherent => WriterInSync
  BY WriterKnows DEF WriterInSync
<1> QED
  BY <1>1, Coherence, PTL

\* A process whose recovery count is the file's has the file's game loaded.
THEOREM FreshViewsSound == Spec => []FreshViewSound
<1>1. Coherent => FreshViewSound
  BY DEF Coherent, ViewSound, SaveKnown, PlaceKnown, FreshViewSound
<1> QED
  BY <1>1, Coherence, PTL

\* Every save line of the file can be rebuilt, and holds the game that the
\* lines before it lead to; but for a diff that failed its verification, which
\* is there only while the menu of who wrote it is open and would cut it off,
\* or after such a menu was left without a recovery.
THEOREM FileSavesSound == Spec => []SavesSound
<1>1. Inv => SavesSound
  <2> SUFFICES ASSUME Inv PROVE SavesSound
    OBVIOUS
  <2>1. SavesHold /\ SpoiltWatched /\ AfterFollows /\ EOF \in Nat /\ EOF = Len(lines)
    BY DEF Inv, Coherent, FileSound, TypeOK, EOF
  <2>2. ASSUME NEW n \in 2..EOF, IsSave(lines[n]), lines[n].kind # "spoilt"
        PROVE  lines[n].after = After(n - 1)
    <3>1. n - 1 \in 1..Len(lines)
      BY <2>1
    <3>2. After(n - 1) = lines[n - 1].after
      BY <3>1 DEF After
    <3> QED
      BY <2>1, <2>2, <3>2 DEF AfterFollows, IsSave
  <2> QED
    BY <2>1, <2>2 DEF SavesSound
<1> QED
  BY <1>1, Invariance, PTL

\* Nothing follows the line that ends a game, and a header that says "done"
\* is only on a file that ends with that line.
THEOREM EndsOnce == Spec => [](QuitIsLast /\ DoneEndsWithQuit)
<1>1. Coherent => QuitIsLast /\ DoneEndsWithQuit
  BY DEF Coherent
<1> QED
  BY <1>1, Coherence, PTL

=============================================================================
