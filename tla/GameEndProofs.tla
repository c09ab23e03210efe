----------------------------- MODULE GameEndProofs -----------------------------
(****************************************************************************)
(* Proofs about GameEnd, for any number of processes, games and deaths of   *)
(* processes: what a process has done is known from its place, and no step  *)
(* of any process takes it back.                                            *)
(****************************************************************************)
EXTENDS GameEnd, SequenceTheorems, FiniteSetTheorems, WellFoundedInduction, TLAPS

\* The places after update_log, after update_xlog and after the row in topten.
Both    == {"record", "read", "insert", "truncate", "write", "unlock", "return",
            "add_entry", "set_done", "rename"}
Logged  == {"xlog"} \cup Both
Added   == {"set_done", "rename"}
Labels  == {"idle", "playing", "log"} \cup Logged

Written == {"none", "failed", "written"}

EndTypes ==
  /\ pc \in [Procs -> Labels]
  /\ game \in [Procs -> Games \cup {0}]
  /\ logfile \in [Games -> Written] /\ xlogfile \in [Games -> Written]
  /\ topten \in [Games -> Written]
  /\ done \in [Games -> BOOLEAN]
  /\ dir \in [Games -> {"save", "completed"}]

HasGame == \A p \in Procs : pc[p] # "idle" => game[p] \in Games

PlacesTell == \A p \in Procs :
  /\ pc[p] \in Logged => logfile[game[p]] # "none"
  /\ pc[p] \in Both   => xlogfile[game[p]] # "none"
  /\ pc[p] \in Added  => topten[game[p]] # "none"

EndInv == EndTypes /\ HasGame /\ PlacesTell /\ UnfinishedHasFile /\ DoneIsRecorded

\* The invariant holds at first: no process has a game, no row is set and every
\* file is in the save directory.
LEMMA InitEnd == Init => EndInv
  BY DEF Init, EndInv, EndTypes, HasGame, PlacesTell, UnfinishedHasFile,
             DoneIsRecorded, Both, Logged, Added, Labels, Written

\* Where a process of a game stands is in the invariant only by its place, so a
\* step that moves one process among the places and changes nothing shared
\* keeps it, if the new place says no more than the old.
LEMMA OnlyMoves ==
  ASSUME EndInv, NEW p \in Procs, NEW next \in Labels,
         Goto(p, next), UNCHANGED <<game, logs, server>>,
         game[p] \in Games,
         next \in Logged => pc[p] \in Logged,
         next \in Both   => pc[p] \in Both,
         next \in Added  => pc[p] \in Added
  PROVE  EndInv'
  BY DEF EndInv, EndTypes, HasGame, PlacesTell, UnfinishedHasFile, DoneIsRecorded,
             Goto, logs, server, Both, Logged, Added

\* A process that leaves is in no game, whatever place it had.
LEMMA LeavingKeeps ==
  ASSUME EndInv, NEW p \in Procs, Leaves(p), UNCHANGED <<logs, server>>
  PROVE  EndInv'
  BY DEF EndInv, EndTypes, HasGame, PlacesTell, UnfinishedHasFile, DoneIsRecorded,
             Leaves, Goto, logs, server, Both, Logged, Added, Labels

\* Opening: only the place of the process and the file's status change.
LEMMA OpenKeeps ==
  ASSUME EndInv, NEW p \in Procs, NEW g \in Games, Open(p, g)
  PROVE  EndInv'
  BY DEF EndInv, EndTypes, HasGame, PlacesTell, UnfinishedHasFile, DoneIsRecorded,
         Open, At, Goto, scores, logs, server, Both, Logged, Added, Labels

\* The lines in the log files come before everything else: each is tried, and what
\* was tried before stays so.
LEMMA LogsKeeps ==
  ASSUME EndInv, NEW p \in Procs, Logs(p)
  PROVE  EndInv'
<1>1. game[p] \in Games
  BY DEF EndInv, HasGame, Logs, At
<1>2. logfile' \in [Games -> Written] /\ logfile'[game[p]] # "none"
  BY <1>1 DEF EndInv, EndTypes, Logs, Attempts, Written
<1>3. \A g \in Games : logfile[g] # "none" => logfile'[g] # "none"
  BY <1>1 DEF EndInv, EndTypes, Logs, Attempts
<1> QED
  BY <1>1, <1>2, <1>3 DEF EndInv, EndTypes, HasGame, PlacesTell, UnfinishedHasFile,
     DoneIsRecorded, Logs, At, Goto, server, Both, Logged, Added, Labels

LEMMA LogsXKeeps ==
  ASSUME EndInv, NEW p \in Procs, LogsX(p)
  PROVE  EndInv'
<1>1. game[p] \in Games /\ logfile[game[p]] # "none"
  BY DEF EndInv, HasGame, PlacesTell, LogsX, At, Both, Logged
<1>2. xlogfile' \in [Games -> Written] /\ xlogfile'[game[p]] # "none"
  BY <1>1 DEF EndInv, EndTypes, LogsX, Attempts, Written
<1>3. \A g \in Games : xlogfile[g] # "none" => xlogfile'[g] # "none"
  BY <1>1 DEF EndInv, EndTypes, LogsX, Attempts
<1> QED
  BY <1>1, <1>2, <1>3 DEF EndInv, EndTypes, HasGame, PlacesTell, UnfinishedHasFile,
     DoneIsRecorded, LogsX, At, Goto, server, Both, Logged, Added, Labels

\* The score list: places between the log files and the return, and nothing that
\* the invariant is about.
LEMMA ScoresKeep ==
  ASSUME EndInv, NEW p \in Procs,
         \/ LocksRecord(p) \/ ReadsRecord(p) \/ InsertsEntry(p)
         \/ TruncatesRecord(p) \/ WritesEntry(p) \/ UnlocksRecord(p)
  PROVE  EndInv'
<1>1. pc[p] \in Both /\ game[p] \in Games
  BY DEF EndInv, HasGame, LocksRecord, ReadsRecord, InsertsEntry, TruncatesRecord,
         WritesEntry, UnlocksRecord, At, Both
<1>2. UNCHANGED <<game, logs, server>>
  BY DEF LocksRecord, ReadsRecord, InsertsEntry, TruncatesRecord, WritesEntry,
         UnlocksRecord, scores, logs, server
<1>3. pc' = pc \/ \E next \in Both \ Added : Goto(p, next)
  BY DEF LocksRecord, ReadsRecord, InsertsEntry, TruncatesRecord, WritesEntry,
         UnlocksRecord, At, Goto, Both, Added
<1>4. CASE pc' = pc
  BY <1>2, <1>4 DEF EndInv, EndTypes, HasGame, PlacesTell, UnfinishedHasFile,
     DoneIsRecorded, logs, server
<1>5. CASE \E next \in Both \ Added : Goto(p, next)
  BY <1>1, <1>2, <1>5, OnlyMoves DEF Labels, Both, Logged, Added
<1> QED
  BY <1>3, <1>4, <1>5

\* The row in topten comes before the mark that the game is done...
LEMMA AddsEntryKeeps ==
  ASSUME EndInv, NEW p \in Procs, AddsEntry(p)
  PROVE  EndInv'
<1>1. game[p] \in Games /\ logfile[game[p]] # "none" /\ xlogfile[game[p]] # "none"
  BY DEF EndInv, HasGame, PlacesTell, AddsEntry, At, Both, Logged
<1>2. topten' \in [Games -> Written] /\ topten'[game[p]] # "none"
  BY <1>1 DEF EndInv, EndTypes, AddsEntry, Attempts, Written
<1>3. \A g \in Games : topten[g] # "none" => topten'[g] # "none"
  BY <1>1 DEF EndInv, EndTypes, AddsEntry, Attempts
<1> QED
  BY <1>1, <1>2, <1>3 DEF EndInv, EndTypes, HasGame, PlacesTell, UnfinishedHasFile,
     DoneIsRecorded, AddsEntry, At, Goto, scores, logs, Both, Logged, Added, Labels

\* ...and the file is moved to where the row, set or not, says that it is.
LEMMA SetsDoneKeeps ==
  ASSUME EndInv, NEW p \in Procs, SetsDone(p)
  PROVE  EndInv'
<1>1. /\ game[p] \in Games /\ logfile[game[p]] # "none" /\ xlogfile[game[p]] # "none"
      /\ topten[game[p]] # "none"
  BY DEF EndInv, HasGame, PlacesTell, SetsDone, At, Both, Logged, Added
<1> QED
  BY <1>1 DEF EndInv, EndTypes, HasGame, PlacesTell, UnfinishedHasFile,
     DoneIsRecorded, SetsDone, At, Goto, scores, logs, Both, Logged, Added, Labels

LEMMA MovesFileKeeps ==
  ASSUME EndInv, NEW p \in Procs, MovesFile(p)
  PROVE  EndInv'
<1>1. game[p] \in Games
  BY DEF EndInv, HasGame, MovesFile
<1> QED
  BY <1>1 DEF EndInv, EndTypes, HasGame, PlacesTell, UnfinishedHasFile,
     DoneIsRecorded, MovesFile, Leaves, Goto, FileFromRow, scores, logs, Both, Logged,
     Added, Labels

\* Every step of every process keeps the invariant.
LEMMA StepKeeps ==
  ASSUME EndInv, [Next]_vars
  PROVE  EndInv'
<1>1. CASE UNCHANGED vars
  BY <1>1 DEF EndInv, EndTypes, HasGame, PlacesTell, UnfinishedHasFile, DoneIsRecorded,
     vars, engine, scores, logs, server
<1>2. ASSUME NEW p \in Procs, Step(p) PROVE EndInv'
  <2>1. CASE \E g \in Games : Open(p, g)
    BY <2>1, OpenKeeps
  <2>2. CASE AlreadyOver(p)
    BY <2>2, LeavingKeeps DEF AlreadyOver, scores, logs
  <2>3. CASE Dies(p)
    BY <2>3, OnlyMoves DEF Dies, At, scores, logs, EndInv, HasGame, Labels, Both, Logged, Added
  <2>4. CASE Logs(p) \/ LogsX(p)
    BY <2>4, LogsKeeps, LogsXKeeps
  <2>5. CASE \/ LocksRecord(p) \/ ReadsRecord(p) \/ InsertsEntry(p)
             \/ TruncatesRecord(p) \/ WritesEntry(p) \/ UnlocksRecord(p)
    BY <2>5, ScoresKeep
  <2>6. CASE TellsClient(p)
    BY <2>6, OnlyMoves DEF TellsClient, At, scores, logs, EndInv, HasGame, Labels, Both, Logged,
       Added
  <2>7. CASE AddsEntry(p)
    BY <2>7, AddsEntryKeeps
  <2>8. CASE SetsDone(p)
    BY <2>8, SetsDoneKeeps
  <2>9. CASE MovesFile(p)
    BY <2>9, MovesFileKeeps
  <2>10. CASE Killed(p)
    BY <2>10, LeavingKeeps DEF Killed
  <2> QED
    BY <1>2, <2>1, <2>2, <2>3, <2>4, <2>5, <2>6, <2>7, <2>8, <2>9, <2>10 DEF Step
<1> QED
  BY <1>1, <1>2 DEF Next

LEMMA SpecEnd == Spec => []EndInv
  BY InitEnd, StepKeeps, PTL DEF Spec

\* A game that the database does not call done can be opened (clientcmd.c:377-395
\* moves the file last), whoever ends it, how often, whoever dies doing it and
\* whichever statement fails.
THEOREM UnfinishedHasFileHolds == Spec => []UnfinishedHasFile
  BY SpecEnd, PTL DEF EndInv

\* No game is called done before its lines in the log files (topten.c:549-550) and
\* its row in topten (db_pgsql.c:758-761) were written, or the writing itself failed.
THEOREM DoneIsRecordedHolds == Spec => []DoneIsRecorded
  BY SpecEnd, PTL DEF EndInv

--------------------------------------------------------------------------------
(****************************************************************************)
(* The score list is worked on by one process at a time.                    *)
(****************************************************************************)

LockTypes == pc \in [Procs -> Labels] /\ record_lock \in Procs \cup {Nobody}

\* Nobody reads, changes or writes the list while another process does.
OneEditor == \A p, q \in Procs : pc[p] \in Working /\ pc[q] \in Working => p = q

LEMMA GuardedOneEditor == Guarded => OneEditor
  BY DEF Guarded, OneEditor

\* A step that leaves the lock alone and brings nobody to work keeps the guard.
LEMMA GuardedStays ==
  ASSUME LockTypes, Guarded, NEW p \in Procs, UNCHANGED record_lock,
         pc' = pc \/ \E next \in Labels : Goto(p, next) /\ (next \in Working => pc[p] \in Working)
  PROVE  LockTypes' /\ Guarded'
  BY DEF LockTypes, Guarded, Goto

LEMMA GuardedKept ==
  ASSUME LockTypes, Guarded, [Next]_vars
  PROVE  LockTypes' /\ Guarded'
<1>1. CASE UNCHANGED vars
  BY <1>1 DEF LockTypes, Guarded, vars, engine, scores, logs
<1>2. ASSUME NEW p \in Procs, Step(p) PROVE LockTypes' /\ Guarded'
  <2>1. CASE LocksRecord(p)
    BY <2>1, ProcsAssumption DEF LockTypes, Guarded, LocksRecord, Goto, Working, Labels, Both, Logged
  <2>2. CASE UnlocksRecord(p) \/ Killed(p)
    BY <2>2 DEF LockTypes, Guarded, UnlocksRecord, Killed, Leaves, At, Goto, Working,
       Labels, Both, Logged
  <2>3. CASE \/ \E g \in Games : Open(p, g)
             \/ AlreadyOver(p) \/ Dies(p) \/ Logs(p) \/ LogsX(p)
    BY <2>3, GuardedStays DEF Open, AlreadyOver, Dies, Logs, LogsX, Leaves, At, scores, logs, Working,
       Labels, Both, Logged
  <2>4. CASE ReadsRecord(p) \/ InsertsEntry(p) \/ TruncatesRecord(p) \/ WritesEntry(p)
    BY <2>4, GuardedStays DEF ReadsRecord, InsertsEntry, TruncatesRecord, WritesEntry,
       At, scores, logs, Working, Labels, Both, Logged
  <2>5. CASE TellsClient(p) \/ AddsEntry(p) \/ SetsDone(p) \/ MovesFile(p)
    BY <2>5, GuardedStays DEF TellsClient, AddsEntry, SetsDone, MovesFile, Leaves, At,
       scores, logs, Working, Labels, Both, Logged
  <2> QED
    BY <1>2, <2>1, <2>2, <2>3, <2>4, <2>5 DEF Step
<1> QED
  BY <1>1, <1>2 DEF Next

\* The lock of the record file (topten.c:539-566) keeps the processes that end
\* their games apart, from reading the list to the end of writing it.
THEOREM OneEditorHolds == Spec => []OneEditor
<1>1. Init => LockTypes /\ Guarded
  BY DEF Init, LockTypes, Guarded, Working, Labels
<1> QED
  BY <1>1, GuardedKept, GuardedOneEditor, PTL DEF Spec

--------------------------------------------------------------------------------
(****************************************************************************)
(* What toptenlist_insert does to a list.                                   *)
(****************************************************************************)

\* A set of numbers has a smallest one.
LEMMA SmallestIn ==
  ASSUME NEW T, T \subseteq Nat, T # {}
  PROVE  \E x \in T : \A y \in T : x <= y
<1> DEFINE R == OpToRel(<, Nat)
<1>1. IsWellFoundedOn(R, Nat)
  BY NatLessThanWellFounded
<1>2. \A x, y \in Nat : <<y, x>> \in R <=> y < x
  BY DEF OpToRel
<1> HIDE DEF R
<1>3. PICK x \in T : \A y \in T : ~(<<y, x>> \in R)
  BY <1>1, WFMin
<1>4. \A y \in T : x \in Nat /\ y \in Nat /\ ~(y < x)
  BY <1>2, <1>3
<1>5. \A y \in T : x <= y
  BY <1>4
<1> QED
  BY <1>3, <1>5

\* The first loop stops at an entry with fewer points, or at the end.
LEMMA InsIs ==
  ASSUME NEW list \in Seq(Entries), NEW e \in Entries
  PROVE  /\ Ins(list, e) \in 1..(Len(list) + 1)
         /\ \A j \in 1..(Ins(list, e) - 1) : e.points <= list[j].points
         /\ Ins(list, e) <= Len(list) => e.points > list[Ins(list, e)].points
<1> DEFINE Stops(i) == i <= Len(list) => e.points > list[i].points
           T == {i \in 1..(Len(list) + 1) : Stops(i)}
<1>1. Len(list) \in Nat /\ e.points \in Nat
  BY DEF Entries
<1>2. \A j \in 1..Len(list) : list[j].points \in Nat
  <2>1. \A j \in 1..Len(list) : list[j] \in Entries
    BY ElementOfSeq
  <2> QED
    BY <2>1 DEF Entries
<1>3. T \subseteq Nat /\ Len(list) + 1 \in T
  BY <1>1
<1>4. PICK x \in T : \A y \in T : x <= y
  BY <1>3, SmallestIn
<1>5. x \in 1..(Len(list) + 1) /\ (x <= Len(list) => e.points > list[x].points)
  BY <1>4
<1>6. ASSUME NEW j \in 1..(x - 1) PROVE e.points <= list[j].points
  <2>1. j \in 1..Len(list) /\ j < x /\ j \in 1..(Len(list) + 1)
    BY <1>1, <1>5
  <2>2. j \notin T
    BY <1>4, <1>5, <2>1
  <2>3. ~(e.points > list[j].points)
    BY <2>1, <2>2
  <2> QED
    BY <1>1, <1>2, <2>1, <2>3
<1> HIDE DEF T, Stops
<1> DEFINE Found(i) == /\ \A j \in 1..(i - 1) : e.points <= list[j].points
                       /\ i <= Len(list) => e.points > list[i].points
<1>7. \E i \in 1..(Len(list) + 1) : Found(i)
  BY <1>5, <1>6
<1>8. Ins(list, e) = CHOOSE i \in 1..(Len(list) + 1) : Found(i)
  BY DEF Ins
<1> HIDE DEF Found
<1>9. Ins(list, e) \in 1..(Len(list) + 1) /\ Found(Ins(list, e))
  BY <1>7, <1>8
<1> QED
  BY <1>9 DEF Found

\* Every occurrence that it counts is an entry that it passed.
LEMMA OccCntIs ==
  ASSUME NEW list \in Seq(Entries), NEW e \in Entries
  PROVE  OccCnt(list, e) \in Nat /\ OccCnt(list, e) <= Ins(list, e) - 1
<1>1. PICK n \in Nat : n = Ins(list, e) - 1
  BY InsIs
<1>2. IsFiniteSet(1..n) /\ Cardinality(1..n) = n
  <2>1. 1 \in Int /\ n \in Int
    OBVIOUS
  <2>2. IsFiniteSet(1..n) /\ Cardinality(1..n) = IF 1 > n THEN 0 ELSE n-1+1
    BY <2>1, FS_Interval
  <2> QED
    BY <2>2
<1>3. {j \in 1..n : list[j].name = e.name} \in SUBSET (1..n)
  OBVIOUS
<1>4. OccCnt(list, e) = Cardinality({j \in 1..n : list[j].name = e.name})
  BY <1>1 DEF OccCnt
<1> QED
  BY <1>1, <1>2, <1>3, <1>4, FS_Subset, FS_CardinalityType

\* The place that is overwritten is not before the new entry's.  It is the first
\* empty one, or the last of a full list, if no player can have too many entries.
LEMMA DelIs ==
  ASSUME NEW list \in Seq(Entries), NEW e \in Entries,
         Len(list) <= TTLISTLEN, GetsOnList(list, e)
  PROVE  /\ Del(list, e) \in Ins(list, e)..Least(Len(list) + 1, TTLISTLEN)
         /\ Len(list) < PLAYERMAX => Del(list, e) = Least(Len(list) + 1, TTLISTLEN)
<1>1. PICK ins \in 1..(Len(list) + 1), occ \in Nat, end \in Nat :
        /\ ins = Ins(list, e) /\ occ = OccCnt(list, e) /\ end = Least(Len(list) + 1, TTLISTLEN)
        /\ occ <= ins - 1
  BY InsIs, OccCntIs, ListAssumption DEF Least
<1>2. occ < PLAYERMAX /\ ins <= TTLISTLEN
  BY <1>1 DEF GetsOnList
<1>3. Len(list) \in Nat /\ TTLISTLEN \in Nat /\ PLAYERMAX \in Nat
  BY ListAssumption
<1>4. ins <= end /\ end <= Len(list) + 1
  BY <1>1, <1>2, <1>3 DEF Least
<1>5. Del(list, e) = IF ins <= Len(list) /\ list[ins].name = e.name
                     THEN Least(ins + PLAYERMAX - occ - 1, end) ELSE end
  BY <1>1 DEF Del
<1>6. ins + PLAYERMAX - occ - 1 >= ins /\ ins + PLAYERMAX - occ - 1 >= PLAYERMAX
  BY <1>1, <1>2, <1>3
<1>7. PICK m \in Int : m = ins + PLAYERMAX - occ - 1
  BY <1>3
<1>8. Del(list, e) \in ins..end
  BY <1>1, <1>4, <1>5, <1>6, <1>7 DEF Least
<1>9. Len(list) < PLAYERMAX => Del(list, e) = end
  BY <1>1, <1>3, <1>4, <1>5, <1>6, <1>7 DEF Least
<1> QED
  BY <1>1, <1>8, <1>9

\* The list with the new entry: the entries from its place up to the one that is
\* overwritten move down by one, and all others stay.
LEMMA InsertIs ==
  ASSUME NEW list \in Seq(Entries), NEW e \in Entries,
         Len(list) <= TTLISTLEN, GetsOnList(list, e),
         NEW ins, ins = Ins(list, e), NEW del, del = Del(list, e),
         NEW new, new = toptenlist_insert(list, e)
  PROVE  /\ new \in Seq(Entries)
         /\ Len(new) = IF del > Len(list) THEN del ELSE Len(list)
         /\ Len(new) <= TTLISTLEN
         /\ ins \in 1..Len(new) /\ del \in ins..Len(new) /\ ins <= Len(list) + 1
         /\ del <= Len(list) + 1
         /\ new[ins] = e
         /\ \A i \in 1..Len(new) : i < ins => i \in 1..Len(list) /\ new[i] = list[i]
         /\ \A i \in 1..Len(new) : ins < i /\ i <= del =>
              i - 1 \in 1..Len(list) /\ new[i] = list[i - 1]
         /\ \A i \in 1..Len(new) : i > del => i \in 1..Len(list) /\ new[i] = list[i]
<1>1. PICK n \in Nat : n = IF del > Len(list) THEN del ELSE Len(list)
  BY InsIs, DelIs, ListAssumption DEF Least
<1>2. /\ Len(list) \in Nat /\ TTLISTLEN \in Nat
      /\ ins \in 1..(Len(list) + 1) /\ del \in Nat /\ ins <= del
      /\ del <= Len(list) + 1 /\ del <= TTLISTLEN
  BY InsIs, DelIs, ListAssumption DEF Least
<1>3. n <= TTLISTLEN /\ ins \in 1..n /\ del \in ins..n
  BY <1>1, <1>2
<1>4. new = [i \in 1..n |-> IF i = ins THEN e
                            ELSE IF ins < i /\ i <= del THEN list[i - 1] ELSE list[i]]
  BY <1>1 DEF toptenlist_insert, Shifted
<1>5. \A i \in 1..Len(list) : list[i] \in Entries
  BY ElementOfSeq
<1>6. ASSUME NEW i \in 1..n
      PROVE  /\ i < ins => i \in 1..Len(list) /\ new[i] = list[i]
             /\ i = ins => new[i] = e
             /\ ins < i /\ i <= del => i - 1 \in 1..Len(list) /\ new[i] = list[i - 1]
             /\ i > del => i \in 1..Len(list) /\ new[i] = list[i]
  <2>1. new[i] = IF i = ins THEN e
                 ELSE IF ins < i /\ i <= del THEN list[i - 1] ELSE list[i]
    BY <1>4
  <2>2. /\ i < ins => i \in 1..Len(list)
        /\ ins < i /\ i <= del => i - 1 \in 1..Len(list)
        /\ i > del => i \in 1..Len(list)
    BY <1>1, <1>2, <1>3
  <2> QED
    BY <1>2, <1>3, <2>1, <2>2
<1>7. ASSUME NEW i \in 1..n PROVE new[i] \in Entries
  <2>1. CASE i < ins
    BY <1>5, <1>6, <2>1
  <2>2. CASE i = ins
    BY <1>6, <2>2
  <2>3. CASE ins < i /\ i <= del
    <3>1. PICK k \in 1..Len(list) : k = i - 1
      BY <1>6, <2>3
    <3> QED
      BY <1>5, <1>6, <2>3, <3>1
  <2>4. CASE i > del
    BY <1>5, <1>6, <2>4
  <2> QED
    BY <1>2, <2>1, <2>2, <2>3, <2>4
<1>8. new \in [1..n -> Entries]
  <2>1. DOMAIN new = 1..n
    BY <1>4
  <2>2. new = [i \in 1..n |-> new[i]]
    BY <1>4, <2>1
  <2> QED
    BY <1>7, <2>2
<1>9. new \in Seq(Entries) /\ Len(new) = n
  <2>1. new \in Seq(Entries)
    BY <1>8, SeqDef
  <2>2. DOMAIN new = 1..n /\ Len(new) \in Nat /\ DOMAIN new = 1..Len(new)
    BY <1>8, <2>1, LenProperties
  <2> QED
    BY <2>1, <2>2
<1>10. ins \in 1..n
  BY <1>3
<1> QED
  BY <1>1, <1>2, <1>3, <1>6, <1>9, <1>10

\* Every other entry of the new list stood in the old one, at its place or one
\* before it.
LEMMA InsertMoves ==
  ASSUME NEW list \in Seq(Entries), NEW e \in Entries,
         Len(list) <= TTLISTLEN, GetsOnList(list, e),
         NEW ins, ins = Ins(list, e), NEW del, del = Del(list, e),
         NEW new, new = toptenlist_insert(list, e),
         NEW i \in 1..Len(new), i # ins
  PROVE  \E k \in 1..Len(list) :
           /\ new[i] = list[k]
           /\ (k = i /\ (i < ins \/ i > del)) \/ (k = i - 1 /\ ins < i /\ i <= del)
<1>1. /\ Len(new) \in Nat /\ ins \in 1..Len(new) /\ del \in ins..Len(new)
      /\ \A n \in 1..Len(new) : n < ins => n \in 1..Len(list) /\ new[n] = list[n]
      /\ \A n \in 1..Len(new) : ins < n /\ n <= del =>
           n - 1 \in 1..Len(list) /\ new[n] = list[n - 1]
      /\ \A n \in 1..Len(new) : n > del => n \in 1..Len(list) /\ new[n] = list[n]
  BY InsertIs
<1>2. CASE i < ins
  BY <1>1, <1>2
<1>3. CASE ins < i /\ i <= del
  <2>1. PICK k \in 1..Len(list) : k = i - 1 /\ new[i] = list[k]
    BY <1>1, <1>3
  <2> QED
    BY <1>3, <2>1
<1>4. CASE i > del
  BY <1>1, <1>4
<1> QED
  BY <1>1, <1>2, <1>3, <1>4

\* Every entry but the one that is overwritten is in the new list.
LEMMA InsertStays ==
  ASSUME NEW list \in Seq(Entries), NEW e \in Entries,
         Len(list) <= TTLISTLEN, GetsOnList(list, e),
         NEW ins, ins = Ins(list, e), NEW del, del = Del(list, e),
         NEW new, new = toptenlist_insert(list, e),
         NEW k \in 1..Len(list), k # del
  PROVE  \E i \in 1..Len(new) : new[i] = list[k]
<1>1. /\ Len(new) \in Nat /\ ins \in 1..Len(new) /\ del \in ins..Len(new)
      /\ Len(list) \in Nat
      /\ Len(new) = IF del > Len(list) THEN del ELSE Len(list)
      /\ \A n \in 1..Len(new) : n < ins => n \in 1..Len(list) /\ new[n] = list[n]
      /\ \A n \in 1..Len(new) : ins < n /\ n <= del =>
           n - 1 \in 1..Len(list) /\ new[n] = list[n - 1]
      /\ \A n \in 1..Len(new) : n > del => n \in 1..Len(list) /\ new[n] = list[n]
  BY InsertIs
<1>2. k \in 1..Len(new)
  BY <1>1
<1>3. CASE k < ins \/ k > del
  BY <1>1, <1>2, <1>3
<1>4. CASE ins <= k /\ k < del
  <2>1. PICK i \in 1..Len(new) : i = k + 1
    BY <1>1, <1>4
  <2>2. ins < i /\ i <= del /\ i - 1 = k
    BY <1>1, <1>4, <2>1
  <2>3. new[i] = list[i - 1]
    BY <1>1, <2>2
  <2> QED
    BY <2>2, <2>3
<1> QED
  BY <1>1, <1>3, <1>4

\* Inserting keeps the list sorted: those before the new entry have at least its
\* points, those behind it have fewer.
LEMMA InsertSorted ==
  ASSUME NEW list \in Seq(Entries), NEW e \in Entries,
         Len(list) <= TTLISTLEN, Sorted(list)
  PROVE  Sorted(toptenlist_insert(list, e))
<1>1. CASE ~GetsOnList(list, e)
  BY <1>1 DEF toptenlist_insert
<1>2. CASE GetsOnList(list, e)
  <2>1. PICK ins, del, new : /\ ins = Ins(list, e) /\ del = Del(list, e)
                             /\ new = toptenlist_insert(list, e)
    OBVIOUS
  <2>2. /\ new \in Seq(Entries) /\ Len(new) \in Nat /\ Len(list) \in Nat
        /\ ins \in 1..Len(new) /\ del \in ins..Len(new) /\ ins <= Len(list) + 1
        /\ del <= Len(list) + 1
        /\ new[ins] = e
        /\ \A i \in 1..Len(new) : i < ins => i \in 1..Len(list) /\ new[i] = list[i]
        /\ \A i \in 1..Len(new) : ins < i /\ i <= del =>
              i - 1 \in 1..Len(list) /\ new[i] = list[i - 1]
        /\ \A i \in 1..Len(new) : i > del => i \in 1..Len(list) /\ new[i] = list[i]
    BY <1>2, <2>1, InsertIs
  <2>3. /\ \A j \in 1..(ins - 1) : e.points <= list[j].points
        /\ ins <= Len(list) => e.points > list[ins].points
    BY <2>1, InsIs
  <2>4. /\ e.points \in Nat
        /\ \A j \in 1..Len(list) : list[j].points \in Nat
    <3>1. \A j \in 1..Len(list) : list[j] \in Entries
      BY ElementOfSeq
    <3> QED
      BY <3>1 DEF Entries
  <2>5. \A j, k \in 1..Len(list) : j < k => list[j].points >= list[k].points
    BY DEF Sorted
  <2>6. ASSUME NEW j \in 1..Len(list), j >= ins PROVE e.points > list[j].points
    <3>1. ins \in 1..Len(list) /\ ins <= Len(list)
      BY <2>2, <2>6
    <3>2. e.points > list[ins].points
      BY <2>3, <3>1
    <3>3. j = ins \/ list[ins].points >= list[j].points
      BY <2>2, <2>5, <2>6, <3>1
    <3> QED
      BY <2>4, <3>1, <3>2, <3>3
  <2>7. ASSUME NEW i \in 1..Len(new), NEW j \in 1..Len(new), i < j
        PROVE  new[i].points >= new[j].points
    <3>1. \A n \in 1..Len(new) : n # ins =>
            \E k \in 1..Len(list) :
              /\ new[n] = list[k]
              /\ (k = n /\ (n < ins \/ n > del)) \/ (k = n - 1 /\ ins < n /\ n <= del)
      BY <1>2, <2>1, InsertMoves
    <3>3. CASE i = ins
      <4>1. PICK k \in 1..Len(list) :
              /\ new[j] = list[k]
              /\ (k = j /\ (j < ins \/ j > del)) \/ (k = j - 1 /\ ins < j /\ j <= del)
        BY <2>7, <3>1, <3>3
      <4>2. k >= ins
        BY <2>2, <2>7, <3>3, <4>1
      <4> QED
        BY <2>2, <2>4, <2>6, <3>3, <4>1, <4>2
    <3>4. CASE j = ins
      <4>1. i \in 1..Len(list) /\ new[i] = list[i] /\ i \in 1..(ins - 1)
        BY <2>2, <2>7, <3>4
      <4>2. e.points <= list[i].points
        BY <2>3, <4>1
      <4> QED
        BY <2>2, <2>4, <3>4, <4>1, <4>2
    <3>5. CASE i # ins /\ j # ins
      <4>1. PICK k \in 1..Len(list) :
              /\ new[i] = list[k]
              /\ (k = i /\ (i < ins \/ i > del)) \/ (k = i - 1 /\ ins < i /\ i <= del)
        BY <3>1, <3>5
      <4>2. PICK l \in 1..Len(list) :
              /\ new[j] = list[l]
              /\ (l = j /\ (j < ins \/ j > del)) \/ (l = j - 1 /\ ins < j /\ j <= del)
        BY <3>1, <3>5
      <4>3. k < l
        BY <2>2, <2>7, <3>5, <4>1, <4>2
      <4> QED
        BY <2>5, <4>1, <4>2, <4>3
    <3> QED
      BY <3>3, <3>4, <3>5
  <2>8. Sorted(new)
    BY <2>7 DEF Sorted
  <2> QED
    BY <2>1, <2>8
<1> QED
  BY <1>1, <1>2

\* A new entry put on a list of entries that differ: they still differ, and all
\* were made.
LEMMA InsertGood ==
  ASSUME NEW list \in Seq(Entries), NEW e \in Entries, NEW made,
         e \notin made, GoodList(list, made)
  PROVE  /\ toptenlist_insert(list, e) \in Seq(Entries)
         /\ GoodList(toptenlist_insert(list, e), made \cup {e})
<1>1. /\ Len(list) <= TTLISTLEN /\ Sorted(list)
      /\ \A i, j \in 1..Len(list) : list[i] = list[j] => i = j
      /\ \A i \in 1..Len(list) : list[i] \in made
  BY DEF GoodList
<1>2. Sorted(toptenlist_insert(list, e))
  BY <1>1, InsertSorted
<1>3. CASE ~GetsOnList(list, e)
  <2>1. toptenlist_insert(list, e) = list
    BY <1>3 DEF toptenlist_insert
  <2> QED
    BY <1>1, <2>1 DEF GoodList
<1>4. CASE GetsOnList(list, e)
  <2>1. PICK ins, del, new : /\ ins = Ins(list, e) /\ del = Del(list, e)
                             /\ new = toptenlist_insert(list, e)
    OBVIOUS
  <2>2. /\ new \in Seq(Entries) /\ Len(new) \in Nat /\ Len(new) <= TTLISTLEN
        /\ ins \in 1..Len(new) /\ del \in ins..Len(new) /\ new[ins] = e
    BY <1>1, <1>4, <2>1, InsertIs
  <2>3. \A i \in 1..Len(new) : i # ins =>
          \E k \in 1..Len(list) :
            /\ new[i] = list[k]
            /\ (k = i /\ (i < ins \/ i > del)) \/ (k = i - 1 /\ ins < i /\ i <= del)
    BY <1>1, <1>4, <2>1, InsertMoves
  <2>4. ASSUME NEW i \in 1..Len(new) PROVE new[i] \in made \cup {e}
    BY <1>1, <2>2, <2>3
  <2>5. ASSUME NEW i \in 1..Len(new), i # ins PROVE new[i] # e
    BY <1>1, <2>3, <2>5
  <2>6. ASSUME NEW i \in 1..Len(new), NEW j \in 1..Len(new), new[i] = new[j]
        PROVE  i = j
    <3>1. CASE i = ins \/ j = ins
      BY <2>2, <2>5, <2>6, <3>1
    <3>2. CASE i # ins /\ j # ins
      <4>1. PICK k \in 1..Len(list) :
              /\ new[i] = list[k]
              /\ (k = i /\ (i < ins \/ i > del)) \/ (k = i - 1 /\ ins < i /\ i <= del)
        BY <2>3, <3>2
      <4>2. PICK l \in 1..Len(list) :
              /\ new[j] = list[l]
              /\ (l = j /\ (j < ins \/ j > del)) \/ (l = j - 1 /\ ins < j /\ j <= del)
        BY <2>3, <3>2
      <4>3. k = l
        BY <1>1, <2>6, <4>1, <4>2
      <4> QED
        BY <2>2, <4>1, <4>2, <4>3
    <3> QED
      BY <3>1, <3>2
  <2> QED
    BY <1>2, <2>1, <2>2, <2>4, <2>6 DEF GoodList
<1> QED
  BY <1>3, <1>4

\* A list without repetitions has as many entries as it has places.
LEMMA CardOfList ==
  ASSUME NEW list \in Seq(Entries),
         \A i, j \in 1..Len(list) : list[i] = list[j] => i = j
  PROVE  LET kept == {list[i] : i \in 1..Len(list)}
         IN  IsFiniteSet(kept) /\ Cardinality(kept) = Len(list)
<1> DEFINE kept == {list[i] : i \in 1..Len(list)}
           f == [i \in 1..Len(list) |-> list[i]]
<1>1. PICK n \in Nat : n = Len(list)
  OBVIOUS
<1>2. f \in Bijection(1..n, kept)
  <2>1. f \in [1..n -> kept] /\ (\A t \in kept : \E i \in 1..n : f[i] = t)
    BY <1>1
  <2>2. \A i, j \in 1..n : f[i] = f[j] => i = j
    BY <1>1
  <2> HIDE DEF f, kept
  <2> QED
    BY <2>1, <2>2 DEF Bijection, Injection, Surjection, IsInjective
<1> HIDE DEF f, kept
<1>3. IsFiniteSet(1..n) /\ Cardinality(1..n) = n
  <2>1. 1 \in Int /\ n \in Int
    OBVIOUS
  <2>2. IsFiniteSet(1..n) /\ Cardinality(1..n) = IF 1 > n THEN 0 ELSE n-1+1
    BY <2>1, FS_Interval
  <2> QED
    BY <2>2
<1>4. ExistsBijection(1..n, kept)
  BY <1>2 DEF ExistsBijection
<1>5. IsFiniteSet(kept) /\ Cardinality(1..n) = Cardinality(kept)
  BY <1>3, <1>4, FS_Bijection
<1>6. IsFiniteSet(kept) /\ Cardinality(kept) = Len(list)
  BY <1>1, <1>3, <1>5
<1> QED
  BY <1>6 DEF kept

\* A best list stays one when an entry is put on it: as long as no player can have
\* too many entries, only the last entry of a full list is ever overwritten.
LEMMA InsertBest ==
  ASSUME NEW list \in Seq(Entries), NEW e \in Entries, NEW made \in SUBSET Entries,
         IsFiniteSet(made), e \notin made, GoodList(list, made), BestList(list, made)
  PROVE  BestList(toptenlist_insert(list, e), made \cup {e})
<1>1. PICK new, c, ins :
        /\ new = toptenlist_insert(list, e)
        /\ c = Cardinality(made) /\ c \in Nat
        /\ ins = Ins(list, e) /\ ins \in 1..(Len(list) + 1)
  <2>1. Cardinality(made) \in Nat /\ Ins(list, e) \in 1..(Len(list) + 1)
    BY FS_CardinalityType, InsIs
  <2> QED
    BY <2>1
<1>2. Cardinality(made \cup {e}) = c + 1
  BY <1>1, FS_AddElement
<1>3. TTLISTLEN \in Nat /\ PLAYERMAX \in Nat /\ Len(list) \in Nat
  BY ListAssumption
<1>4. /\ Len(list) <= TTLISTLEN /\ Sorted(list)
      /\ \A i, j \in 1..Len(list) : list[i] = list[j] => i = j
      /\ \A i \in 1..Len(list) : list[i] \in made
  BY DEF GoodList
<1>5. SUFFICES ASSUME c + 1 <= PLAYERMAX
               PROVE  /\ Len(new) = Least(c + 1, TTLISTLEN)
                      /\ \A d \in made \cup {e} :
                           \/ \E i \in 1..Len(new) : d = new[i]
                           \/ \A i \in 1..Len(new) : d.points <= new[i].points
  BY <1>1, <1>2 DEF BestList
<1>6. /\ Len(list) = Least(c, TTLISTLEN)
      /\ \A d \in made : \/ \E i \in 1..Len(list) : d = list[i]
                         \/ \A i \in 1..Len(list) : d.points <= list[i].points
  BY <1>1, <1>3, <1>5 DEF BestList
<1>7. /\ \A j \in 1..(ins - 1) : e.points <= list[j].points
      /\ ins <= Len(list) => e.points > list[ins].points
  BY <1>1, InsIs
<1>8. /\ e.points \in Nat
      /\ \A j \in 1..Len(list) : list[j].points \in Nat
      /\ \A d \in made : d.points \in Nat
  <2>1. \A j \in 1..Len(list) : list[j] \in Entries
    BY ElementOfSeq
  <2> QED
    BY <2>1 DEF Entries
<1>9. Len(list) < PLAYERMAX
  BY <1>1, <1>3, <1>5, <1>6 DEF Least
<1>10. CASE ~GetsOnList(list, e)
  <2>1. new = list
    BY <1>1, <1>10 DEF toptenlist_insert
  <2>2. ins > TTLISTLEN
    <3>1. OccCnt(list, e) \in Nat /\ OccCnt(list, e) <= ins - 1
      BY <1>1, OccCntIs
    <3>2. OccCnt(list, e) < PLAYERMAX
      BY <1>1, <1>3, <1>9, <3>1
    <3> QED
      BY <1>1, <1>3, <1>10, <3>2 DEF GetsOnList
  <2>3. Len(list) = TTLISTLEN /\ ins = Len(list) + 1
    BY <1>1, <1>3, <1>4, <2>2
  <2>4. \A j \in 1..Len(list) : e.points <= list[j].points
    BY <1>3, <1>7, <2>3
  <2>5. Len(new) = Least(c + 1, TTLISTLEN)
    BY <1>1, <1>3, <1>6, <2>1, <2>3 DEF Least
  <2> QED
    BY <1>6, <2>1, <2>4, <2>5
<1>11. CASE GetsOnList(list, e)
  <2>1. PICK del \in Int : del = Del(list, e) /\ del = Least(Len(list) + 1, TTLISTLEN)
    <3>1. Del(list, e) = Least(Len(list) + 1, TTLISTLEN)
      BY <1>4, <1>9, <1>11, DelIs
    <3> QED
      BY <1>3, <3>1 DEF Least
  <2>2. /\ new \in Seq(Entries) /\ Len(new) \in Nat
        /\ Len(new) = IF del > Len(list) THEN del ELSE Len(list)
        /\ ins \in 1..Len(new) /\ del \in ins..Len(new) /\ new[ins] = e
    <3>1. del = Del(list, e) /\ new = toptenlist_insert(list, e) /\ ins = Ins(list, e)
      BY <1>1, <2>1
    <3>2. Len(list) <= TTLISTLEN
      BY <1>4
    <3> QED
      BY <1>11, <3>1, <3>2, InsertIs
  <2>3. \A k \in 1..Len(list) : k # del => \E i \in 1..Len(new) : new[i] = list[k]
    <3>1. del = Del(list, e) /\ new = toptenlist_insert(list, e) /\ ins = Ins(list, e)
      BY <1>1, <2>1
    <3>2. Len(list) <= TTLISTLEN
      BY <1>4
    <3> QED
      BY <1>11, <3>1, <3>2, InsertStays
  <2>4. CASE Len(list) < TTLISTLEN
    <3>1. Len(list) = c /\ del = Len(list) + 1 /\ Len(new) = c + 1
      BY <1>1, <1>3, <1>6, <2>1, <2>2, <2>4 DEF Least
    <3>2. {list[i] : i \in 1..Len(list)} = made
      <4> DEFINE kept == {list[i] : i \in 1..Len(list)}
      <4>1. Cardinality(kept) = Len(list)
        BY <1>4, CardOfList
      <4>2. kept \in SUBSET made
        BY <1>4
      <4> HIDE DEF kept
      <4>3. kept = made
        BY <1>1, <3>1, <4>1, <4>2, FS_Subset
      <4> QED
        BY <4>3 DEF kept
    <3>3. ASSUME NEW d \in made PROVE \E i \in 1..Len(new) : d = new[i]
      <4>1. PICK k \in 1..Len(list) : d = list[k]
        BY <3>2
      <4>2. k # del
        BY <1>3, <3>1
      <4> QED
        BY <2>3, <4>1, <4>2
    <3>4. Len(new) = Least(c + 1, TTLISTLEN)
      BY <1>1, <1>3, <2>4, <3>1 DEF Least
    <3> QED
      BY <2>2, <3>3, <3>4
  <2>5. CASE Len(list) = TTLISTLEN
    <3>1. del = Len(list) /\ Len(new) = Len(list) /\ Len(new) = Least(c + 1, TTLISTLEN)
      BY <1>1, <1>3, <1>6, <2>1, <2>2, <2>5 DEF Least
    <3>2. ins \in 1..Len(list) /\ Len(list) \in 1..Len(list) /\ e.points > list[ins].points
      BY <1>3, <1>7, <2>2, <3>1
    <3>3. list[Len(list)].points <= list[ins].points
      BY <1>3, <1>4, <1>8, <3>2 DEF Sorted
    <3>4. list[Len(list)].points <= e.points
      BY <1>8, <3>2, <3>3
    <3>5. \* who is no better than the old list is no better than the new one
          ASSUME NEW d \in made, \A i \in 1..Len(list) : d.points <= list[i].points
          PROVE  \A i \in 1..Len(new) : d.points <= new[i].points
      <4>1. d.points <= e.points
        BY <1>8, <3>2, <3>5
      <4>2. ASSUME NEW i \in 1..Len(new) PROVE d.points <= new[i].points
        <5>1. CASE i = ins
          BY <2>2, <4>1, <5>1
        <5>2. CASE i # ins
          <6>1. PICK k \in 1..Len(list) : new[i] = list[k]
            BY <1>1, <1>4, <1>11, <2>1, <5>2, InsertMoves
          <6> QED
            BY <3>5, <6>1
        <5> QED
          BY <5>1, <5>2
      <4> QED
        BY <4>2
    <3>6. ASSUME NEW d \in made
          PROVE  \/ \E i \in 1..Len(new) : d = new[i]
                 \/ \A i \in 1..Len(new) : d.points <= new[i].points
      <4>1. CASE \A i \in 1..Len(list) : d.points <= list[i].points
        BY <3>5, <4>1
      <4>2. CASE \E k \in 1..Len(list) : d = list[k]
        <5>1. PICK k \in 1..Len(list) : d = list[k]
          BY <4>2
        <5>2. CASE k # del
          BY <2>3, <5>1, <5>2
        <5>3. CASE k = del
          <6>1. \A i \in 1..Len(list) : d.points <= list[i].points
            <7>1. \A i, j \in 1..Len(list) : i < j => list[i].points >= list[j].points
              BY <1>4 DEF Sorted
            <7>2. ASSUME NEW i \in 1..Len(list) PROVE d.points <= list[i].points
              <8>1. i < k \/ i = k
                <9>1. PICK n \in Nat : n = Len(list) /\ n = del
                  BY <1>3, <3>1
                <9>2. k = n /\ i \in 1..n
                  BY <5>3, <9>1
                <9> QED
                  BY <9>1, <9>2
              <8>2. CASE i < k
                BY <1>8, <5>1, <7>1, <8>2
              <8> QED
                BY <1>8, <5>1, <8>1, <8>2
            <7> QED
              BY <7>2
          <6> QED
            BY <3>5, <6>1
        <5> QED
          BY <5>2, <5>3
      <4> QED
        BY <1>6, <4>1, <4>2
    <3> QED
      BY <2>2, <3>1, <3>6
  <2> QED
    BY <1>3, <1>4, <2>4, <2>5
<1> QED
  BY <1>10, <1>11

--------------------------------------------------------------------------------
(****************************************************************************)
(* The record file keeps the best entries.                                  *)
(****************************************************************************)

\* Whoever works on the list works on it alone.
LEMMA WorksAlone ==
  ASSUME Guarded, NEW p \in Procs, pc[p] \in Working
  PROVE  \A q \in Procs \ {p} : pc[q] \notin Working
  BY DEF Guarded

\* What was made only gets less, and nobody comes to make an entry.
LEMMA EntriesStay ==
  ASSUME EntriesDiffer, UNCHANGED ends, entered' \subseteq entered,
         \A q \in Procs : pc'[q] \in Scoring => pc[q] \in Scoring /\ newtt'[q] = newtt[q]
  PROVE  EntriesDiffer'
  BY DEF EntriesDiffer

\* The entry that Logs makes is of an end that no other entry is of.
LEMMA LogsDiffers ==
  ASSUME TypeOK, HasGame, EntriesDiffer, NEW p \in Procs, Logs(p)
  PROVE  EntriesDiffer'
<1>1. PICK g \in Games, n \in Nat : g = game[p] /\ n = ends[g]
  BY DEF TypeOK, HasGame, Logs, At
<1>2. /\ newtt'[p].game = g /\ newtt'[p].time = n + 1
      /\ \A q \in Procs \ {p} : newtt'[q] = newtt[q] /\ pc'[q] = pc[q]
      /\ ends'[g] = n + 1 /\ \A h \in Games \ {g} : ends'[h] = ends[h]
      /\ entered' = entered
  BY <1>1 DEF TypeOK, Logs, At, Goto
<1>3. \A h \in Games : ends[h] \in Nat /\ ends'[h] \in Nat /\ ends[h] <= ends'[h]
  <2>1. \A h \in Games : ends[h] \in Nat
    BY DEF TypeOK
  <2>2. n \in Nat /\ n <= n + 1
    OBVIOUS
  <2>3. \A h \in Games : h = g \/ ends'[h] = ends[h]
    BY <1>2
  <2> QED
    BY <1>1, <1>2, <2>1, <2>2, <2>3
<1>4. \A e \in entered : /\ e.game \in Games /\ e.time \in Nat
                         /\ e.time <= ends[e.game]
                         /\ e.time <= ends'[e.game] /\ e # newtt'[p]
  <2> SUFFICES ASSUME NEW e \in entered
               PROVE  /\ e.game \in Games /\ e.time \in Nat
                      /\ e.time <= ends[e.game]
                      /\ e.time <= ends'[e.game] /\ e # newtt'[p]
    OBVIOUS
  <2>1. e.game \in Games /\ e.time \in Nat /\ e.time <= ends[e.game]
    BY DEF EntriesDiffer, TypeOK, Entries
  <2>2. e.time <= ends'[e.game]
    BY <1>3, <2>1
  <2>3. e # newtt'[p]
    BY <1>1, <1>2, <2>1
  <2> QED
    BY <2>1, <2>2, <2>3
<1>5. ASSUME NEW q \in Procs \ {p}, pc[q] \in Scoring
      PROVE  /\ newtt[q].game \in Games /\ newtt[q].time <= ends'[newtt[q].game]
             /\ newtt[q] \notin entered /\ newtt[q] # newtt'[p]
  <2>1. /\ newtt[q].game \in Games /\ newtt[q].time <= ends[newtt[q].game]
        /\ newtt[q] \notin entered
    BY <1>5 DEF EntriesDiffer
  <2>2. newtt[q].time \in Nat
    BY DEF TypeOK, Entries
  <2>3. newtt[q].time <= ends'[newtt[q].game]
    BY <1>3, <2>1, <2>2
  <2>4. newtt[q] # newtt'[p]
    BY <1>1, <1>2, <2>1, <2>2
  <2> QED
    BY <2>1, <2>3, <2>4
<1>6. \A e \in entered' : e.game \in Games /\ e.time <= ends'[e.game]
  BY <1>2, <1>4
<1>7. ASSUME NEW q \in Procs, pc'[q] \in Scoring
      PROVE  /\ newtt'[q].game \in Games /\ newtt'[q].time <= ends'[newtt'[q].game]
             /\ newtt'[q] \notin entered'
             /\ \A r \in Procs \ {q} : pc'[r] \in Scoring => newtt'[r] # newtt'[q]
  <2>1. CASE q = p
    BY <1>1, <1>2, <1>4, <1>5, <2>1
  <2>2. CASE q # p
    <3>1. pc[q] \in Scoring /\ newtt'[q] = newtt[q]
      BY <1>2, <1>7, <2>2
    <3>2. \A r \in Procs \ {q} : pc'[r] \in Scoring => newtt'[r] # newtt'[q]
      BY <1>2, <1>5, <2>2, <3>1 DEF EntriesDiffer
    <3> QED
      BY <1>2, <1>5, <2>2, <3>1, <3>2
  <2> QED
    BY <2>1, <2>2
<1> QED
  BY <1>6, <1>7 DEF EntriesDiffer

\* An entry that is put on the list is no longer one that others may make.
LEMMA InsertsDiffers ==
  ASSUME TypeOK, EntriesDiffer, NEW p \in Procs, InsertsEntry(p)
  PROVE  EntriesDiffer'
<1>1. /\ pc[p] \in Scoring /\ pc'[p] \notin Scoring
      /\ \A q \in Procs \ {p} : pc'[q] = pc[q]
      /\ newtt' = newtt /\ ends' = ends /\ entered' = entered \cup {newtt[p]}
  BY DEF TypeOK, InsertsEntry, Goto, Scoring, logs
<1> QED
  BY <1>1 DEF EntriesDiffer

\* The list as it was read and the record file are still the same, and so is the
\* list of a process that changes the file.
LEMMA ListStays ==
  ASSUME ListKept, UNCHANGED <<record, entered>>,
         \A q \in Procs : /\ pc'[q] \in {"insert", "truncate", "write"} =>
                               pc'[q] = pc[q] /\ ttlist'[q] = ttlist[q]
                          /\ pc[q] \in {"truncate", "write"} => pc'[q] = pc[q]
  PROVE  ListKept'
  BY DEF ListKept

LEMMA ReadsKeepsList ==
  ASSUME TypeOK, ListKept, NEW p \in Procs, ReadsRecord(p)
  PROVE  ListKept'
<1>1. /\ pc[p] = "read" /\ pc'[p] = "insert" /\ ttlist'[p] = record
      /\ \A q \in Procs \ {p} : pc'[q] = pc[q] /\ ttlist'[q] = ttlist[q]
      /\ record' = record /\ entered' = entered
  BY DEF TypeOK, ReadsRecord, At, Goto, scores, logs
<1> QED
  BY <1>1 DEF ListKept

\* The list gets the new entry while the file still has the old ones, or the entry
\* is not good enough and the file stays as it is.
LEMMA InsertsKeepsList ==
  ASSUME TypeOK, IsFiniteSet(entered), Guarded, EntriesDiffer, ListKept,
         NEW p \in Procs, InsertsEntry(p)
  PROVE  ListKept'
<1>1. PICK e \in Entries, made \in SUBSET Entries, list \in Seq(Entries) :
        e = newtt[p] /\ made = entered /\ list = record
  BY DEF TypeOK
<1>2. ttlist[p] = list /\ e \notin made /\ IsFiniteSet(made)
  BY <1>1 DEF InsertsEntry, ListKept, EntriesDiffer, Scoring
<1>3. \A q \in Procs \ {p} : pc[q] \notin Working
  BY WorksAlone DEF InsertsEntry, Working
<1>4. GoodList(list, made) /\ BestList(list, made)
  BY <1>1, <1>3 DEF ListKept, InsertsEntry, Working
<1>5. PICK new : new = toptenlist_insert(list, e)
  OBVIOUS
<1>6. GoodList(new, made \cup {e}) /\ BestList(new, made \cup {e})
  BY <1>2, <1>4, <1>5, InsertGood, InsertBest
<1>7. GoodList(list, made \cup {e})
  BY <1>4 DEF GoodList
<1>8. /\ record' = list /\ entered' = made \cup {e} /\ ttlist'[p] = new
      /\ pc'[p] = IF GetsOnList(list, e) THEN "truncate" ELSE "unlock"
      /\ \A q \in Procs \ {p} : pc'[q] \notin Working
  BY <1>1, <1>2, <1>3, <1>5 DEF TypeOK, InsertsEntry, Goto
<1>9. CASE GetsOnList(list, e)
  BY <1>6, <1>7, <1>8, <1>9 DEF ListKept, Working
<1>10. CASE ~GetsOnList(list, e)
  <2>1. new = list
    BY <1>5, <1>10 DEF toptenlist_insert
  <2> QED
    BY <1>6, <1>7, <1>8, <1>10, <2>1 DEF ListKept, Working
<1> QED
  BY <1>9, <1>10

\* From here on the list that counts is the one in memory.
LEMMA TruncatesKeepsList ==
  ASSUME TypeOK, Guarded, ListKept, NEW p \in Procs, TruncatesRecord(p)
  PROVE  ListKept'
<1>1. PICK list, made : list = ttlist[p] /\ made = entered
  OBVIOUS
<1>2. GoodList(list, made) /\ BestList(list, made)
  BY <1>1 DEF ListKept, TruncatesRecord, At
<1>3. /\ record' = <<>> /\ entered' = made /\ ttlist'[p] = list
      /\ pc'[p] = "write"
      /\ \A q \in Procs \ {p} : pc'[q] \notin Working
  BY <1>1, WorksAlone DEF TypeOK, TruncatesRecord, At, Goto, Working
<1>4. GoodList(<<>>, made)
  BY ListAssumption DEF GoodList, Sorted
<1>5. Len(list) \in Nat
  BY <1>1 DEF TypeOK
<1> QED
  BY <1>2, <1>3, <1>4, <1>5 DEF ListKept, Working

\* What is in the file is always the beginning of it, and at the end it is all.
LEMMA WritesKeepsList ==
  ASSUME TypeOK, Guarded, ListKept, NEW p \in Procs, WritesEntry(p)
  PROVE  ListKept' /\ Len(record') <= TTLISTLEN /\ record' \in Seq(Entries)
<1>1. PICK list \in Seq(Entries), old \in Seq(Entries), made \in SUBSET Entries :
        list = ttlist[p] /\ old = record /\ made = entered
  BY DEF TypeOK
<1>2. /\ GoodList(list, made) /\ BestList(list, made)
      /\ Len(old) <= Len(list) /\ (\A i \in 1..Len(old) : old[i] = list[i])
      /\ GoodList(old, made)
  BY <1>1 DEF ListKept, WritesEntry
<1>3. /\ entered' = made /\ ttlist'[p] = list
      /\ \A q \in Procs \ {p} : pc'[q] \notin Working
  BY <1>1, WorksAlone DEF TypeOK, WritesEntry, Goto, Working
<1>4. CASE Len(old) < Len(list)
  <2>1. PICK n \in Nat : n = Len(old)
    OBVIOUS
  <2>2. n + 1 \in 1..Len(list) /\ list[n + 1] \in Entries
    <3>1. n + 1 \in 1..Len(list)
      BY <1>4, <2>1
    <3> QED
      BY <3>1, ElementOfSeq
  <2>3. PICK new : new = Append(old, list[n + 1])
    OBVIOUS
  <2>4. record' = new /\ pc'[p] = "write"
    BY <1>1, <1>4, <2>1, <2>3 DEF WritesEntry, TypeOK
  <2>5. new \in Seq(Entries) /\ Len(new) = n + 1
    BY <2>1, <2>2, <2>3
  <2>6. \A i \in 1..(n + 1) : new[i] = list[i]
    <3>1. ASSUME NEW i \in 1..(n + 1) PROVE new[i] = list[i]
      <4>1. CASE i = n + 1
        BY <2>1, <2>2, <2>3, <4>1
      <4>2. CASE i \in 1..n
        <5>1. new[i] = old[i]
          BY <2>1, <2>2, <2>3, <4>2
        <5> QED
          BY <1>2, <2>1, <4>2, <5>1
      <4> QED
        BY <4>1, <4>2
    <3> QED
      BY <3>1
  <2>7. GoodList(new, made)
    <3>1. \A i \in 1..(n + 1) : i \in 1..Len(list)
      BY <2>1, <2>2
    <3>2. Sorted(new)
      BY <1>2, <2>5, <2>6, <3>1 DEF GoodList, Sorted
    <3>3. Len(new) <= TTLISTLEN
      BY <1>2, <2>2, <2>5, ListAssumption DEF GoodList
    <3>4. /\ \A i, j \in 1..Len(new) : new[i] = new[j] => i = j
          /\ \A i \in 1..Len(new) : new[i] \in made
      BY <1>2, <2>5, <2>6, <3>1 DEF GoodList
    <3> QED
      BY <3>2, <3>3, <3>4 DEF GoodList
  <2>8. Len(new) <= Len(list) /\ Len(new) <= TTLISTLEN
    BY <2>2, <2>5, <2>7 DEF GoodList
  <2>9. ListKept'
    BY <1>2, <1>3, <2>4, <2>5, <2>6, <2>7, <2>8 DEF ListKept, Working
  <2> QED
    BY <2>4, <2>5, <2>8, <2>9
<1>5. CASE ~(Len(old) < Len(list))
  <2>1. Len(old) = Len(list)
    BY <1>2, <1>5
  <2>2. old = list
    BY <1>2, <2>1, SeqEqual
  <2>3. record' = old /\ pc'[p] = "unlock"
    BY <1>1, <1>5 DEF WritesEntry, Goto, TypeOK
  <2>4. ListKept'
    BY <1>2, <1>3, <2>2, <2>3 DEF ListKept, Working
  <2> QED
    BY <1>2, <2>3, <2>4 DEF GoodList
<1> QED
  BY <1>4, <1>5

\* A process that is killed while it has the lock takes with it what it has not
\* written: from then on only what the file has counts as made.
LEMMA KilledKeepsScores ==
  ASSUME TypeOK, IsFiniteSet(entered), Guarded, EntriesDiffer, ListKept,
         NEW p \in Procs, Killed(p)
  PROVE  EntriesDiffer' /\ ListKept' /\ entered' \subseteq entered
<1>1. /\ pc'[p] = "idle" /\ record' = record /\ ends' = ends
      /\ \A q \in Procs \ {p} : pc'[q] = pc[q] /\ ttlist'[q] = ttlist[q] /\ newtt'[q] = newtt[q]
  BY DEF TypeOK, Killed, Leaves, Goto, logs
<1>2. PICK list, kept : /\ list = record /\ list \in Seq(Entries)
                        /\ kept = {list[i] : i \in 1..Len(list)}
  BY DEF TypeOK
<1>3. kept \subseteq entered /\ GoodList(list, entered)
  BY <1>2 DEF ListKept, GoodList
<1>4. entered' \subseteq entered
  BY <1>2, <1>3 DEF Killed
<1>5. EntriesDiffer'
  BY <1>1, <1>4, EntriesStay DEF Scoring
<1>6. CASE record_lock = p
  <2>1. entered' = kept
    BY <1>2, <1>6 DEF Killed
  <2>2. \A q \in Procs \ {p} : pc[q] \notin Working
    BY <1>6 DEF Guarded
  <2>3. GoodList(list, kept)
    BY <1>2, <1>3 DEF GoodList
  <2>4. BestList(list, kept)
    <3>1. Cardinality(kept) = Len(list)
      BY <1>2, <1>3, CardOfList DEF GoodList
    <3>2. Len(list) = Least(Cardinality(kept), TTLISTLEN)
      BY <1>3, <3>1 DEF GoodList, Least
    <3>3. \A d \in kept : \E i \in 1..Len(list) : d = list[i]
      BY <1>2
    <3> QED
      BY <3>2, <3>3 DEF BestList
  <2>5. ListKept'
    BY <1>1, <1>2, <2>1, <2>2, <2>3, <2>4 DEF ListKept, Working
  <2> QED
    BY <1>4, <1>5, <2>5
<1>7. CASE record_lock # p
  <2>1. pc[p] \notin Working /\ entered' = entered
    BY <1>7 DEF Guarded, Killed
  <2>2. ListKept'
    BY <1>1, <2>1, ListStays DEF Working
  <2> QED
    BY <1>4, <1>5, <2>2
<1> QED
  BY <1>6, <1>7

LEMMA LeavingTypes ==
  ASSUME TypeOK, NEW p \in Procs, Leaves(p)
  PROVE  <<pc, game, newtt, ttlist, filename>>' \in
           [Procs -> Labels] \X [Procs -> Games \cup {0}] \X [Procs -> Entries]
             \X [Procs -> Seq(Entries)] \X [Procs -> {"save", "completed"}]
<1>1. NoEntry \in Entries
  BY GamesAssumption DEF NoEntry, Entries
<1>2. <<>> \in Seq(Entries)
  OBVIOUS
<1>3. pc' \in [Procs -> Labels]
  BY DEF TypeOK, Leaves, Goto, Labels, Both, Logged
<1>4. game' \in [Procs -> Games \cup {0}] /\ newtt' \in [Procs -> Entries]
  BY <1>1 DEF TypeOK, Leaves
<1>5. ttlist' \in [Procs -> Seq(Entries)] /\ filename' \in [Procs -> {"save", "completed"}]
  BY <1>2 DEF TypeOK, Leaves
<1> QED
  BY <1>3, <1>4, <1>5

LEMMA MishapTypes ==
  ASSUME TypeOK, Mishap \/ UNCHANGED mishaps
  PROVE  mishaps' \in 0..MaxMishaps
  BY GamesAssumption DEF TypeOK, Mishap

\* Every step keeps the types.
LEMMA TypesKept ==
  ASSUME TypeOK, HasGame, Guarded, ListKept, [Next]_vars
  PROVE  TypeOK'
<1> SUFFICES ASSUME NEW p \in Procs, Step(p) PROVE TypeOK'
  <2>1. UNCHANGED vars => TypeOK'
    BY DEF TypeOK, vars, engine, scores, logs, server
  <2> QED
    BY <2>1 DEF Next
<1>1. CASE \E g \in Games : Open(p, g)
  BY <1>1 DEF Open, At, Goto, TypeOK, scores, logs, server
<1>2. CASE AlreadyOver(p)
  BY <1>2, LeavingTypes DEF AlreadyOver, TypeOK, scores, logs, server, Labels, Both, Logged
<1>3. CASE Dies(p)
  BY <1>3 DEF Dies, At, Goto, TypeOK, scores, logs, server
<1>4. CASE Logs(p)
  <2>1. PICK g \in Games, n \in Nat : g = game[p] /\ n = ends[g]
    BY <1>4 DEF TypeOK, HasGame, Logs, At
  <2>2. [game |-> g, time |-> n + 1, name |-> NameOf[g], points |-> PointsOf[g]] \in Entries
    BY GamesAssumption DEF Entries
  <2>3. newtt' \in [Procs -> Entries]
    BY <1>4, <2>1, <2>2 DEF Logs, TypeOK
  <2>4. ends' \in [Games -> Nat]
    BY <1>4, <2>1 DEF Logs, TypeOK
  <2>5. logfile' \in [Games -> Written] /\ mishaps' \in 0..MaxMishaps
    <3>1. logfile \in [Games -> Written] /\ Attempts(logfile, g)
      BY <1>4, <2>1 DEF Logs, TypeOK, Written
    <3>2. Mishap \/ UNCHANGED mishaps
      BY <3>1 DEF Attempts
    <3>3. logfile' \in [Games -> Written]
      BY <3>1 DEF Attempts, Written
    <3> QED
      BY <3>2, <3>3, MishapTypes
  <2> QED
    BY <1>4, <2>3, <2>4, <2>5 DEF Logs, At, Goto, TypeOK, Written, server
<1>16. CASE LogsX(p)
  <2>1. xlogfile' \in [Games -> Written] /\ mishaps' \in 0..MaxMishaps
    <3>1. xlogfile \in [Games -> Written] /\ Attempts(xlogfile, game[p])
      BY <1>16 DEF LogsX, TypeOK, Written
    <3>2. Mishap \/ UNCHANGED mishaps
      BY <3>1 DEF Attempts
    <3>3. xlogfile' \in [Games -> Written]
      BY <3>1 DEF Attempts, Written
    <3> QED
      BY <3>2, <3>3, MishapTypes
  <2> QED
    BY <1>16, <2>1 DEF LogsX, At, Goto, TypeOK, Written, server
<1>5. CASE LocksRecord(p)
  BY <1>5 DEF LocksRecord, Goto, TypeOK, server, logs
<1>6. CASE UnlocksRecord(p)
  <2>1. <<>> \in Seq(Entries)
    OBVIOUS
  <2>2. ttlist' \in [Procs -> Seq(Entries)]
    BY <1>6, <2>1 DEF UnlocksRecord, TypeOK
  <2> QED
    BY <1>6, <2>2 DEF UnlocksRecord, At, Goto, TypeOK, server, logs
<1>7. CASE ReadsRecord(p)
  BY <1>7 DEF ReadsRecord, At, Goto, TypeOK, scores, logs, server
<1>8. CASE InsertsEntry(p)
  <2>1. PICK e \in Entries, list \in Seq(Entries) : e = newtt[p] /\ list = ttlist[p]
    BY DEF TypeOK
  <2>2. Len(list) <= TTLISTLEN
    BY <1>8, <2>1 DEF InsertsEntry, ListKept, TypeOK
  <2>3. toptenlist_insert(list, e) \in Seq(Entries)
    BY <2>2, InsertIs DEF toptenlist_insert
  <2>4. ttlist' \in [Procs -> Seq(Entries)]
    BY <1>8, <2>1, <2>3 DEF InsertsEntry, TypeOK
  <2> QED
    BY <1>8, <2>1, <2>4 DEF InsertsEntry, Goto, TypeOK, server, logs
<1>9. CASE TruncatesRecord(p)
  BY <1>9, ListAssumption DEF TruncatesRecord, At, Goto, TypeOK, server, logs
<1>10. CASE TellsClient(p)
  BY <1>10 DEF TellsClient, FileFromRow, At, Goto, TypeOK, scores, logs, server
<1>11. CASE AddsEntry(p)
  <2>1. topten' \in [Games -> Written] /\ mishaps' \in 0..MaxMishaps
    <3>1. topten \in [Games -> Written] /\ Attempts(topten, game[p])
      BY <1>11 DEF AddsEntry, TypeOK, Written
    <3>2. Mishap \/ UNCHANGED mishaps
      BY <3>1 DEF Attempts
    <3>3. topten' \in [Games -> Written]
      BY <3>1 DEF Attempts, Written
    <3> QED
      BY <3>2, <3>3, MishapTypes
  <2> QED
    BY <1>11, <2>1 DEF AddsEntry, At, Goto, TypeOK, Written, scores, logs
<1>12. CASE SetsDone(p)
  <2>1. done' \in [Games -> BOOLEAN] /\ mishaps' \in 0..MaxMishaps
    <3>1. Mishap \/ UNCHANGED mishaps
      BY <1>12 DEF SetsDone
    <3>2. done' \in [Games -> BOOLEAN]
      BY <1>12 DEF SetsDone, TypeOK
    <3> QED
      BY <3>1, <3>2, MishapTypes
  <2> QED
    BY <1>12, <2>1 DEF SetsDone, At, Goto, TypeOK, scores, logs
<1>13. CASE MovesFile(p)
  <2>1. dir' \in [Games -> {"save", "completed"}]
    BY <1>13 DEF MovesFile, FileFromRow, TypeOK
  <2> QED
    BY <1>13, <2>1, LeavingTypes DEF MovesFile, TypeOK, scores, logs, Labels, Both, Logged
<1>14. CASE Killed(p)
  <2>1. {record[i] : i \in 1..Len(record)} \subseteq Entries
    <3>1. \A i \in 1..Len(record) : record[i] \in Entries
      BY ElementOfSeq DEF TypeOK
    <3> QED
      BY <3>1
  <2>2. entered' \subseteq Entries
    BY <1>14, <2>1 DEF Killed, TypeOK
  <2> QED
    <3>1. mishaps' \in 0..MaxMishaps
      BY <1>14, GamesAssumption DEF Killed, Mishap, TypeOK
    <3>2. record_lock' \in Procs \cup {Nobody}
      BY <1>14 DEF Killed, TypeOK
    <3> QED
      BY <1>14, <2>2, <3>1, <3>2, LeavingTypes DEF Killed, TypeOK, logs, server, Labels, Both, Logged
<1>15. CASE WritesEntry(p)
  <2>1. record' \in Seq(Entries) /\ Len(record') <= TTLISTLEN
    BY <1>15, WritesKeepsList
  <2>2. pc' \in [Procs -> Labels]
    <3>1. pc \in [Procs -> Labels]
      BY DEF TypeOK, Labels, Both, Logged
    <3>2. pc' = pc \/ Goto(p, "unlock")
      BY <1>15 DEF WritesEntry
    <3> QED
      BY <3>1, <3>2 DEF Goto, Labels, Both, Logged
  <2> QED
    BY <1>15, <2>1, <2>2 DEF WritesEntry, TypeOK, server, Labels, Both, Logged, logs
<1> QED
  BY <1>1, <1>2, <1>3, <1>4, <1>5, <1>6, <1>7, <1>8,
     <1>9, <1>10, <1>11, <1>12, <1>13, <1>14, <1>15, <1>16 DEF Step

\* Every step of every process keeps the invariant of the score list.
LEMMA ScoreKept ==
  ASSUME HasGame, ScoreInv, [Next]_vars
  PROVE  ScoreInv'
<1>1. TypeOK' /\ Guarded'
  <2>1. LockTypes
    BY DEF ScoreInv, TypeOK, LockTypes, Labels, Both, Logged
  <2> QED
    BY <2>1, TypesKept, GuardedKept DEF ScoreInv
<1>2. CASE UNCHANGED vars
  BY <1>1, <1>2, EntriesStay, ListStays DEF ScoreInv, vars, engine, scores, logs, Scoring
<1>3. ASSUME NEW p \in Procs, Step(p)
      PROVE  IsFiniteSet(entered') /\ EntriesDiffer' /\ ListKept'
  <2> USE DEF ScoreInv
  <2>1. CASE \E g \in Games : Open(p, g)
    <3>1. PICK g \in Games : Open(p, g)
      BY <2>1
    <3>2. /\ pc[p] = "idle" /\ pc'[p] = "playing" /\ UNCHANGED <<newtt, ttlist, scores>>
          /\ \A q \in Procs \ {p} : pc'[q] = pc[q]
      BY <3>1 DEF Open, At, Goto, TypeOK
    <3> QED
      BY <3>2, EntriesStay, ListStays DEF scores, logs, Scoring
  <2>2. CASE AlreadyOver(p) \/ MovesFile(p)
    <3>1. /\ pc[p] \in {"playing", "rename"} /\ pc'[p] = "idle" /\ UNCHANGED scores
          /\ \A q \in Procs \ {p} :
               pc'[q] = pc[q] /\ ttlist'[q] = ttlist[q] /\ newtt'[q] = newtt[q]
      BY <2>2 DEF AlreadyOver, MovesFile, Leaves, Goto, TypeOK
    <3> QED
      BY <3>1, EntriesStay, ListStays DEF scores, logs, Scoring
  <2>3. CASE Dies(p)
    <3>1. /\ pc[p] = "playing" /\ pc'[p] = "log" /\ UNCHANGED <<newtt, ttlist, scores>>
          /\ \A q \in Procs \ {p} : pc'[q] = pc[q]
      BY <2>3 DEF Dies, At, Goto, TypeOK
    <3> QED
      BY <3>1, EntriesStay, ListStays DEF scores, logs, Scoring
  <2>4. CASE Logs(p)
    <3>1. /\ pc[p] = "log" /\ pc'[p] = "xlog"
          /\ UNCHANGED <<ttlist, record, entered>>
          /\ \A q \in Procs \ {p} : pc'[q] = pc[q]
      BY <2>4 DEF Logs, At, Goto, TypeOK
    <3> QED
      BY <2>4, <3>1, LogsDiffers, ListStays
  <2>13. CASE LogsX(p)
    <3>1. /\ pc[p] = "xlog" /\ pc'[p] \in {"return", "record"}
          /\ UNCHANGED <<newtt, ttlist, ends, record, entered>>
          /\ \A q \in Procs \ {p} : pc'[q] = pc[q]
      BY <2>13 DEF LogsX, At, Goto, TypeOK
    <3> QED
      BY <3>1, EntriesStay, ListStays DEF Scoring
  <2>5. CASE LocksRecord(p)
    <3>1. /\ pc[p] = "record" /\ pc'[p] \in {"read", "return"}
          /\ UNCHANGED <<newtt, ttlist, ends, record, entered>>
          /\ \A q \in Procs \ {p} : pc'[q] = pc[q]
      BY <2>5 DEF LocksRecord, Goto, TypeOK, logs
    <3> QED
      BY <3>1, EntriesStay, ListStays DEF Scoring
  <2>6. CASE ReadsRecord(p)
    <3>1. /\ pc[p] = "read" /\ pc'[p] = "insert" /\ UNCHANGED <<newtt, scores>>
          /\ \A q \in Procs \ {p} : pc'[q] = pc[q]
      BY <2>6 DEF ReadsRecord, At, Goto, TypeOK
    <3> QED
      BY <2>6, <3>1, EntriesStay, ReadsKeepsList DEF scores, logs, Scoring
  <2>7. CASE InsertsEntry(p)
    <3>1. IsFiniteSet(entered')
      BY <2>7, FS_AddElement DEF InsertsEntry
    <3> QED
      BY <2>7, <3>1, InsertsDiffers, InsertsKeepsList
  <2>8. CASE TruncatesRecord(p)
    <3>1. /\ pc[p] = "truncate" /\ pc'[p] = "write" /\ UNCHANGED <<newtt, ends, entered>>
          /\ \A q \in Procs \ {p} : pc'[q] = pc[q]
      BY <2>8 DEF TruncatesRecord, At, Goto, TypeOK, logs
    <3> QED
      BY <2>8, <3>1, EntriesStay, TruncatesKeepsList DEF Scoring
  <2>9. CASE WritesEntry(p)
    <3>1. /\ pc'[p] \in {"write", "unlock"} /\ UNCHANGED <<newtt, ends, entered>>
          /\ \A q \in Procs \ {p} : pc'[q] = pc[q]
      BY <2>9 DEF WritesEntry, Goto, TypeOK, logs
    <3> QED
      BY <2>9, <3>1, EntriesStay, WritesKeepsList DEF Scoring
  <2>10. CASE UnlocksRecord(p)
    <3>1. /\ pc[p] = "unlock" /\ pc'[p] = "return"
          /\ UNCHANGED <<newtt, ends, record, entered>>
          /\ \A q \in Procs \ {p} : pc'[q] = pc[q] /\ ttlist'[q] = ttlist[q]
      BY <2>10 DEF UnlocksRecord, At, Goto, TypeOK, logs
    <3> QED
      BY <3>1, EntriesStay, ListStays DEF Scoring
  <2>11. CASE TellsClient(p) \/ AddsEntry(p) \/ SetsDone(p)
    <3>1. /\ pc[p] \in {"return", "add_entry", "set_done"}
          /\ pc'[p] \in {"add_entry", "set_done", "rename"}
          /\ UNCHANGED <<newtt, ttlist, scores>>
          /\ \A q \in Procs \ {p} : pc'[q] = pc[q]
      BY <2>11 DEF TellsClient, AddsEntry, SetsDone, At, Goto, TypeOK
    <3> QED
      BY <3>1, EntriesStay, ListStays DEF scores, logs, Scoring
  <2>12. CASE Killed(p)
    BY <2>12, KilledKeepsScores, FS_Subset
  <2> QED
    BY <1>3, <2>1, <2>2, <2>3, <2>4, <2>5, <2>6, <2>7, <2>8, <2>9, <2>10, <2>11, <2>12,
       <2>13 DEF Step
<1> QED
  BY <1>1, <1>2, <1>3 DEF Next, ScoreInv

LEMMA InitScores == Init => ScoreInv
<1> SUFFICES ASSUME Init PROVE ScoreInv
  OBVIOUS
<1>1. IsFiniteSet({}) /\ Cardinality({}) = 0
  BY FS_EmptySet
<1>2. NoEntry \in Entries /\ <<>> \in Seq(Entries)
  BY GamesAssumption DEF NoEntry, Entries
<1>3. TypeOK
  <2>1. 0 \in 0..MaxMishaps /\ Len(<<>>) <= TTLISTLEN
    BY GamesAssumption, ListAssumption
  <2> QED
    BY <1>2, <2>1 DEF Init, TypeOK
<1>4. Guarded /\ EntriesDiffer
  BY DEF Init, Guarded, EntriesDiffer, Working, Scoring
<1>5. GoodList(record, entered) /\ BestList(record, entered)
  BY <1>1, ListAssumption DEF Init, GoodList, BestList, Sorted, Least
<1>6. ListKept
  BY <1>5 DEF Init, ListKept
<1> QED
  BY <1>1, <1>3, <1>4, <1>6 DEF Init, ScoreInv

\* The types, the lock of the record file, and what the record file and the lists
\* in memory are worth (topten.c:450-566), for any number of processes.
THEOREM ScoreInvariance == Spec => []ScoreInv
<1>1. EndInv => HasGame
  BY DEF EndInv
<1> QED
  BY <1>1, InitScores, ScoreKept, SpecEnd, PTL DEF Spec

\* Whenever nobody has the lock, the record file has the best entries of all that
\* were made, as long as they are no more than one player may have.
THEOREM NoScoreLostHolds == Spec => []NoScoreLost
<1>1. ASSUME ScoreInv PROVE NoScoreLost
  <2> SUFFICES ASSUME record_lock = Nobody, Cardinality(entered) <= PLAYERMAX
               PROVE  LET kept == {record[i] : i \in 1..Len(record)}
                      IN  /\ kept \subseteq entered
                          /\ Cardinality(kept) = Len(record)
                          /\ Len(record) = Least(Cardinality(entered), TTLISTLEN)
                          /\ \A e \in entered \ kept, k \in kept : e.points <= k.points
                          /\ Sorted(record)
    BY DEF NoScoreLost
  <2>1. \A p \in Procs : pc[p] \notin Working
    BY <1>1, ProcsAssumption DEF ScoreInv, Guarded
  <2>2. GoodList(record, entered) /\ BestList(record, entered)
    BY <1>1, <2>1 DEF ScoreInv, ListKept, Working
  <2>3. Cardinality({record[i] : i \in 1..Len(record)}) = Len(record)
    BY <1>1, <2>2, CardOfList DEF ScoreInv, TypeOK, GoodList
  <2> QED
    BY <2>2, <2>3 DEF GoodList, BestList
<1> QED
  BY <1>1, ScoreInvariance, PTL
================================================================================
