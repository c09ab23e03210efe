-------------------------------- MODULE GameEnd --------------------------------
(****************************************************************************)
(* The end of a game, after the save file says that it is over (SaveLog     *)
(* models what comes before): the log files and the score list that all     *)
(* games share (end.c, topten.c), and then the database and the place of    *)
(* the save file (clientcmd.c, db_pgsql.c).  Processes may die between any  *)
(* two steps; a game whose file says "done" and whose row does not is ended *)
(* again by the next process that opens it, even if the first is not dead.  *)
(****************************************************************************)
EXTENDS TopTen

CONSTANTS
  Procs,       \* server processes
  Games,       \* games, as numbers
  NameOf,      \* the character's name, by game
  NoName,      \* the name in an entry that is not filled in
  PointsOf,    \* its points at the end, by game
  Unscored,    \* games in a mode that makes no score
  MaxMishaps   \* processes killed in the middle and writes that fail, all told

ASSUME GamesAssumption ==
  /\ Games \subseteq Nat \ {0}
  /\ NameOf \in [Games -> STRING] /\ NoName \in STRING /\ PointsOf \in [Games -> Nat \ {0}]
  /\ Unscored \subseteq Games /\ MaxMishaps \in Nat

NoEntry == [game |-> 0, time |-> 0, name |-> NoName, points |-> 0]

VARIABLES
  \* Each process: what it does next, its game, and what it holds.
  pc, game,
  newtt,       \* its entry for the score list
  ttlist,      \* the score list that it has read
  filename,    \* where it believes the save file to be
  \* The state of each save file.
  status,      \* "save" or "done"
  \* The score files.
  ends,        \* how often each game has ended: what tells its entries apart
  logfile, xlogfile,   \* by game: "written", "failed" or "none" yet
  record, record_lock, entered,
  \* The database and the directories of save files.
  topten,      \* by game, as the log files
  done, dir,
  mishaps

engine == <<pc, game, newtt, ttlist, filename>>
logs   == <<ends, logfile, xlogfile>>
scores == <<logs, record, record_lock, entered>>
server == <<topten, done, dir>>
vars   == <<engine, status, scores, server, mishaps>>

Nobody == "nobody"

ASSUME ProcsAssumption == Nobody \notin Procs

Init ==
  /\ pc = [p \in Procs |-> "idle"] /\ game = [p \in Procs |-> 0]
  /\ newtt = [p \in Procs |-> NoEntry] /\ ttlist = [p \in Procs |-> <<>>]
  /\ filename = [p \in Procs |-> "save"]
  /\ status = [g \in Games |-> "save"]
  /\ ends = [g \in Games |-> 0]
  /\ logfile = [g \in Games |-> "none"] /\ xlogfile = [g \in Games |-> "none"]
  /\ record = <<>> /\ record_lock = Nobody /\ entered = {}
  /\ topten = [g \in Games |-> "none"] /\ done = [g \in Games |-> FALSE]
  /\ dir = [g \in Games |-> "save"]
  /\ mishaps = 0

Goto(p, label) == pc' = [pc EXCEPT ![p] = label]
At(p, label, next) == pc[p] = label /\ Goto(p, next)

Mishap == mishaps < MaxMishaps /\ mishaps' = mishaps + 1

\* The game's line or row is written; or that fails, and the process goes on all the
\* same: the lock could not be had in 10 seconds, or the database refused.
Attempts(file, g) ==
  \/ file' = [file EXCEPT ![g] = "written"] /\ UNCHANGED mishaps
  \/ /\ Mishap
     /\ file' = [file EXCEPT ![g] = IF @ = "written" THEN @ ELSE "failed"]

\* The process has no game any more.
Leaves(p) ==
  /\ Goto(p, "idle")
  /\ game' = [game EXCEPT ![p] = 0]
  /\ newtt' = [newtt EXCEPT ![p] = NoEntry]
  /\ ttlist' = [ttlist EXCEPT ![p] = <<>>] /\ filename' = [filename EXCEPT ![p] = "save"]

--------------------------------------------------------------------------------
(****************************************************************************)
(* ccmd_play_game, up to nh_play_game, and playing.                         *)
(****************************************************************************)

\* A game that the database calls incomplete is in the save directory.  If its
\* file says that it is over, FM_RECOVERQUIT takes it back to before its end.
Open(p, g) ==
  /\ At(p, "idle", "playing")
  /\ ~done[g] /\ dir[g] = "save"
  /\ game' = [game EXCEPT ![p] = g]
  /\ status' = [status EXCEPT ![g] = "save"]
  /\ UNCHANGED <<newtt, ttlist, filename, scores, server, mishaps>>

\* Somebody else has ended the game: this process has nothing to end any more.
AlreadyOver(p) ==
  /\ pc[p] = "playing" /\ status[game[p]] = "done"
  /\ Leaves(p)
  /\ UNCHANGED <<status, scores, server, mishaps>>

--------------------------------------------------------------------------------
(****************************************************************************)
(* done_noreturn, from log_game_over on.                                    *)
(****************************************************************************)

\* log_game_over; in FM_RECOVERQUIT the replay has led to the end again.
Dies(p) ==
  /\ At(p, "playing", "log") /\ status[game[p]] = "save"
  /\ status' = [status EXCEPT ![game[p]] = "done"]
  /\ UNCHANGED <<game, newtt, ttlist, filename, scores, server, mishaps>>

\* update_topten: the entry; update_log appends it, under a lock...
Logs(p) ==
  /\ At(p, "log", "xlog")
  /\ Attempts(logfile, game[p])
  /\ ends' = [ends EXCEPT ![game[p]] = @ + 1]
  /\ newtt' = [newtt EXCEPT ![p] =
                 [game |-> game[p], time |-> ends[game[p]] + 1,
                  name |-> NameOf[game[p]], points |-> PointsOf[game[p]]]]
  /\ UNCHANGED <<game, ttlist, filename, status, xlogfile, record, record_lock, entered,
                 server>>

\* ...and update_xlog, under another.
LogsX(p) ==
  /\ At(p, "xlog", IF game[p] \in Unscored THEN "return" ELSE "record")
  /\ Attempts(xlogfile, game[p])
  /\ UNCHANGED <<game, newtt, ttlist, filename, status, ends, logfile, record,
                 record_lock, entered, server>>

\* Mutant of LocksRecord: nobody waits for the lock.
LocksRecord_Ignores(p) ==
  /\ At(p, "record", "read")
  /\ record_lock' = p
  /\ UNCHANGED <<game, newtt, ttlist, filename, status, logs, record, entered, server,
                 mishaps>>

\* The record file is locked; who cannot get the lock in time leaves it alone.
LocksRecord(p) ==
  /\ pc[p] = "record"
  /\ \/ /\ record_lock = Nobody /\ record_lock' = p /\ Goto(p, "read")
     \/ record_lock # Nobody /\ Goto(p, "return") /\ UNCHANGED record_lock
  /\ UNCHANGED <<game, newtt, ttlist, filename, status, logs, record, entered, server,
                 mishaps>>

ReadsRecord(p) ==
  /\ At(p, "read", "insert")
  /\ ttlist' = [ttlist EXCEPT ![p] = record]
  /\ UNCHANGED <<game, newtt, filename, status, scores, server, mishaps>>

\* toptenlist_insert; the file is only written if the list has changed.
InsertsEntry(p) ==
  /\ pc[p] = "insert"
  /\ Goto(p, IF GetsOnList(ttlist[p], newtt[p]) THEN "truncate" ELSE "unlock")
  /\ ttlist' = [ttlist EXCEPT ![p] = toptenlist_insert(@, newtt[p])]
  /\ entered' = entered \cup {newtt[p]}
  /\ UNCHANGED <<game, newtt, filename, status, logs, record, record_lock, server, mishaps>>

\* write_topten empties the file...
TruncatesRecord(p) ==
  /\ At(p, "truncate", "write")
  /\ record' = <<>>
  /\ UNCHANGED <<game, newtt, ttlist, filename, status, logs, record_lock, entered,
                 server, mishaps>>

\* ...and writes one entry after the other.
WritesEntry(p) ==
  /\ pc[p] = "write"
  /\ IF Len(record) < Len(ttlist[p])
     THEN record' = Append(record, ttlist[p][Len(record) + 1]) /\ UNCHANGED pc
     ELSE Goto(p, "unlock") /\ UNCHANGED record
  /\ UNCHANGED <<game, newtt, ttlist, filename, status, logs, record_lock, entered,
                 server, mishaps>>

UnlocksRecord(p) ==
  /\ At(p, "unlock", "return")
  /\ record_lock' = Nobody
  /\ ttlist' = [ttlist EXCEPT ![p] = <<>>]
  /\ UNCHANGED <<game, newtt, filename, status, logs, record, entered, server, mishaps>>

--------------------------------------------------------------------------------
(****************************************************************************)
(* ccmd_play_game, after nh_play_game returned GAME_OVER: the message to    *)
(* the client goes first (if it cannot be sent, the process ends there).    *)
(****************************************************************************)

FileFromRow(g) == IF done[g] THEN "completed" ELSE "save"

\* Mutant of TellsClient: the row is set before the entry is added.
TellsClient_SetsDone(p) ==
  /\ At(p, "return", "add_entry")
  /\ filename' = [filename EXCEPT ![p] = FileFromRow(game[p])]
  /\ done' = [done EXCEPT ![game[p]] = TRUE]
  /\ UNCHANGED <<game, newtt, ttlist, status, scores, topten, dir, mishaps>>

TellsClient(p) ==
  /\ At(p, "return", "add_entry")
  /\ filename' = [filename EXCEPT ![p] = FileFromRow(game[p])]
  /\ UNCHANGED <<game, newtt, ttlist, status, scores, server, mishaps>>

\* Mutant of AddsEntry: the file is moved first.
AddsEntry_Moves(p) ==
  /\ At(p, "add_entry", "set_done")
  /\ topten' = [topten EXCEPT ![game[p]] = "written"]
  /\ dir' = [dir EXCEPT ![game[p]] = "completed"]
  /\ UNCHANGED <<game, newtt, ttlist, filename, status, scores, done, mishaps>>

\* db_add_topten_entry: two statements, each committed on its own; that one of them
\* failed is only written to the server's log.
AddsEntry(p) ==
  /\ At(p, "add_entry", "set_done")
  /\ Attempts(topten, game[p])
  /\ UNCHANGED <<game, newtt, ttlist, filename, status, scores, done, dir>>

SetsDone(p) ==
  /\ At(p, "set_done", "rename")
  /\ \/ done' = [done EXCEPT ![game[p]] = TRUE] /\ UNCHANGED mishaps
     \/ Mishap /\ UNCHANGED done
  /\ UNCHANGED <<game, newtt, ttlist, filename, status, scores, topten, dir>>

\* rename; it fails if the file is not where the process believes it to be.
MovesFile(p) ==
  /\ pc[p] = "rename" /\ Leaves(p)
  /\ dir' = [dir EXCEPT ![game[p]] =
               IF @ = filename[p] THEN FileFromRow(game[p]) ELSE @]
  /\ UNCHANGED <<status, scores, topten, done, mishaps>>

--------------------------------------------------------------------------------

\* The process is killed, or cannot tell its client, or the machine goes down; or it
\* cannot ask the database where the file is, and leaves it at that.
Killed(p) ==
  /\ pc[p] # "idle" /\ Mishap /\ Leaves(p)
  /\ record_lock' = IF record_lock = p THEN Nobody ELSE record_lock
  /\ entered' = IF record_lock = p
                THEN {record[i] : i \in 1..Len(record)} ELSE entered
  /\ UNCHANGED <<status, logs, record, server>>

Step(p) ==
  \/ \E g \in Games : Open(p, g)
  \/ AlreadyOver(p) \/ Dies(p)
  \/ Logs(p) \/ LogsX(p) \/ LocksRecord(p) \/ ReadsRecord(p) \/ InsertsEntry(p)
  \/ TruncatesRecord(p) \/ WritesEntry(p) \/ UnlocksRecord(p)
  \/ TellsClient(p) \/ AddsEntry(p) \/ SetsDone(p) \/ MovesFile(p)
  \/ Killed(p)

Next == \E p \in Procs : Step(p)

Spec == Init /\ [][Next]_vars

--------------------------------------------------------------------------------

TypeOK ==
  /\ pc \in [Procs -> {"idle", "playing", "log", "xlog", "record", "read", "insert",
                       "truncate", "write", "unlock", "return", "add_entry", "set_done",
                       "rename"}]
  /\ game \in [Procs -> Games \cup {0}]
  /\ newtt \in [Procs -> Entries] /\ ttlist \in [Procs -> Seq(Entries)]
  /\ filename \in [Procs -> {"save", "completed"}]
  /\ status \in [Games -> {"save", "done"}]
  /\ ends \in [Games -> Nat]
  /\ {logfile, xlogfile, topten} \subseteq [Games -> {"none", "failed", "written"}]
  /\ record \in Seq(Entries) /\ Len(record) <= TTLISTLEN
  /\ record_lock \in Procs \cup {Nobody} /\ entered \subseteq Entries
  /\ done \in [Games -> BOOLEAN]
  /\ dir \in [Games -> {"save", "completed"}]
  /\ mishaps \in 0..MaxMishaps

\* A game that the database does not call done can be opened, and so ended again:
\* its file is in the directory where ccmd_play_game looks for it, whichever step
\* of the end was the last one, and however many processes ended it.
UnfinishedHasFile == \A g \in Games : ~done[g] => dir[g] = "save"

\* What the database calls done has its lines in logfile and xlogfile and its row in
\* topten, but for those whose own writing failed (the code then goes on without): a
\* process that dies on the way leaves a game that is ended again, never one whose
\* result nobody tried to record.
DoneIsRecorded == \A g \in Games : done[g] =>
  logfile[g] # "none" /\ xlogfile[g] # "none" /\ topten[g] # "none"

\* The record file holds the best of all entries that were ever made for it, as
\* long as there are no more of them than one player may have: no process works on
\* a list that another one has changed since.  (The entries of a process killed in
\* the middle of writing are lost, and so is the rest of the list.)
NoScoreLost ==
  record_lock = Nobody /\ Cardinality(entered) <= PLAYERMAX =>
    LET kept == {record[i] : i \in 1..Len(record)}
    IN  /\ kept \subseteq entered
        /\ Cardinality(kept) = Len(record)
        /\ Len(record) = Least(Cardinality(entered), TTLISTLEN)
        /\ \A e \in entered \ kept, k \in kept : e.points <= k.points
        /\ Sorted(record)

\* "maximum number of highscore entries per player" (topten.c:21): the list has at
\* most PLAYERMAX entries of one name.
PlayerMaxKept == \A g \in Games :
  Cardinality({i \in 1..Len(record) : record[i].name = NameOf[g]}) <= PLAYERMAX

--------------------------------------------------------------------------------
(* The inductive invariant of the score list. *)

Scoring == {"xlog", "record", "read", "insert"}
Working == {"read", "insert", "truncate", "write", "unlock"}

\* Whoever is between locking and unlocking has the lock.
Guarded == \A p \in Procs : pc[p] \in Working => record_lock = p

\* No two entries are the same: each is of its own end of a game.
EntriesDiffer ==
  /\ \A e \in entered : e.game \in Games /\ e.time <= ends[e.game]
  /\ \A p \in Procs : pc[p] \in Scoring =>
       /\ newtt[p].game \in Games /\ newtt[p].time <= ends[newtt[p].game]
       /\ newtt[p] \notin entered
       /\ \A q \in Procs \ {p} : pc[q] \in Scoring => newtt[q] # newtt[p]

\* A list of entries that were made is sorted, has room for them, and none twice.
GoodList(list, made) ==
  /\ Len(list) <= TTLISTLEN /\ Sorted(list)
  /\ \A i, j \in 1..Len(list) : list[i] = list[j] => i = j
  /\ \A i \in 1..Len(list) : list[i] \in made

\* It has all that were made, or as many as it has room for, and no better one is
\* missing.
BestList(list, made) == Cardinality(made) <= PLAYERMAX =>
  /\ Len(list) = Least(Cardinality(made), TTLISTLEN)
  /\ \A e \in made : \/ \E i \in 1..Len(list) : e = list[i]
                     \/ \A i \in 1..Len(list) : e.points <= list[i].points

\* The record file is good, and the best between two changes; while a process
\* changes it, the list that it has in memory is.
ListKept ==
  /\ GoodList(record, entered)
  /\ (\A p \in Procs : pc[p] \notin {"truncate", "write"}) => BestList(record, entered)
  /\ \A p \in Procs :
       /\ pc[p] = "insert" => ttlist[p] = record
       /\ pc[p] \in {"truncate", "write"} =>
            GoodList(ttlist[p], entered) /\ BestList(ttlist[p], entered)
       /\ pc[p] = "write" => /\ Len(record) <= Len(ttlist[p])
                             /\ \A i \in 1..Len(record) : record[i] = ttlist[p][i]

ScoreInv == TypeOK /\ IsFiniteSet(entered) /\ Guarded /\ EntriesDiffer /\ ListKept
================================================================================
