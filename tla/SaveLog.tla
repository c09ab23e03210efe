------------------------------ MODULE SaveLog ------------------------------
(***************************************************************************)
(* The NetHack 4 save file and the processes that play, watch and finish   *)
(* one game through it (libnethack/src/log.c).                             *)
(*                                                                         *)
(* The file is a log of lines.  Every input a turn consumed is a line, and *)
(* every finished turn ends with a save line: a whole binary save ("*",    *)
(* kind "full") or a difference against the previous save line ("~", kind  *)
(* "diff").  Any number of processes have the file open; each one keeps    *)
(* its own idea (view) of how much of the file its engine has consumed.    *)
(*                                                                         *)
(* Offsets.  A byte offset of the code is the number of lines in front of  *)
(* it: line n of the sequence starts at offset n-1, and Len(lines) is the  *)
(* end of the last whole line.  The two header lines are status and        *)
(* rcount.  partial says that bytes of an unfinished line follow.          *)
(*                                                                         *)
(* The engine is deterministic: its state is the sequence of input values  *)
(* it has consumed since the game was created.  Each line carries, next to *)
(* what is on disk, the ghost field after: the engine state that the file  *)
(* up to and including this line denotes.  Only properties read it.        *)
(*                                                                         *)
(* One step is one locked section of the code (change_fd_lock ...          *)
(* change_fd_lock); the lock itself is the subject of FdLock.              *)
(***************************************************************************)
EXTENDS Integers, Sequences, FiniteSets

CONSTANTS
  Players,        \* processes that open the game with FM_PLAY
  Watchers,       \* processes that open the game with FM_WATCH
  Commands,       \* commands that take time
  Answers,        \* answers to prompts (and time lines)
  Prompts,        \* Prompts[c]: lines command c reads before its turn ends
  Deadly,         \* commands at the end of which the character dies
  Garble,         \* marks the engine state after a diff that is wrong, or on a wrong base
  NoCommand,
  MaxLines,       \* bound on the length of the file
  MaxRecoveries,  \* bound on the recovery count
  MaxCrashes,     \* bound on the number of killed processes
  MaxPanics       \* bound on the number of panic()s

Procs  == Players \cup Watchers
Values == Commands \cup Answers

ASSUME ProcessAssumption ==
  /\ Players \cap Watchers = {}
  /\ IsFiniteSet(Procs)
ASSUME ValueAssumption ==
  /\ Commands \cap Answers = {}
  /\ Garble \notin Values
  /\ NoCommand \notin Commands
  /\ Deadly \subseteq Commands
  /\ Prompts \in [Commands -> Nat]
ASSUME BoundAssumption ==
  /\ MaxLines \in Nat
  /\ MaxRecoveries \in Nat
  /\ MaxCrashes \in Nat
  /\ MaxPanics \in Nat

VARIABLES
  lines,    \* the whole lines of the file, from the first save backup on
  partial,  \* TRUE if bytes of an unfinished line follow them
  status,   \* the status field of the header: "save" or "done"
  rcount,   \* the recovery count of the header
  hint,     \* the hint in the first save backup: offset of the last one
  finished, \* how many sessions have returned GAME_OVER; the server marks
            \* the game done in its database at the first of them
  declined, \* ghost: a recovery menu has closed and cut nothing off
  pc,       \* where each process is
  view,     \* program_state of each process
  crashes, panics

fileVars == <<lines, partial, status, rcount, hint>>
envVars  == <<crashes, panics>>
outcomeVars == <<finished, declined>>
vars     == <<fileVars, outcomeVars, pc, view, envVars>>

-----------------------------------------------------------------------------
(* The file. *)

State == Seq(Values \cup {Garble})

\* kind "spoilt": a diff as well, but one that does not give the save back.
Line == [kind  : {"input", "Q", "full", "diff", "spoilt"},
         val   : Values \cup {NoCommand},   \* an input line's value
         snap  : State,                     \* a save line's contents ...
         base  : State,                     \* ... and what a diff is against
         after : State]                     \* ghost

IsSave(l) == l.kind \in {"full", "diff", "spoilt"}

\* What the file denotes up to offset n.
After(n) == IF n \in 1..Len(lines) THEN lines[n].after ELSE <<>>

EOF == Len(lines)

\* lgetline_malloc at offset n: a line, nothing, or an unfinished line.
LineAt(n)    == lines[n + 1]
HasLine(n)   == n < EOF
PartialAt(n) == n = EOF /\ partial
NothingAt(n) == ~HasLine(n) /\ ~PartialAt(n)

InputLine(v) ==
  [kind |-> "input", val |-> v, snap |-> <<>>, base |-> <<>>,
   after |-> Append(After(EOF), v)]
QuitLine ==
  [kind |-> "Q", val |-> NoCommand, snap |-> <<>>, base |-> <<>>,
   after |-> After(EOF)]
FullLine(s) ==
  [kind |-> "full", val |-> NoCommand, snap |-> s, base |-> <<>>,
   after |-> After(EOF)]
DiffLine(s, b) ==
  [kind |-> "diff", val |-> NoCommand, snap |-> s, base |-> b,
   after |-> After(EOF)]
\* Who loads a spoilt diff goes on from whatever it gives.
SpoiltLine(b) ==
  [kind |-> "spoilt", val |-> NoCommand, snap |-> <<Garble>>, base |-> b,
   after |-> <<Garble>>]

\* get_save_backup_offset(n) >= 0
IsBackupAt(n) == HasLine(n) /\ LineAt(n).kind = "full"

-----------------------------------------------------------------------------
(* A process's program_state. *)

\* mode      followmode
\* eogs      end_of_gamestate_location: how far the engine has consumed
\* bsl, sbl  binary_save_location, save_backup_location
\* expected  expected_recovery_count
\* engine    the game state
\* bin       binary_save
\* cmd, todo the command being executed, how many lines it still reads
\* roff      the offset log_recover_core was called with
View == [mode : {"none", "play", "watch", "recoverquit"},
         eogs : Nat, bsl : Nat, sbl : Nat, expected : Nat,
         engine : State, bin : State,
         cmd : Commands \cup {NoCommand}, todo : Nat, roff : Nat]

NoView == [mode |-> "none", eogs |-> 0, bsl |-> 0, sbl |-> 0,
           expected |-> 0, engine |-> <<>>, bin |-> <<>>,
           cmd |-> NoCommand, todo |-> 0, roff |-> 0]

Status == {"save", "done"}
Place  == {"off", "restart",       \* no session; a session about to reopen
           "undo", "unquit",       \* log_maybe_undo_quit: read; recover
           "sync", "backup", "scan",  \* log_sync
           "ready", "askready",    \* wants a command: from the file, the user
           "turn", "askturn",      \* wants a line for the current command
           "neutral", "saveline",  \* log_neutral_turnstate
           "dead", "over", "ended",   \* done_noreturn
           "recover"}              \* log_recover_core's menu is open

TypeOK ==
  /\ lines \in Seq(Line)
  /\ partial \in BOOLEAN
  /\ status \in Status
  /\ rcount \in Nat
  /\ hint \in Nat
  /\ finished \in Nat
  /\ declined \in BOOLEAN
  /\ pc \in [Procs -> Place]
  /\ view \in [Procs -> View]
  /\ crashes \in Nat
  /\ panics \in Nat

\* log_newgame and the first log_backup_save: a new file holds one backup.
Init ==
  /\ lines = << [kind |-> "full", val |-> NoCommand, snap |-> <<>>,
                 base |-> <<>>, after |-> <<>>] >>
  /\ partial = FALSE
  /\ status = "save"
  /\ rcount = 1
  /\ hint = 0
  /\ finished = 0
  /\ declined = FALSE
  /\ pc = [p \in Procs |-> "off"]
  /\ view = [p \in Procs |-> NoView]
  /\ crashes = 0
  /\ panics = 0

Goto(p, place) == pc' = [pc EXCEPT ![p] = place]

\* terminate(): log_uninit forgets everything.  "restart" is RESTART_PLAY,
\* after which the client calls nh_play_game again; "off" is any other status.
Exit(p, place) ==
  /\ Goto(p, place)
  /\ view' = [view EXCEPT ![p] = NoView]

-----------------------------------------------------------------------------
(* start_updating_logfile: may p append? *)

CountStale(p) == view[p].expected # rcount
AtEOF(p)      == view[p].eogs = EOF /\ ~partial
\* Mutants of MayUpdate: the recovery count, the end of file unchecked.
MayUpdate_AnyCount(p) == status # "done" /\ AtEOF(p)
MayUpdate_Anywhere(p) == ~CountStale(p) /\ status # "done"
MayUpdate(p)  == ~CountStale(p) /\ status # "done" /\ AtEOF(p)

\* Its terminate()s, with ok_not_at_end = FALSE.
UpdateRefused(p) ==
  /\ ~MayUpdate(p)
  /\ Exit(p, IF ~CountStale(p) /\ status = "done" THEN "off" ELSE "restart")
  /\ UNCHANGED <<fileVars, outcomeVars, envVars>>

\* lprintf, then stop_updating_logfile(1)'s move of eogs is in the caller.
AppendLine(l) ==
  /\ EOF < MaxLines
  /\ lines' = Append(lines, l)
  /\ UNCHANGED <<partial, status, rcount>>

-----------------------------------------------------------------------------
(* Opening the game. *)

\* ccmd_play_game and nh_play_game up to log_init.  A game that is over in
\* the file but not yet in the database is reopened with FM_RECOVERQUIT,
\* whatever was asked for; one that is over in both can only be replayed.
PlayGame(p) ==
  /\ pc[p] \in {"off", "restart"}
  /\ status = "done" => finished = 0
  /\ LET mode == IF status = "done" THEN "recoverquit"
                 ELSE IF p \in Players THEN "play" ELSE "watch"
     IN  view' = [view EXCEPT ![p] = [NoView EXCEPT !.mode = mode]]
  /\ Goto(p, IF status = "done" THEN "undo" ELSE "sync")
  /\ UNCHANGED <<fileVars, outcomeVars, envVars>>

\* The game ended in the meantime: replay mode, which is not modelled here.
PlayGameOver(p) ==
  /\ pc[p] = "restart"
  /\ status = "done" /\ finished > 0
  /\ Exit(p, "off")
  /\ UNCHANGED <<fileVars, outcomeVars, envVars>>

\* log_maybe_undo_quit, under the read lock.
UndoQuitRead(p) ==
  /\ pc[p] = "undo"
  /\ view' = [view EXCEPT ![p].expected = rcount, ![p].roff = EOF - 1]
  /\ Goto(p, IF lines[EOF].kind = "Q" THEN "unquit" ELSE "sync")
  /\ UNCHANGED <<fileVars, outcomeVars, envVars>>

\* log_sync: the header.
SyncHeader(p) ==
  /\ pc[p] = "sync"
  /\ view' = [view EXCEPT ![p].expected = rcount]
  /\ Goto(p, "backup")
  /\ UNCHANGED <<fileVars, outcomeVars, envVars>>

\* log_sync: load the backup the hint names, or else the first one.
SyncBackup(p) ==
  /\ pc[p] = "backup"
  /\ LET b == IF IsBackupAt(hint) THEN hint ELSE 0
     IN  view' = [view EXCEPT ![p].sbl = b, ![p].bsl = b,
                              ![p].bin = LineAt(b).snap]
  /\ Goto(p, "scan")
  /\ UNCHANGED <<fileVars, outcomeVars, envVars>>

\* What mdiffapply makes of a diff line: its contents, or (on a wrong base)
\* rubbish; it may also notice, see DiffError.
Applied(l, bin) == IF l.base = bin THEN l.snap ELSE <<Garble>>

\* binary_save and locations after adopting the save line at offset n.
Adopt(w, n) ==
  IF LineAt(n).kind = "full"
  THEN [w EXCEPT !.bin = LineAt(n).snap, !.bsl = n, !.sbl = n]
  ELSE [w EXCEPT !.bin = Applied(LineAt(n), w.bin), !.bsl = n]

\* load_gamestate_from_binary_save.  If the save line is gone (truncated
\* away), reading it moves nothing.
Loaded(w) ==
  [w EXCEPT !.eogs = IF HasLine(w.bsl) THEN w.bsl + 1 ELSE w.bsl,
            !.engine = w.bin, !.cmd = NoCommand, !.todo = 0]

SavesAfter(n) == {m \in (n + 1)..(EOF - 1) : IsSave(LineAt(m))}

\* log_sync: one round of the forward loop.
SyncForward(p) ==
  /\ pc[p] = "scan"
  /\ \E n \in SavesAfter(view[p].bsl) :
       /\ \A m \in SavesAfter(view[p].bsl) : n <= m
       /\ view' = [view EXCEPT ![p] = Adopt(view[p], n)]
  /\ UNCHANGED <<fileVars, outcomeVars, pc, envVars>>

\* Mutant of SyncEnd: an unfinished line costs the whole turn.
SyncEnd_ToStartOfTurn(p) ==
  /\ pc[p] = "scan"
  /\ SavesAfter(view[p].bsl) = {}
  /\ view' = [view EXCEPT ![p] = IF partial
                                  THEN [view[p] EXCEPT !.roff = view[p].bsl + 1]
                                  ELSE Loaded(view[p])]
  /\ Goto(p, IF partial THEN "recover" ELSE "ready")
  /\ UNCHANGED <<fileVars, outcomeVars, envVars>>

\* log_sync: no more save lines.
SyncEnd(p) ==
  /\ pc[p] = "scan"
  /\ SavesAfter(view[p].bsl) = {}
  /\ IF partial
     THEN /\ view' = [view EXCEPT ![p].roff = EOF]
          /\ Goto(p, "recover")
     ELSE /\ view' = [view EXCEPT ![p] = Loaded(view[p])]
          /\ Goto(p, "ready")
  /\ UNCHANGED <<fileVars, outcomeVars, envVars>>

-----------------------------------------------------------------------------
(* The turn.  A command or prompt is replayed from the file if there is a  *)
(* line, else asked of the user and recorded.  The user may take any time: *)
(* the record step finds the file as it is when the answer arrives.        *)

\* Where the engine is once it has consumed v.
Consumed(w, v) ==
  LET c == IF w.cmd = NoCommand THEN v ELSE w.cmd
      t == IF w.cmd = NoCommand THEN Prompts[v] ELSE w.todo - 1
  IN  [w EXCEPT !.engine = Append(w.engine, v), !.eogs = @ + 1,
                !.cmd = c, !.todo = t]
PlaceAfter(w) ==
  IF w.todo > 0 THEN "turn" ELSE IF w.cmd \in Deadly THEN "dead" ELSE "neutral"

\* What the engine will accept next.
Wanted(p) == IF pc[p] \in {"ready", "askready"} THEN Commands ELSE Answers

Consume(p, v) ==
  LET w == Consumed(view[p], v)
  IN  view' = [view EXCEPT ![p] = w] /\ Goto(p, PlaceAfter(w))

WantsLine(p) == pc[p] \in {"ready", "turn"}
Asking(p)    == pc[p] \in {"askready", "askturn"}

\* The file holds no more input: log_replay_* returns FALSE, and the engine
\* prompts the user (a watcher's user, too).  With FM_RECOVERQUIT only
\* yn_function goes on, and answers its question itself.
Ask(p) ==
  /\ WantsLine(p)
  /\ view[p].mode = "recoverquit" => pc[p] = "turn"
  /\ NothingAt(view[p].eogs)
  /\ Goto(p, IF pc[p] = "ready" THEN "askready" ELSE "askturn")
  /\ UNCHANGED <<fileVars, outcomeVars, view, envVars>>

\* Another process has appended, and flush_logfile_watchers' signal cancels
\* the prompt: look at the file again.
ServerCancel(p) ==
  /\ Asking(p)
  /\ view[p].mode # "recoverquit"
  /\ ~NothingAt(view[p].eogs)
  /\ Goto(p, IF pc[p] = "askready" THEN "ready" ELSE "turn")
  /\ UNCHANGED <<fileVars, outcomeVars, view, envVars>>

\* log_replay_command and log_replay_input; the log_record_* call that
\* follows only clears input_was_just_replayed.
Replay(p) ==
  /\ WantsLine(p)
  /\ HasLine(view[p].eogs)
  /\ LineAt(view[p].eogs).kind = "input"
  /\ LineAt(view[p].eogs).val \in Wanted(p)
  /\ Consume(p, LineAt(view[p].eogs).val)
  /\ UNCHANGED <<fileVars, outcomeVars, envVars>>

\* start_replaying_logfile finds "Q" where input was expected.
ReplayQuit(p) ==
  /\ WantsLine(p)
  /\ HasLine(view[p].eogs)
  /\ LineAt(view[p].eogs).kind = "Q"
  /\ Exit(p, "off")
  /\ UNCHANGED <<fileVars, outcomeVars, envVars>>

\* get_log_start_of_turn_offset; for emergency_recover_location, see PanicInDiff.
StartOfTurn(p) == IF HasLine(view[p].bsl) THEN view[p].bsl + 1 ELSE EOF

AskRecovery(p, offset) ==
  /\ view' = [view EXCEPT ![p].roff = offset]
  /\ Goto(p, "recover")

\* log_desync: the line is of another kind than the engine wants.
Desync(p) ==
  /\ WantsLine(p)
  /\ HasLine(view[p].eogs)
  /\ LineAt(view[p].eogs).kind # "Q"
  /\ \/ LineAt(view[p].eogs).kind # "input"
     \/ LineAt(view[p].eogs).val \notin Wanted(p)
  /\ IF SavesAfter(view[p].eogs) # {}
     THEN Exit(p, "restart")
     ELSE IF partial THEN AskRecovery(p, EOF)
     ELSE AskRecovery(p, StartOfTurn(p))
  /\ UNCHANGED <<fileVars, outcomeVars, envVars>>

\* lgetline_malloc finds an unfinished line: some process died writing it.
ReplayPartial(p) ==
  /\ pc[p] \in {"ready", "turn", "saveline"}
  /\ PartialAt(view[p].eogs)
  /\ AskRecovery(p, EOF)
  /\ UNCHANGED <<fileVars, outcomeVars, envVars>>

\* log_record_command and log_record_input
Record(p, v) ==
  /\ Asking(p)
  /\ view[p].mode # "watch"
  /\ v \in Wanted(p)
  /\ \/ UpdateRefused(p)
     \/ /\ MayUpdate(p)
        /\ AppendLine(InputLine(v))
        /\ Consume(p, v)
        /\ UNCHANGED <<hint, outcomeVars, envVars>>

\* FM_RECOVERQUIT has run out of lines, and nobody can be asked.
RecoverQuitStuck(p) ==
  /\ WantsLine(p)
  /\ view[p].mode = "recoverquit"
  /\ NothingAt(view[p].eogs)
  /\ Exit(p, "off")
  /\ UNCHANGED <<fileVars, outcomeVars, envVars>>

\* The user leaves (nh_exit_game(EXIT_SAVE)); a player's log_game_state
\* rewrites the second header line, or finds that it may not.
ExitSave(p) ==
  /\ Asking(p)
  /\ view[p].mode # "recoverquit"
  /\ \/ view[p].mode = "play" /\ UpdateRefused(p)
     \/ /\ view[p].mode = "play" => MayUpdate(p)
        /\ Exit(p, "off")
        /\ UNCHANGED <<fileVars, outcomeVars, envVars>>

-----------------------------------------------------------------------------
(* log_neutral_turnstate *)

\* Mutant of Saved: the next diff is against the save before this one.
Saved_OldBinary(p, l) ==
  view' = [view EXCEPT ![p].bsl = EOF, ![p].eogs = EOF + 1,
                       ![p].cmd = NoCommand]

Saved(p, l) ==
  LET w == [view[p] EXCEPT !.bin = view[p].engine, !.bsl = EOF, !.eogs = EOF + 1,
                           !.cmd = NoCommand]
  IN  view' = [view EXCEPT ![p] = IF l.kind = "full"
                                  THEN [w EXCEPT !.sbl = EOF] ELSE w]

\* Whether a turn ends in a backup or a diff depends on their sizes.
WriteBackup(p) ==
  /\ MayUpdate(p)
  /\ LET l == FullLine(view[p].engine)
     IN  AppendLine(l) /\ Saved(p, l)
  /\ hint' = EOF
  /\ Goto(p, "ready")
WriteDiff(p) ==
  /\ MayUpdate(p)
  /\ LET l == DiffLine(view[p].engine, view[p].bin)
     IN  AppendLine(l) /\ Saved(p, l)
  /\ UNCHANGED hint
  /\ Goto(p, "ready")

\* Mutant of NeutralTurnstate: who finds its turn saved does not read the save.
NeutralTurnstate_SkipsSave(p) ==
  /\ pc[p] = "neutral"
  /\ IF MayUpdate(p) /\ view[p].mode = "play"
     THEN WriteBackup(p) \/ WriteDiff(p)
     ELSE /\ view' = [view EXCEPT ![p].cmd = NoCommand]
          /\ Goto(p, "ready")
          /\ UNCHANGED fileVars
  /\ UNCHANGED <<outcomeVars, envVars>>

NeutralTurnstate(p) ==
  /\ pc[p] = "neutral"
  /\ IF view[p].mode = "play"
     THEN \/ /\ WriteBackup(p) \/ WriteDiff(p)
             /\ UNCHANGED <<outcomeVars, envVars>>
          \/ (CountStale(p) \/ status = "done") /\ UpdateRefused(p)
          \/ /\ ~CountStale(p) /\ status # "done" /\ ~AtEOF(p)
             /\ Goto(p, "saveline")
             /\ UNCHANGED <<fileVars, outcomeVars, view, envVars>>
     ELSE /\ Goto(p, "saveline")
          /\ UNCHANGED <<fileVars, outcomeVars, view, envVars>>

\* log_replay_save_line.  Any line that is not a save line is left alone.
ReplaySaveLine(p) ==
  /\ pc[p] = "saveline"
  /\ HasLine(view[p].eogs)
  /\ LET n == view[p].eogs
     IN  IF IsSave(LineAt(n))
         THEN view' = [view EXCEPT ![p] = Loaded(Adopt(view[p], n))]
              /\ Goto(p, "ready")
         ELSE IF LineAt(n).kind = "Q" THEN Exit(p, "off")
         ELSE /\ view' = [view EXCEPT ![p].cmd = NoCommand]
              /\ Goto(p, "ready")
  /\ UNCHANGED <<fileVars, outcomeVars, envVars>>

\* Thirty tries have found no line.
SaveLineTimeout(p) ==
  /\ pc[p] = "saveline"
  /\ NothingAt(view[p].eogs)
  /\ view' = [view EXCEPT ![p].cmd = NoCommand]
  /\ Goto(p, "ready")
  /\ UNCHANGED <<fileVars, outcomeVars, envVars>>

\* apply_save_diff_error, or dorecover's: the diff does not fit its base, or is
\* spoilt, and the code says so (ERR_RESTORE_FAILED) where Adopt has rubbish.
DiffError(p) ==
  /\ \E n \in 0..(EOF - 1) :
       /\ \/ LineAt(n).kind = "diff" /\ LineAt(n).base # view[p].bin
          \/ LineAt(n).kind = "spoilt"
       /\ \/ pc[p] = "saveline" /\ n = view[p].eogs
          \/ pc[p] = "scan" /\ n \in SavesAfter(view[p].bsl)
             /\ \A m \in SavesAfter(view[p].bsl) : n <= m
  /\ Exit(p, "off")
  /\ UNCHANGED <<fileVars, outcomeVars, envVars>>

-----------------------------------------------------------------------------
(* Game over: done_noreturn, log_game_over, ccmd_play_game's GAME_OVER. *)

LogQuit(p) ==
  \/ UpdateRefused(p)
  \/ /\ MayUpdate(p)
     /\ AppendLine(QuitLine)
     /\ view' = [view EXCEPT ![p].eogs = EOF + 1]
     /\ Goto(p, "over")
     /\ UNCHANGED <<hint, outcomeVars, envVars>>

Die(p) ==
  /\ pc[p] = "dead"
  /\ IF view[p].mode = "watch"
     THEN Exit(p, "off") /\ UNCHANGED <<fileVars, outcomeVars, envVars>>
     ELSE LogQuit(p)

\* nh_exit_game(EXIT_QUIT) from any prompt
Quit(p) ==
  /\ Asking(p)
  /\ view[p].mode = "play"
  /\ LogQuit(p)

LogGameOver(p) ==
  /\ pc[p] = "over"
  /\ \/ UpdateRefused(p)
     \/ /\ MayUpdate(p)
        /\ status' = "done"
        /\ Goto(p, "ended")
        /\ UNCHANGED <<lines, partial, rcount, hint, outcomeVars, view, envVars>>

\* Everything up to terminate(GAME_OVER), the prompts of the disclosure
\* included, and then db_add_topten_entry.
FinishGame(p) ==
  /\ pc[p] = "ended"
  /\ finished' = finished + 1
  /\ Exit(p, "off")
  /\ UNCHANGED <<fileVars, declined, envVars>>

-----------------------------------------------------------------------------
(* Recovery. *)

\* panic_core: an internal error, at any point of the game.
Panic(p) ==
  /\ pc[p] \in {"ready", "askready", "turn", "askturn", "neutral", "saveline",
               "dead"}
  /\ panics < MaxPanics
  /\ panics' = panics + 1
  /\ IF PartialAt(view[p].bsl)
     THEN AskRecovery(p, EOF)
     ELSE AskRecovery(p, StartOfTurn(p))
  /\ UNCHANGED <<fileVars, outcomeVars, crashes>>

\* The diff just written does not pass its verification, for it is spoilt, or
\* the state it gives is not saved again as it was loaded.  The line is in the
\* file; binary_save_location names it, but emergency_recover_location has the
\* save line before it, and that is where the menu will offer to cut.
DiffFails(p, offset) ==
  /\ pc[p] = "neutral" /\ view[p].mode = "play"
  /\ MayUpdate(p)
  /\ panics < MaxPanics
  /\ panics' = panics + 1
  /\ \/ AppendLine(SpoiltLine(view[p].bin))
     \/ AppendLine(DiffLine(view[p].engine, view[p].bin))
  /\ AskRecovery(p, offset)
  /\ UNCHANGED <<hint, outcomeVars, crashes>>

\* Mutant of PanicInDiff: the menu would cut after binary_save_location's line.
PanicInDiff_KeepsLine(p) == DiffFails(p, EOF + 1)
PanicInDiff(p) == DiffFails(p, view[p].bsl + 1)

\* log_recover_core for a process that may not write: reload or leave.
ViewerLostTrack(p) ==
  /\ pc[p] = "recover"
  /\ view[p].mode # "play"
  /\ \E place \in {"restart", "off"} : Exit(p, place)
  /\ UNCHANGED <<fileVars, outcomeVars, envVars>>

\* The user declines, or the offset is not sane.
RecoveryRefused(p) ==
  /\ pc[p] = "recover"
  /\ view[p].mode = "play"
  /\ declined' = TRUE
  /\ Exit(p, "off")
  /\ UNCHANGED <<fileVars, finished, envVars>>

\* Mutant of Truncate: the count stays as it was.
Truncate_SameCount(p) ==
  /\ status' = "save"
  /\ lines' = SubSeq(lines, 1, view[p].roff)
  /\ partial' = FALSE
  /\ UNCHANGED <<hint, rcount>>

\* The automatic recovery, the write lock held.
Truncate(p) ==
  /\ rcount < MaxRecoveries
  /\ rcount' = rcount + 1
  /\ status' = "save"
  /\ lines' = SubSeq(lines, 1, view[p].roff)
  /\ partial' = FALSE
  /\ UNCHANGED hint

\* Mutant of Recover: the test of the recovery count is the wrong way round.
Recover_Inverted(p) ==
  /\ pc[p] = "recover"
  /\ view[p].mode = "play"
  /\ \/ ~CountStale(p) /\ declined' = TRUE /\ UNCHANGED fileVars
     \/ CountStale(p) /\ Truncate(p) /\ UNCHANGED declined
  /\ Exit(p, "restart")
  /\ UNCHANGED <<finished, envVars>>

Recover(p) ==
  /\ pc[p] = "recover"
  /\ view[p].mode = "play"
  /\ \/ CountStale(p) /\ declined' = TRUE /\ UNCHANGED fileVars
     \/ ~CountStale(p) /\ Truncate(p) /\ UNCHANGED declined
  /\ Exit(p, "restart")
  /\ UNCHANGED <<finished, envVars>>

\* log_maybe_undo_quit's unconditional recovery; it goes on to log_sync.
UndoQuit(p) ==
  /\ pc[p] = "unquit"
  /\ \/ /\ CountStale(p)
        /\ Exit(p, "restart")
        /\ UNCHANGED fileVars
     \/ /\ ~CountStale(p)
        /\ Truncate(p)
        /\ view' = [view EXCEPT ![p].expected = @ + 1]
        /\ Goto(p, "sync")
  /\ UNCHANGED <<outcomeVars, envVars>>

-----------------------------------------------------------------------------
(* Killed processes. *)

MayCrash(p) ==
  /\ pc[p] \notin {"off", "restart"}
  /\ crashes < MaxCrashes
  /\ crashes' = crashes + 1
  /\ declined' = (declined \/ pc[p] = "recover")
  /\ Exit(p, "off")
  /\ UNCHANGED finished

\* Between two locked sections.
Crash(p) == MayCrash(p) /\ UNCHANGED <<fileVars, panics>>

\* In the middle of a line.
CrashInLine(p) ==
  /\ MayUpdate(p)
  /\ \/ Asking(p) /\ view[p].mode # "watch"
     \/ pc[p] = "neutral" /\ view[p].mode = "play"
     \/ pc[p] = "dead" /\ view[p].mode # "watch"
  /\ partial' = TRUE
  /\ MayCrash(p)
  /\ UNCHANGED <<lines, status, rcount, hint, panics>>

\* A backup is on disk, the hint is not.
CrashBeforeHint(p) ==
  /\ pc[p] = "neutral" /\ view[p].mode = "play"
  /\ MayUpdate(p)
  /\ AppendLine(FullLine(view[p].engine))
  /\ MayCrash(p)
  /\ UNCHANGED <<hint, panics>>

\* The recovery count is on disk, the truncation is not.
CrashInRecovery(p) ==
  /\ \/ pc[p] = "recover" /\ view[p].mode = "play"
     \/ pc[p] = "unquit"
  /\ ~CountStale(p)
  /\ rcount < MaxRecoveries
  /\ rcount' = rcount + 1
  /\ status' = "save"
  /\ MayCrash(p)
  /\ UNCHANGED <<lines, partial, hint, panics>>

-----------------------------------------------------------------------------

Load(p) ==
  \/ PlayGame(p) \/ PlayGameOver(p) \/ UndoQuitRead(p) \/ UndoQuit(p)
  \/ SyncHeader(p) \/ SyncBackup(p) \/ SyncForward(p) \/ SyncEnd(p)
  \/ DiffError(p)
ReadLine(p) ==
  \/ Ask(p) \/ ServerCancel(p) \/ Replay(p) \/ ReplayQuit(p)
  \/ ReplayPartial(p) \/ Desync(p) \/ RecoverQuitStuck(p)
  \/ ReplaySaveLine(p) \/ SaveLineTimeout(p)
User(p) ==
  \/ \E v \in Values : Record(p, v)
  \/ ExitSave(p) \/ Quit(p)
EndTurn(p)  == NeutralTurnstate(p)
GameOver(p) == Die(p) \/ LogGameOver(p) \/ FinishGame(p)
Recovery(p) == ViewerLostTrack(p) \/ RecoveryRefused(p) \/ Recover(p)
Kill(p) ==
  \/ Crash(p) \/ CrashInLine(p) \/ CrashBeforeHint(p) \/ CrashInRecovery(p)

Next ==
  \E p \in Procs :
    \/ Load(p) \/ ReadLine(p) \/ User(p) \/ EndTurn(p) \/ GameOver(p)
    \/ Panic(p) \/ PanicInDiff(p) \/ Recovery(p) \/ Kill(p)

Spec == Init /\ [][Next]_vars

-----------------------------------------------------------------------------
(* Properties *)

\* A process that has loaded the game.
InGame(p) ==
  pc[p] \in {"ready", "askready", "turn", "askturn", "neutral", "saveline",
            "dead", "over", "ended"}

\* Whoever passes the checks of start_updating_logfile has an engine in the
\* state the whole file denotes: what it appends continues the file, whatever
\* other processes wrote, cut off or left unfinished since it last read.
WriterInSync ==
  \A p \in Procs : InGame(p) /\ MayUpdate(p) => view[p].engine = After(EOF)

\* While the recovery count a process knows is the file's, its view of the
\* file is right: it has consumed lines that are still there, its engine is
\* where they lead, binary_save is the save line it believes it is, and the
\* locations are in the order that program_state's comment (decl.h) demands.
FreshViewSound ==
  \A p \in Procs : InGame(p) /\ ~CountStale(p) =>
    /\ view[p].eogs \in 1..EOF
    /\ view[p].engine = After(view[p].eogs)
    /\ view[p].sbl <= view[p].bsl /\ view[p].bsl < view[p].eogs
    /\ LineAt(view[p].sbl).kind = "full"
    /\ IsSave(LineAt(view[p].bsl))
    /\ view[p].bin = LineAt(view[p].bsl).snap

\* What can be rebuilt from a save line is what the lines up to it denote, and
\* every diff is against the save line directly before it.
SavesHold ==
  \A n \in 1..EOF :
    /\ IsSave(lines[n]) => lines[n].snap = lines[n].after
    /\ lines[n].kind \in {"diff", "spoilt"} =>
         \E m \in 1..(n - 1) :
            /\ IsSave(lines[m]) /\ lines[m].snap = lines[n].base
            /\ \A k \in (m + 1)..(n - 1) : ~IsSave(lines[k])

\* A spoilt line is one whose writer has been told, and its menu still offers
\* to cut it off; or else somebody has left a menu without doing so.
SpoiltWatched ==
  \A n \in 1..EOF : lines[n].kind = "spoilt" =>
    declined \/ \E p \in Procs : pc[p] = "recover" /\ view[p].mode = "play" /\ view[p].roff < n

\* Every save line holds the game that the lines before it lead to, and every
\* diff is against the save line directly before it, so that log_sync can
\* rebuild every turn from the file alone: except the lines that
\* SpoiltWatched tells of, which a recovery that is accepted takes away.
SavesSound ==
  /\ SavesHold
  /\ \A n \in 2..EOF : IsSave(lines[n]) /\ lines[n].after # After(n - 1) =>
       lines[n].kind = "spoilt"
  /\ SpoiltWatched

\* Nothing is ever appended to a game that has ended ("Q"), even by a process
\* that was in the middle of a prompt when another one ended it.
QuitIsLast == \A n \in 1..(EOF - 1) : lines[n].kind # "Q"

\* A file whose header says the game is over ends with the line that ended it.
DoneEndsWithQuit == status = "done" => lines[EOF].kind = "Q" /\ ~partial

\* A killed process costs at most the line it was writing: as long as the
\* engine itself does not panic, a recovery removes no whole line but the "Q"
\* of a game whose end is being done again.
RecoveryLosesNothing ==
  [][ panics = 0 /\ rcount' # rcount =>
        \/ lines' = lines
        \/ lines[EOF].kind = "Q" /\ lines' = SubSeq(lines, 1, EOF - 1) ]_vars

\* A player who reads what others wrote finds what its engine wants.  The desync
\* that log_replay_* guards against comes to watchers, who wait for a save line
\* only so long, and to players whose recovery count is stale, but to no other.
PlayersFollow ==
  [][ \A p \in Procs :
        view[p].mode = "play" /\ ~CountStale(p) => ~Desync(p) ]_vars

-----------------------------------------------------------------------------
(* What the file is for: GameHistory. *)

\* The lines in front of the first one that is spoilt: those tell the game.
Good(n)   == \A m \in 1..n : lines[m].kind # "spoilt"
Spoilt    == ~Good(EOF)
GoodLines ==
  IF Spoilt THEN CHOOSE n \in 0..(EOF - 1) : Good(n) /\ ~Good(n + 1) ELSE EOF

Known(p) ==
  IF ~InGame(p) THEN [at |-> "out", played |-> <<>>]
  ELSE IF CountStale(p) \/ ~Good(view[p].eogs) THEN [at |-> "lost", played |-> <<>>]
  ELSE [at |-> "game", played |-> view[p].engine]

History == INSTANCE GameHistory WITH
             history <- After(GoodLines), spoilt <- Spoilt,
             over <- lines[EOF].kind = "Q" /\ ~Spoilt,
             known <- [p \in Procs |-> Known(p)]

\* The file and its readers implement one shared history of the game.  A process
\* follows it input by input, whoever wrote them; only who has played all of it
\* appends; nothing is taken back but by a recovery, and that makes lost, at
\* once, everybody who has the game open.  A spoilt diff adds nothing to the
\* history, nor does what is written after it.
HistoryKept == History!Spec

-----------------------------------------------------------------------------
(* The inductive invariant behind the safety properties above. *)

\* The ghost field after follows the input lines.
AfterFollows ==
  \A n \in 2..EOF :
    lines[n].after = CASE lines[n].kind = "input" -> Append(lines[n - 1].after, lines[n].val)
                       [] lines[n].kind = "spoilt" -> <<Garble>>
                       [] OTHER -> lines[n - 1].after

FileSound ==
  /\ EOF >= 1
  /\ lines[1].kind = "full"
  /\ AfterFollows
  /\ SavesHold

\* The engine's own bookkeeping fits the place it is at.
ControlSound(p) ==
  /\ view[p].expected <= rcount
  /\ pc[p] \in {"ready", "askready"} => view[p].cmd = NoCommand
  /\ pc[p] \in {"turn", "askturn"} => view[p].cmd # NoCommand /\ view[p].todo > 0

\* binary_save is the save line that binary_save_location names, and
\* save_backup_location names a backup not after it.
SaveKnown(p) ==
  /\ view[p].sbl <= view[p].bsl /\ view[p].bsl < EOF
  /\ LineAt(view[p].sbl).kind = "full"
  /\ IsSave(LineAt(view[p].bsl))
  /\ view[p].bin = LineAt(view[p].bsl).snap

\* ... and the last one in front of eogs, which only a process that has
\* recorded the end of the game has moved past a "Q".
PlaceKnown(p) ==
  /\ view[p].eogs \in 1..EOF
  /\ view[p].engine = After(view[p].eogs)
  /\ view[p].bsl < view[p].eogs
  /\ \A n \in (view[p].bsl + 1)..(view[p].eogs - 1) : ~IsSave(LineAt(n))
  /\ IF pc[p] \in {"over", "ended"}
     THEN LineAt(view[p].eogs - 1).kind = "Q"
     ELSE \A n \in 1..view[p].eogs : lines[n].kind # "Q"

ViewSound(p) ==
  ~CountStale(p) =>
    /\ InGame(p) => SaveKnown(p) /\ PlaceKnown(p)
    /\ pc[p] = "scan" => SaveKnown(p)
    /\ pc[p] \in {"recover", "unquit"} => view[p].roff \in 1..EOF

\* While a process's recovery count is the file's, every location it holds
\* means what it did when it was read, however the file has grown.
Coherent ==
  /\ TypeOK
  /\ FileSound
  /\ QuitIsLast
  /\ DoneEndsWithQuit
  /\ \A p \in Procs : ControlSound(p) /\ ViewSound(p)

\* ... and what is spoilt does not stay there unnoticed.
Inv == Coherent /\ SpoiltWatched

-----------------------------------------------------------------------------
(* The inductive invariant behind what a recovery takes back: what a player  *)
(* reads is always what its engine wants, so that without a panic only an    *)
(* unfinished line opens the menu.                                           *)

\* The save line that the turn of line n begins after.
LastSave(b, n) == IsSave(lines[b]) /\ \A m \in (b + 1)..(n - 1) : ~IsSave(lines[m])

\* The lines of a turn are a command, the answers it reads, and a save line.
LinesFit ==
  \A n \in 2..EOF, b \in 1..EOF : b < n /\ LastSave(b, n) =>
    LET c == lines[b + 1].val
    IN  /\ lines[n].kind = "input" =>
             IF n = b + 1 THEN c \in Commands
             ELSE lines[n].val \in Answers /\ n - b - 1 <= Prompts[c]
        /\ IsSave(lines[n]) => n > b + 1 /\ n - b - 1 = Prompts[c] + 1 /\ c \notin Deadly

\* A process is as far in its turn as the lines it has consumed since the last
\* save line; only who does not write goes on without finding the next one.
TurnSound(p) ==
  ~CountStale(p) /\ InGame(p) /\ pc[p] \notin {"over", "ended"} =>
    LET b == view[p].bsl + 1
        k == view[p].eogs - b
        c == lines[b + 1].val
    IN  /\ view[p].cmd # NoCommand =>
             k >= 1 /\ view[p].cmd = c /\ view[p].todo = Prompts[c] + 1 - k
        /\ pc[p] \in {"neutral", "saveline"} =>
             view[p].cmd # NoCommand /\ view[p].todo = 0 /\ view[p].cmd \notin Deadly
        /\ pc[p] \in {"ready", "askready"} =>
             k = 0 \/ (view[p].mode # "play" /\ k = Prompts[c] + 1)
        /\ pc[p] = "askready" => view[p].mode # "recoverquit"
        /\ pc[p] = "saveline" /\ view[p].mode = "play" => ~NothingAt(view[p].eogs)

\* Where an open menu, or the undoing of a "Q", would cut the file off.
MenuSound(p) ==
  ~CountStale(p) =>
    /\ pc[p] = "unquit" => view[p].roff < EOF /\ lines[view[p].roff + 1].kind = "Q"
    /\ pc[p] = "recover" /\ view[p].mode = "play" /\ panics = 0 =>
         partial /\ view[p].roff = EOF

\* nh_play_game has said what every session is for.
ModeKnown == \A p \in Procs : pc[p] \notin {"off", "restart"} => view[p].mode # "none"

TurnInv == ModeKnown /\ LinesFit /\ \A p \in Procs : TurnSound(p) /\ MenuSound(p)

-----------------------------------------------------------------------------
(* Fairness: a running process executes, a client reopens a game that was  *)
(* restarted, and the user answers the recovery menu.  Nobody has to start *)
(* playing, enter commands or leave.                                       *)

Reopen(p) == pc[p] = "restart" /\ Load(p)
FairSpec ==
  /\ Spec
  /\ \A p \in Procs :
       /\ WF_vars(Reopen(p))
       /\ WF_vars(pc[p] # "off" /\ Load(p))
       /\ WF_vars(ReadLine(p))
       /\ WF_vars(EndTurn(p))
       /\ WF_vars(GameOver(p))
       /\ WF_vars(Recovery(p))

BoundReached == EOF = MaxLines \/ rcount = MaxRecoveries

\* Opening a game to play it ends at a prompt or with an exit, whatever killed
\* processes left in the file: no endless round of RESTART_PLAY.
OpeningEnds ==
  \A p \in Players :
    pc[p] # "off" ~> (pc[p] = "off" \/ Asking(p) \/ BoundReached)

-----------------------------------------------------------------------------
(* Statements of the documentation and of comments that do not hold. *)

\* doc/server_protocol.txt: GAME_OVER is returned to only one process.
GameOverOnce == finished <= 1

\* allmain.c, where FM_RECOVERQUIT needs a command: "We shouldn't be here."
RecoverQuitHasInput ==
  \A p \in Procs :
    view[p].mode = "recoverquit" /\ WantsLine(p) /\ ~CountStale(p)
      => ~NothingAt(view[p].eogs)

\* doc/saves.txt: a process that finds the recovery count increased discards
\* what it knows, so no process ever works on an inconsistent view of the
\* file: what it replays takes it where the file goes.
ReplayFollowsFile ==
  [][\A p \in Procs :
       Replay(p) => view'[p].engine = After(view'[p].eogs)]_vars
=============================================================================
