------------------------------- MODULE FdLock -------------------------------
(***************************************************************************)
(* The locks on the save file and the real-time signals with which the     *)
(* processes of one game ask each other for them (libnethack/src/files.c,  *)
(* the Linux code: change_fd_lock and handle_sigrtmin1, 2, 4).             *)
(*                                                                         *)
(* The kernel's side is what fcntl and sigqueue do: lk is the advisory     *)
(* record lock each process has on the file, queue the signals queued for  *)
(* each process, SIGRTMIN+0 to SIGRTMIN+4, in order of arrival per number  *)
(* and delivered lowest number first.  A process is identified by its PID: *)
(* the code compares PIDs to choose the signal.                            *)
(*                                                                         *)
(* The program's side is one thread per process, interrupted by handlers.  *)
(* pc says where change_fd_lock is, or which lock the code above it works  *)
(* under; hand says where the handler of SIGRTMIN+0/1 is, which blocks     *)
(* inside the handler.  A step ends at each system call another process    *)
(* can notice.                                                             *)
(***************************************************************************)
EXTENDS Integers, Sequences, FiniteSets

CONSTANTS
  Procs,     \* the PIDs
  Players,   \* the processes that play; the others watch
  Peekers,   \* the processes that show the file in a menu
  Leavers,   \* the processes that leave the game
  Mortal,    \* the processes that may be killed
  Slow,      \* the processes whose time-outs may expire
  Freezers,  \* the processes whose loading, replays and zero-time commands
             \* are modelled; the others always follow the file
  MaxTurns,  \* bound on how often each slow process asks for a lock it may
             \* have to wait for, or gives up in its handler: what is given
             \* up leaves signals behind
  MaxAsked   \* bound on the requests sent for one lock

ASSUME ProcsAssumption == Procs \subseteq Nat /\ IsFiniteSet(Procs)
ASSUME RolesAssumption ==
  /\ Players \subseteq Procs
  /\ Peekers \subseteq Procs
  /\ Leavers \subseteq Procs
  /\ Mortal \subseteq Procs
  /\ Slow \subseteq Procs
  /\ Freezers \subseteq Procs
ASSUME BoundAssumption == MaxTurns \in Nat /\ MaxAsked \in Nat

VARIABLES
  lk,     \* the record lock of each process: "none", "read", "write"
  queue,  \* queue[p][n]: who sent the SIGRTMIN+n's pending at p, oldest first
  disp,   \* the dispositions of SIGRTMIN+0..4: "initial" (what nh_lib_init
          \* leaves: 1 and 2 ignored, the others kill), "handled", "ignored"
  pc,     \* the lock section or the point of change_fd_lock
  want,   \* the lock type change_fd_lock was called with
  open,   \* log_init returned, log_uninit not yet called
  hand,   \* handle_sigrtmin1: "no", "wait" (in pselect), "relock"
  inc,    \* unmatched_sigrtmin1s_incoming
  outg,   \* unmatched_sigrtmin1s_outgoing
  watch,  \* program_state.logfile_watchers
  peer,   \* the process F_GETLK named
  ret,    \* the ret of change_fd_lock
  armed,  \* the alarm of change_fd_lock will still be noticed
  stale,  \* the file was written since the process last looked at it, or was
          \* told to: not in the code, but the reason why the code is there
  follows,  \* "frozen": a zero-time command, a menu of a panic, loading or a
          \* replay; "behind": no longer, but a write was missed meanwhile
  turns

kernel  == <<lk, queue, disp>>
counts  == <<inc, outg>>
caller  == <<want, peer, ret, turns, follows>>
vars    == <<kernel, pc, open, hand, counts, watch, caller, armed, stale>>

Signal  == 0..4
Section == {"monitor", "read", "write"}
Idle    == {"out", "peek"} \cup Section \cup {"failed"}

-----------------------------------------------------------------------------
(* The kernel. *)

\* A lock of type t can be set: no lock of another process is in its way.
Conflicting(p, t) ==
  {q \in Procs \ {p} : IF t = "write" THEN lk[q] # "none" ELSE lk[q] = "write"}

\* The record lock that is set for each lock type.
FlockType(type) == IF type = "write" THEN "write" ELSE "read"

NoSignals == [n \in Signal |-> <<>>]

\* sigqueue(q, SIGRTMIN+n): an ignored signal is dropped where it is sent.
Ignores(q, n) ==
  \/ disp[q] = "ignored" \/ pc[q] = "dead"
  \/ disp[q] = "initial" /\ n \in {1, 2}

Sent(qs, p, q, n) ==
  IF Ignores(q, n) THEN qs ELSE [qs EXCEPT ![q][n] = Append(@, p)]

\* The thread of p is where the kernel delivers a signal to it: in the code
\* above change_fd_lock, in sigsuspend, or in pselect.
Interruptible(p) ==
  \/ hand[p] = "no" /\ pc[p] \in Idle
  \/ hand[p] = "no" /\ pc[p] = "loop" /\ inc[p] + outg[p] > 0
  \/ hand[p] = "wait" /\ inc[p] > 0

\* Mutants of Unmasked: +0 and +1 are masked together; a section masks what a
\* waiting process masks; the return to the monitor lock unmasks nothing.
Unmasked_NoRequests(p) ==
  CASE pc[p] = "loop"                       -> {3, 4}
    [] pc[p] \in {"read", "write", "failed"} -> {4}
    [] OTHER                                -> Signal

Unmasked_InSection(p) ==
  CASE pc[p] \in {"loop", "read", "write", "failed"} -> {1, 3, 4}
    [] OTHER                                        -> Signal

Unmasked_NotAtMonitor(p) ==
  CASE pc[p] = "loop"                                  -> {1, 3, 4}
    [] pc[p] \in {"monitor", "read", "write", "failed"} -> {4}
    [] OTHER                                           -> Signal

\* The signals that are not masked there.  Inside change_fd_lock +0 and +2
\* stay masked, also in the pselect of a handler that interrupted sigsuspend.
Unmasked(p) ==
  CASE pc[p] = "loop"                       -> {1, 3, 4}
    [] pc[p] \in {"read", "write", "failed"} -> {4}
    [] OTHER                                -> Signal

Deliverable(p) == {n \in Unmasked(p) : queue[p][n] # <<>>}

\* The kernel delivers SIGRTMIN+n to p: it is the lowest number pending.
Delivers(p, n) ==
  /\ Interruptible(p)
  /\ n \in Deliverable(p)
  /\ \A m \in Deliverable(p) : n <= m

Dequeued(p, n) == [queue EXCEPT ![p][n] = Tail(@)]

-----------------------------------------------------------------------------
\* program_state.logfile is the descriptor: from log_init on.
HasFile(p) == open[p] \/ pc[p] \in {"loop", "ask", "flush"}

Init ==
  /\ lk    = [p \in Procs |-> "none"]
  /\ queue = [p \in Procs |-> NoSignals]
  /\ disp  = [p \in Procs |-> "initial"]
  /\ pc    = [p \in Procs |-> "out"]
  /\ want  = [p \in Procs |-> "monitor"]
  /\ open  = [p \in Procs |-> FALSE]
  /\ hand  = [p \in Procs |-> "no"]
  /\ inc   = [p \in Procs |-> 0]
  /\ outg  = [p \in Procs |-> 0]
  /\ watch = [p \in Procs |-> <<>>]
  /\ peer  = [p \in Procs |-> p]
  /\ ret   = [p \in Procs |-> TRUE]
  /\ armed = [p \in Procs |-> FALSE]
  /\ stale = [p \in Procs |-> FALSE]
  /\ follows = [p \in Procs |-> IF p \in Freezers THEN "frozen" ELSE "live"]
  /\ turns = [p \in Procs |-> 0]

-----------------------------------------------------------------------------
(* change_fd_lock on the save file. *)

\* The locks the code of log.c asks for from each section; upgrading from a
\* read lock to a write lock is forbidden.  A player that panics, in a section
\* or because it did not get its lock, takes a read lock to see what can be
\* recovered; a watcher leaves.
Calls(p, section) ==
  LET ifPlaying(types) == IF p \in Players THEN types ELSE {}
  IN CASE section = "out"     -> {"monitor"}
       [] section = "monitor" -> {"read"} \cup ifPlaying({"write"})
       [] section = "read"    -> {"monitor"} \cup ifPlaying({"read"})
       [] section = "write"   -> {"monitor", "read"}
       [] section = "failed"  -> ifPlaying({"read"})
       [] OTHER               -> {}

\* change_fd_lock is called: it sets its handlers, masks the signals and sets
\* the alarm.
ChangeLock(p, type) ==
  LET counted == p \in Slow /\ (type = "write" \/ pc[p] = "out")
  IN /\ hand[p] = "no"
     /\ type \in Calls(p, pc[p])
     /\ counted => turns[p] < MaxTurns
     /\ turns' = [turns EXCEPT ![p] = IF counted THEN @ + 1 ELSE @]
     /\ disp' = [disp EXCEPT ![p] = "handled"]
     /\ pc' = [pc EXCEPT ![p] = "loop"]
     /\ want' = [want EXCEPT ![p] = type]
     /\ ret' = [ret EXCEPT ![p] = TRUE]
     /\ armed' = [armed EXCEPT ![p] = TRUE]
     /\ UNCHANGED <<lk, queue, open, hand, counts, watch, peer, stale, follows>>

\* The top of its loop, with nothing to wait for: F_SETLK sets the lock...
SetLock(p) ==
  /\ pc[p] = "loop" /\ hand[p] = "no"
  /\ inc[p] = 0 /\ outg[p] = 0
  /\ Conflicting(p, FlockType(want[p])) = {}
  /\ lk' = [lk EXCEPT ![p] = FlockType(want[p])]
  /\ pc' = [pc EXCEPT ![p] = "flush"]
  /\ UNCHANGED <<queue, disp, open, hand, counts, watch, caller, armed, stale>>

\* ...or fails, and F_GETLK names one of the processes in the way.
FindHolder(p) ==
  /\ pc[p] = "loop" /\ hand[p] = "no"
  /\ inc[p] = 0 /\ outg[p] = 0
  /\ Len(watch[p]) < MaxAsked
  /\ \E q \in Conflicting(p, FlockType(want[p])) :
       peer' = [peer EXCEPT ![p] = q]
  /\ pc' = [pc EXCEPT ![p] = "ask"]
  /\ UNCHANGED <<kernel, want, ret, turns, follows, open, hand, counts, watch>>
  /\ UNCHANGED <<armed, stale>>

\* It is asked to unlock, and remembered as one to tell later.
AskHolder(p) ==
  LET q == peer[p]
  IN /\ pc[p] = "ask"
     /\ outg' = [outg EXCEPT ![p] = @ + 1]
     /\ queue' = Sent(queue, p, q, IF q < p THEN 0 ELSE 1)
     /\ watch' = [watch EXCEPT ![p] = Append(@, q)]
     /\ peer' = [peer EXCEPT ![p] = p]
     /\ pc' = [pc EXCEPT ![p] = "loop"]
     /\ UNCHANGED <<lk, disp, want, ret, turns, follows, open, hand, inc, armed, stale>>

\* The alarm goes off while sigsuspend waits: the signals are assumed lost.
Alarm(p) ==
  /\ p \in Slow /\ armed[p]
  /\ pc[p] = "loop" /\ hand[p] = "no"
  /\ inc[p] + outg[p] > 0
  /\ inc' = [inc EXCEPT ![p] = 0]
  /\ outg' = [outg EXCEPT ![p] = 0]
  /\ ret' = [ret EXCEPT ![p] = FALSE]
  /\ pc' = [pc EXCEPT ![p] = "flush"]
  /\ UNCHANGED <<kernel, want, peer, turns, follows, open, hand, watch, armed, stale>>

\* Mutant of TellWatcher: only the last process asked is told.
TellWatcher_LastOnly(p) ==
  LET q == watch[p][Len(watch[p])]
  IN /\ pc[p] = "flush" /\ watch[p] # <<>>
     /\ queue' = Sent(queue, p, q, IF q < p THEN 2 ELSE 3)
     /\ watch' = [watch EXCEPT ![p] = <<>>]
     /\ UNCHANGED <<lk, disp, pc, open, hand, counts, caller, armed, stale>>

\* flush_logfile_watchers tells one watcher, the last first, that it may lock
\* the file again.
TellWatcher(p) ==
  LET q == watch[p][Len(watch[p])]
  IN /\ pc[p] = "flush" /\ watch[p] # <<>>
     /\ queue' = Sent(queue, p, q, IF q < p THEN 2 ELSE 3)
     /\ watch' = [watch EXCEPT ![p] = SubSeq(@, 1, Len(@) - 1)]
     /\ UNCHANGED <<lk, disp, pc, open, hand, counts, caller, armed, stale>>

\* p looks at the file, or the game is made to before it goes on.
Looks(p) ==
  /\ stale' = [stale EXCEPT ![p] = FALSE]
  /\ follows' = [follows EXCEPT ![p] = IF @ = "behind" THEN "live" ELSE @]

\* Everybody is told, the signals are unmasked as the lock type allows and
\* change_fd_lock returns.  log_init gives the file up when it fails.  Every
\* read section reads the file where the process is in it, and every write
\* section compares its end (or its recovery count) before it writes.
Return(p) ==
  /\ pc[p] = "flush" /\ watch[p] = <<>>
  /\ pc' = [pc EXCEPT ![p] = IF ret[p] THEN want[p]
                             ELSE IF open[p] THEN "failed" ELSE "out"]
  /\ open' = [open EXCEPT ![p] = @ \/ ret[p]]
  /\ lk' = [lk EXCEPT ![p] = IF ret[p] \/ open[p] THEN @ ELSE "none"]
  /\ want' = [want EXCEPT ![p] = "monitor"]
  /\ ret' = [ret EXCEPT ![p] = TRUE]
  /\ armed' = [armed EXCEPT ![p] = FALSE]
  /\ IF ret[p] /\ want[p] \in {"read", "write"} THEN Looks(p)
                                               ELSE UNCHANGED <<stale, follows>>
  /\ UNCHANGED <<queue, disp, hand, counts, watch, peer, turns>>

-----------------------------------------------------------------------------
(* The signal handlers. *)

\* handle_sigrtmin1: the record lock is given up and the sender answered; then
\* the handler waits to be told that the sender has got, or given up, its lock.
Relinquish(p) == \E n \in {0, 1} :
  /\ Delivers(p, n) /\ disp[p] = "handled" /\ hand[p] = "no"
  /\ queue' = Sent(Dequeued(p, n), p, Head(queue[p][n]), 4)
  /\ lk' = [lk EXCEPT ![p] = IF HasFile(p) THEN "none" ELSE @]
  /\ inc' = [inc EXCEPT ![p] = @ + 1]
  /\ hand' = [hand EXCEPT ![p] = "wait"]
  /\ UNCHANGED <<disp, pc, open, outg, watch, caller, armed, stale>>

\* Mutant of RelinquishAgain: the second sender is counted, not answered.
RelinquishAgain_NoAnswer(p) == \E n \in {0, 1} :
  /\ Delivers(p, n) /\ disp[p] = "handled" /\ hand[p] = "wait"
  /\ queue' = Dequeued(p, n)
  /\ inc' = [inc EXCEPT ![p] = @ + 1]
  /\ UNCHANGED <<lk, disp, pc, open, hand, outg, watch, caller, armed, stale>>

\* handle_sigrtmin1_recursive: a second sender, while the handler waits.
RelinquishAgain(p) == \E n \in {0, 1} :
  /\ Delivers(p, n) /\ disp[p] = "handled" /\ hand[p] = "wait"
  /\ queue' = Sent(Dequeued(p, n), p, Head(queue[p][n]), 4)
  /\ inc' = [inc EXCEPT ![p] = @ + 1]
  /\ UNCHANGED <<lk, disp, pc, open, hand, outg, watch, caller, armed, stale>>

\* handle_sigrtmin2: a sender does not need the lock to be given up any more.
MayRelock(p) == \E n \in {2, 3} :
  /\ Delivers(p, n) /\ disp[p] = "handled"
  /\ queue' = Dequeued(p, n)
  /\ inc' = [inc EXCEPT ![p] = IF @ > 0 THEN @ - 1 ELSE 0]
  /\ UNCHANGED <<lk, disp, pc, open, hand, outg, watch, caller, armed, stale>>

\* handle_sigrtmin4: a process that was asked to unlock has done it.
Answered(p) ==
  /\ Delivers(p, 4) /\ disp[p] = "handled"
  /\ queue' = Dequeued(p, 4)
  /\ outg' = [outg EXCEPT ![p] = IF @ > 0 THEN @ - 1 ELSE 0]
  /\ UNCHANGED <<lk, disp, pc, open, hand, inc, watch, caller, armed, stale>>

\* Mutant of StopWaiting: the game is made to look at the file before the
\* handler has its lock back.
StopWaiting_LooksEarly(p) ==
  /\ hand[p] = "wait" /\ inc[p] = 0
  /\ hand' = [hand EXCEPT ![p] = "relock"]
  /\ stale' = [stale EXCEPT ![p] = FALSE]
  /\ UNCHANGED <<kernel, pc, open, counts, watch, caller, armed>>

\* handle_sigrtmin1 goes on when all senders are done...
StopWaiting(p) ==
  /\ hand[p] = "wait" /\ inc[p] = 0
  /\ hand' = [hand EXCEPT ![p] = "relock"]
  /\ UNCHANGED <<kernel, pc, open, counts, watch, caller, armed, stale>>

\* ...or after three seconds without a signal.
GiveUpWaiting(p) ==
  /\ p \in Slow /\ turns[p] < MaxTurns
  /\ hand[p] = "wait" /\ inc[p] > 0
  /\ inc' = [inc EXCEPT ![p] = 0]
  /\ hand' = [hand EXCEPT ![p] = "relock"]
  /\ turns' = [turns EXCEPT ![p] = @ + 1]
  /\ UNCHANGED <<kernel, pc, open, outg, watch, want, peer, ret, follows, armed, stale>>

\* The alarm of change_fd_lock goes off while a handler that interrupted its
\* sigsuspend waits: it is noted after pselect, and forgotten where the
\* handler puts back the value alarmed had when it began.
AlarmForgotten(p) ==
  /\ p \in Slow /\ armed[p]
  /\ hand[p] = "wait" /\ pc[p] = "loop"
  /\ armed' = [armed EXCEPT ![p] = FALSE]
  /\ UNCHANGED <<kernel, pc, open, hand, counts, watch, caller, stale>>

\* Mutants of Relock: that the lock was not got is not noticed; the game is
\* not made to look at the file.
Relock_Unchecked(p) ==
  /\ hand[p] = "relock" /\ HasFile(p)
  /\ lk' = [lk EXCEPT ![p] = IF Conflicting(p, "read") = {} THEN "read" ELSE @]
  /\ hand' = [hand EXCEPT ![p] = "no"]
  /\ IF follows[p] = "frozen" THEN UNCHANGED <<stale, follows>> ELSE Looks(p)
  /\ UNCHANGED <<queue, disp, pc, open, counts, watch, want, peer, ret, turns, armed>>

Relock_NoCancel(p) ==
  /\ hand[p] = "relock" /\ HasFile(p)
  /\ Conflicting(p, "read") = {}
  /\ lk' = [lk EXCEPT ![p] = "read"]
  /\ hand' = [hand EXCEPT ![p] = "no"]
  /\ UNCHANGED <<queue, disp, pc, open, counts, watch, caller, armed, stale>>

\* The handler blocks until nobody writes, takes the read lock back and makes
\* the game look at the file (win_server_cancel), but not while it is frozen.
Relock(p) ==
  /\ hand[p] = "relock" /\ HasFile(p)
  /\ Conflicting(p, "read") = {}
  /\ lk' = [lk EXCEPT ![p] = "read"]
  /\ hand' = [hand EXCEPT ![p] = "no"]
  /\ IF follows[p] = "frozen" THEN UNCHANGED <<stale, follows>> ELSE Looks(p)
  /\ UNCHANGED <<queue, disp, pc, open, counts, watch, want, peer, ret, turns, armed>>

-----------------------------------------------------------------------------
(* What ends a process, or its game. *)

Die(p) ==
  /\ pc' = [pc EXCEPT ![p] = "dead"]
  /\ lk' = [lk EXCEPT ![p] = "none"]
  /\ queue' = [queue EXCEPT ![p] = NoSignals]
  /\ open' = [open EXCEPT ![p] = FALSE]
  /\ hand' = [hand EXCEPT ![p] = "no"]
  /\ inc' = [inc EXCEPT ![p] = 0]
  /\ outg' = [outg EXCEPT ![p] = 0]
  /\ watch' = [watch EXCEPT ![p] = <<>>]
  /\ armed' = [armed EXCEPT ![p] = FALSE]
  /\ stale' = [stale EXCEPT ![p] = FALSE]
  /\ UNCHANGED <<disp, caller>>

\* Killed from outside at any point.
Crash(p) ==
  /\ p \in Mortal /\ pc[p] # "dead"
  /\ Die(p)

\* The handler cannot take the lock back: there is no file any more, or
\* somebody wrote for three seconds.  It calls abort().
RelockAbort(p) ==
  /\ hand[p] = "relock"
  /\ \/ ~HasFile(p)
     \/ p \in Slow /\ Conflicting(p, "read") # {}
  /\ Die(p)

\* The default action of a signal nh_lib_init did not set to be ignored.
DefaultAction(p) == \E n \in Signal :
  /\ Delivers(p, n) /\ disp[p] = "initial"
  /\ Die(p)

\* The end of nh_play_game (game_running is cleared) and log_uninit: the
\* signals are ignored from here on, those that are pending are discarded, and
\* the file is unlocked.
Leave(p) ==
  /\ p \in Leavers
  /\ open[p] /\ hand[p] = "no"
  /\ pc[p] \in Section \cup {"failed"}
  /\ disp' = [disp EXCEPT ![p] = "ignored"]
  /\ queue' = [queue EXCEPT ![p] = NoSignals]
  /\ lk' = [lk EXCEPT ![p] = "none"]
  /\ pc' = [pc EXCEPT ![p] = "out"]
  /\ open' = [open EXCEPT ![p] = FALSE]
  /\ stale' = [stale EXCEPT ![p] = FALSE]
  /\ follows' = [follows EXCEPT ![p] = IF p \in Freezers THEN "frozen" ELSE @]
  /\ UNCHANGED <<hand, counts, watch, want, peer, ret, turns, armed>>

-----------------------------------------------------------------------------
(* What is done under the locks. *)

\* in_zero_time_command is set: by the main loop, or for a menu of a panic.
Freeze(p) ==
  /\ p \in Freezers
  /\ open[p] /\ hand[p] = "no" /\ pc[p] \in Section \cup {"failed"}
  /\ follows[p] # "frozen"
  /\ follows' = [follows EXCEPT ![p] = "frozen"]
  /\ UNCHANGED <<kernel, pc, open, hand, counts, watch, want, peer, ret, turns>>
  /\ UNCHANGED <<armed, stale>>

\* It is cleared, or the game has been loaded.
Thaw(p) ==
  /\ hand[p] = "no" /\ pc[p] = "monitor"
  /\ follows[p] = "frozen"
  /\ follows' = [follows EXCEPT ![p] = IF stale[p] THEN "behind" ELSE "live"]
  /\ UNCHANGED <<kernel, pc, open, hand, counts, watch, want, peer, ret, turns>>
  /\ UNCHANGED <<armed, stale>>

\* read_log_header for nh_get_savegame_status: a blocking read lock from the
\* menu, with whatever dispositions the signals have.  (After a second in
\* vain it gives up, which changes nothing.)
Peek(p) ==
  /\ p \in Peekers
  /\ pc[p] = "out" /\ hand[p] = "no"
  /\ Conflicting(p, "read") = {}
  /\ lk' = [lk EXCEPT ![p] = "read"]
  /\ pc' = [pc EXCEPT ![p] = "peek"]
  /\ UNCHANGED <<queue, disp, open, hand, counts, watch, caller, armed, stale>>

PeekDone(p) ==
  /\ pc[p] = "peek" /\ hand[p] = "no"
  /\ lk' = [lk EXCEPT ![p] = "none"]
  /\ pc' = [pc EXCEPT ![p] = "out"]
  /\ UNCHANGED <<queue, disp, open, hand, counts, watch, caller, armed, stale>>

\* The writer changes the file.
Update(p) ==
  /\ pc[p] = "write"
  /\ stale' = [q \in Procs |-> stale[q] \/ (q # p /\ open[q])]
  /\ UNCHANGED <<kernel, pc, open, hand, counts, watch, caller, armed>>

-----------------------------------------------------------------------------
\* What the thread of p does by itself once change_fd_lock is called.
Locking(p) == SetLock(p) \/ FindHolder(p) \/ AskHolder(p) \/ TellWatcher(p) \/ Return(p)

Handler(p) ==
  Relinquish(p) \/ RelinquishAgain(p) \/ MayRelock(p) \/ Answered(p) \/ DefaultAction(p)

\* A read or write section ends with the return to the monitor lock, a panic
\* goes on with a read lock, a look from the menu ends with the unlocking.
SectionEnds(p) ==
  \/ pc[p] \in {"read", "write"} /\ ChangeLock(p, "monitor")
  \/ pc[p] = "failed" /\ ChangeLock(p, "read")
  \/ PeekDone(p)

Next == \E p \in Procs :
  \/ \E type \in Section : ChangeLock(p, type)
  \/ Locking(p) \/ Handler(p)
  \/ Alarm(p) \/ StopWaiting(p) \/ GiveUpWaiting(p) \/ AlarmForgotten(p) \/ Relock(p)
  \/ Crash(p) \/ RelockAbort(p) \/ Leave(p)
  \/ Peek(p) \/ PeekDone(p) \/ Update(p)
  \/ Freeze(p) \/ Thaw(p)

Spec == Init /\ [][Next]_vars

\* What p does next, whoever else does what: in change_fd_lock, or in the
\* pselect of its handler.
Runs(p) ==
  \/ Locking(p)
  \/ RelinquishAgain(p) \/ MayRelock(p)
  \/ StopWaiting(p)

\* Every process that can go on does, and ends its sections; a signal that is
\* again and again pending and unmasked is delivered; a record lock that is
\* free again and again is got by the process that blocks for it; an alarm
\* goes off.
Fairness == \A p \in Procs :
  /\ WF_vars(Runs(p))
  /\ SF_vars(Relinquish(p)) /\ SF_vars(Answered(p))
  /\ SF_vars(Relock(p))
  /\ SF_vars(SectionEnds(p))
  /\ WF_vars(Alarm(p))

FairSpec == Spec /\ Fairness

-----------------------------------------------------------------------------
(* Properties. *)

\* Every variable has a value of its type.
TypeOK ==
  /\ lk    \in [Procs -> {"none", "read", "write"}]
  /\ queue \in [Procs -> [Signal -> Seq(Procs)]]
  /\ disp  \in [Procs -> {"initial", "handled", "ignored"}]
  /\ pc    \in [Procs -> Idle \cup {"loop", "ask", "flush", "dead"}]
  /\ want  \in [Procs -> Section]
  /\ open  \in [Procs -> BOOLEAN]
  /\ hand  \in [Procs -> {"no", "wait", "relock"}]
  /\ inc   \in [Procs -> Nat]
  /\ outg  \in [Procs -> Nat]
  /\ watch \in [Procs -> Seq(Procs)]
  /\ peer  \in [Procs -> Procs]
  /\ ret   \in [Procs -> BOOLEAN]
  /\ armed \in [Procs -> BOOLEAN]
  /\ stale \in [Procs -> BOOLEAN]
  /\ follows \in [Procs -> {"live", "frozen", "behind"}]
  /\ turns \in [Procs -> 0..MaxTurns]

\* A process that works under a lock has it: nobody writes while it is in a
\* read section, and in a write section it has the file to itself.  Handlers
\* give locks up asynchronously; the masks keep them out of these sections.
SectionLocked == \A p \in Procs :
  /\ pc[p] = "read"  => lk[p] # "none"
  /\ pc[p] = "write" => lk[p] = "write" /\ \A q \in Procs \ {p} : lk[q] = "none"

\* The key invariant of the code's comment: if a process has the file
\* write-locked, every other process that has the file open has been informed,
\* that is, it is in the handler at whose end it looks at the file again.
InformedOfWrite == \A p, q \in Procs :
  lk[p] = "write" /\ q # p /\ open[q] => hand[q] # "no"

\* No process works from a file that was written since it last looked: while it
\* misses a write it is stopped in its handler, without a lock, or it is frozen
\* or was frozen when the write was missed; and then it neither reads nor writes
\* the file before it has looked.
NoSilentWrite == \A p \in Procs : stale[p] =>
  \/ hand[p] # "no" /\ lk[p] = "none"
  \/ follows[p] # "live" /\ pc[p] \notin {"read", "write"}

\* The requests of p that are still on their way to, or pending at, a holder.
Requests(p) ==
  {at \in Procs \X {0, 1} \X (1..Cardinality(Procs)) :
     LET pending == queue[at[1]][at[2]]
     IN at[3] <= Len(pending) /\ pending[at[3]] = p}

\* "If we know a reason why the file would be locked, we block on a signal,
\* because we're going to get one": every request change_fd_lock counts as
\* unmatched is pending at a process that will handle it, or answered.
BlocksOnComingSignal == \A p \in Procs :
  outg[p] <= Len(queue[p][4]) + Cardinality(Requests(p))

\* How often p is on the list of the processes somebody has yet to tell.
OnLists(p) ==
  {at \in Procs \X (1..MaxAsked) :
     LET list == watch[at[1]]
     IN at[2] <= Len(list) /\ list[at[2]] = p}

\* While nobody fails, every request to unlock, counted or pending, is matched
\* by exactly one release, pending or still to be sent: a handler neither
\* locks the file again before a writer has got it, nor waits for a release
\* that was consumed already.
CountsMatch == \A p \in Procs :
  inc[p] + Len(queue[p][0]) + Len(queue[p][1])
    = Len(queue[p][2]) + Len(queue[p][3]) + Cardinality(OnLists(p))

\* Where change_fd_lock has been called and not returned.
Changing(p) == pc[p] \in {"loop", "ask", "flush"}

\* What p does next waits for no other process: it is at a place of
\* change_fd_lock that does not block, a signal it waits for is there, the lock
\* its handler blocks for is free, or it works under its lock.
GoesOn(p) ==
  \/ pc[p] \in {"ask", "flush", "read", "write"}
  \/ pc[p] = "loop" /\ hand[p] = "no" /\ inc[p] = 0 /\ outg[p] = 0
  \/ disp[p] = "handled" /\ \E n \in Signal : Delivers(p, n)
  \/ hand[p] = "wait" /\ inc[p] = 0
  \/ hand[p] = "relock" /\ HasFile(p) /\ Conflicting(p, "read") = {}

\* The processes never all wait for each other: while one is in
\* change_fd_lock, some process can go on.
NoDeadlock == (\E p \in Procs : Changing(p)) => \E p \in Procs : GoesOn(p)

\* Nobody is killed by a signal that is part of the locking.
NobodyKilled == \A p \in Procs : pc[p] # "dead"

\* Every call of change_fd_lock returns.
ChangeReturns == \A p \in Procs : Changing(p) ~> ~Changing(p)

-----------------------------------------------------------------------------
(* The inductive invariant of the proofs. *)

\* A write lock excludes every other lock.
Exclusion == \A p, q \in Procs : lk[p] = "write" /\ q # p => lk[q] = "none"

\* Requests are outstanding only in the loop of change_fd_lock, and counted
\* only by a handler that waits.
CountsInPlace == \A p \in Procs :
  /\ pc[p] # "loop" => outg[p] = 0
  /\ hand[p] # "wait" => inc[p] = 0

\* The handler interrupts only code that holds no lock it relies on, and has
\* no lock itself.
HandlerInPlace == \A p \in Procs : hand[p] # "no" =>
  /\ pc[p] \in {"out", "peek", "monitor", "loop"}
  /\ HasFile(p) => lk[p] = "none"

\* The file is open in the sections, and a process that has it open, and is
\* not in the handler, has a lock on it.  It is opened with a monitor lock.
OpenLocked == \A p \in Procs :
  /\ pc[p] \in {"loop", "ask", "flush"} /\ ~open[p] => want[p] = "monitor"
  /\ open[p] => pc[p] \notin {"out", "peek", "dead"}
  /\ pc[p] \in Section \cup {"failed"} => open[p]
  /\ pc[p] \in {"out", "dead"} => lk[p] = "none"
  /\ open[p] /\ hand[p] = "no" => lk[p] # "none"

\* A write lock is held exactly by a process on its way into, in, or on its
\* way out of a write section; a lock that was got is held; a call fails only
\* where it ends.
WriteInPlace == \A p \in Procs :
  /\ pc[p] \in {"loop", "ask"} => ret[p]
  /\ pc[p] = "write" => lk[p] = "write"
  /\ lk[p] = "write" => \/ pc[p] = "write"
                        \/ pc[p] = "loop" /\ outg[p] = 0
                        \/ pc[p] = "flush" /\ ret[p] /\ want[p] = "write"
  /\ pc[p] = "flush" /\ ret[p] => lk[p] = FlockType(want[p])

\* A process that misses a write has the file open and is stopped in its handler,
\* or is, or was, frozen and has not come to a section since.
StaleInPlace == \A p \in Procs : stale[p] =>
  /\ open[p]
  /\ \/ hand[p] # "no"
     \/ follows[p] # "live" /\ pc[p] \notin {"read", "write"}

\* The invariants above are inductive together.
LockInv ==
  /\ TypeOK /\ Exclusion /\ CountsInPlace /\ HandlerInPlace
  /\ OpenLocked /\ WriteInPlace /\ StaleInPlace

-----------------------------------------------------------------------------
(* The inductive invariant of the counters.  It holds while nobody fails:   *)
(* whoever leaves, is killed or gives up leaves signals behind.             *)

NobodyFails == Peekers = {} /\ Leavers = {} /\ Mortal = {} /\ Slow = {}

\* Everybody is outside, without handlers or signals, or handles the signals.
EverybodyHandles == \A p \in Procs :
  /\ pc[p] \notin {"peek", "failed", "dead"}
  /\ ret[p]
  /\ disp[p] = IF pc[p] = "out" THEN "initial" ELSE "handled"
  /\ pc[p] = "out" => hand[p] = "no" /\ \A n \in 0..3 : queue[p][n] = <<>>

\* Who is asked, or is to be told, is another process that handles signals.
OthersOnLists == \A p \in Procs :
  /\ pc[p] = "ask" => peer[p] # p /\ pc[peer[p]] # "out" /\ Len(watch[p]) < MaxAsked
  /\ Len(watch[p]) <= MaxAsked
  /\ \A i \in 1..Len(watch[p]) : watch[p][i] # p /\ pc[watch[p][i]] # "out"

\* A process asks for one lock at a time: its request is pending, or its answer.
Pending(p, q, n) == {i \in 1..Len(queue[q][n]) : queue[q][n][i] = p}
SomeRequest(p) == \E q \in Procs, n \in {0, 1} : Pending(p, q, n) # {}
AsksOnce == \A p \in Procs :
  /\ \A q, r \in Procs, n, m \in {0, 1} :
       \A i \in Pending(p, q, n), j \in Pending(p, r, m) : q = r /\ n = m /\ i = j
  /\ outg[p] = 0 => queue[p][4] = <<>> /\ ~SomeRequest(p)
  /\ outg[p] # 0 => outg[p] = 1 /\ IF SomeRequest(p) THEN queue[p][4] = <<>>
                                                     ELSE Len(queue[p][4]) = 1

\* The requests to p that were accepted and have no release yet that was counted:
\* those of higher PIDs (+0 and +2), and those of lower ones (+1 and +3).
FromHigher(p) == {at \in OnLists(p) : at[1] > p}
FromLower(p)  == {at \in OnLists(p) : at[1] < p}
OwedToHigher(p) == Len(queue[p][2]) + Cardinality(FromHigher(p)) - Len(queue[p][0])
OwedToLower(p)  == Len(queue[p][3]) + Cardinality(FromLower(p)) - Len(queue[p][1])

\* unmatched_sigrtmin1s_incoming is their number.  While sigsuspend waits, +0 and
\* +2 are masked together, and none of higher PIDs are under way.
IncomingCounted == \A p \in Procs :
  /\ OwedToHigher(p) >= 0 /\ OwedToLower(p) >= 0
  /\ inc[p] = OwedToHigher(p) + OwedToLower(p)
  /\ pc[p] = "loop" => OwedToHigher(p) = 0

CountInv == EverybodyHandles /\ OthersOnLists /\ AsksOnce /\ IncomingCounted

\* Whoever waits for a lower PID only is not part of a circle: SIGRTMIN+0 comes
\* from higher PIDs, and there is somebody to tell only inside change_fd_lock.
AskedByRank == \A p \in Procs :
  /\ watch[p] # <<>> => Changing(p)
  /\ \A i \in 1..Len(queue[p][0]) : queue[p][0][i] > p

-----------------------------------------------------------------------------
(* The locking implements MonitorLock. *)

ModeOf(lock, isOpen) ==
  CASE lock = "write"           -> "exclusive"
    [] lock = "read"            -> "shared"
    [] lock = "none" /\ isOpen  -> "told"
    [] OTHER                    -> "outside"

Mode(p) == ModeOf(lk[p], open[p])

Promise == INSTANCE MonitorLock WITH
  mode  <- [p \in Procs |-> Mode(p)],
  stale <- {p \in Procs : stale[p]},
  away  <- {p \in Procs : follows[p] # "live"}

PromiseKept == Promise!Spec
=============================================================================
