---------------------------- MODULE FdLockProofs ----------------------------
(* Theorems about FdLock, and their proofs. *)
EXTENDS FdLock, SequenceTheorems, FiniteSetTheorems, WellFoundedInduction,
        TLAPS

-----------------------------------------------------------------------------
(* Signals. *)

Queues == [Procs -> [Signal -> Seq(Procs)]]

\* sigqueue keeps the queues well-typed...
LEMMA SentType ==
  ASSUME NEW qs \in Queues, NEW p \in Procs, NEW q \in Procs, NEW n \in Signal
  PROVE  Sent(qs, p, q, n) \in Queues
<1>1. Append(qs[q][n], p) \in Seq(Procs)
  BY DEF Queues
<1>2. [qs[q] EXCEPT ![n] = Append(qs[q][n], p)] \in [Signal -> Seq(Procs)]
  BY <1>1 DEF Queues
<1>3. [qs EXCEPT ![q][n] = Append(@, p)] \in Queues
  BY <1>2 DEF Queues
<1> QED
  BY <1>3 DEF Sent

\* ...and so does a delivery.
LEMMA DequeuedType ==
  ASSUME queue \in Queues, NEW p \in Procs, NEW n \in Signal, Delivers(p, n)
  PROVE  Dequeued(p, n) \in Queues /\ Head(queue[p][n]) \in Procs
<1>1. queue[p][n] \in Seq(Procs) /\ queue[p][n] # <<>>
  BY DEF Queues, Delivers, Deliverable
<1>2. Tail(queue[p][n]) \in Seq(Procs) /\ Head(queue[p][n]) \in Procs
  BY <1>1, HeadTailProperties
<1>3. [queue[p] EXCEPT ![n] = Tail(queue[p][n])] \in [Signal -> Seq(Procs)]
  BY <1>2 DEF Queues
<1> QED
  BY <1>2, <1>3 DEF Queues, Dequeued

\* What LockInv says besides the types; it does not depend on the queues.
LockRest ==
  /\ Exclusion /\ CountsInPlace /\ HandlerInPlace
  /\ OpenLocked /\ WriteInPlace /\ StaleInPlace

\* The names of the lock sections and of the other places above change_fd_lock
\* are plain sets, expanded everywhere below.
USE DEF Section, Idle

\* The invariant holds when the library is initialised.
LEMMA InitInv == Init => LockInv
<1> SUFFICES ASSUME Init PROVE LockInv
  OBVIOUS
<1>1. NoSignals \in [Signal -> Seq(Procs)]
  BY DEF NoSignals
<1>2. TypeOK
  BY <1>1, BoundAssumption DEF Init, TypeOK
<1>3. LockRest
  BY DEF Init, LockRest, Exclusion, CountsInPlace, HandlerInPlace, OpenLocked,
         WriteInPlace, StaleInPlace
<1> QED
  BY <1>2, <1>3 DEF LockInv, LockRest

\* A process that has the write lock waits for nobody.
LEMMA WriterAsksNobody ==
  ASSUME LockInv, NEW p \in Procs, lk[p] = "write", pc[p] = "loop", hand[p] = "no"
  PROVE  inc[p] = 0 /\ outg[p] = 0 /\ ~(inc[p] + outg[p] > 0)
<1>1. inc[p] = 0
  BY DEF LockInv, CountsInPlace
<1>2. outg[p] = 0
  BY DEF LockInv, WriteInPlace
<1> QED
  BY <1>1, <1>2

\* The masks of change_fd_lock: SIGRTMIN+0 and +1 get through only where the
\* process relies on no lock.
LEMMA WhereAsked ==
  ASSUME NEW p \in Procs, NEW n \in {0, 1}, Delivers(p, n), hand[p] = "no"
  PROVE  pc[p] \in {"out", "peek", "monitor", "loop"}
<1>1. pc[p] \in Idle \cup {"loop"}
  BY DEF Delivers, Interruptible
<1>2. ASSUME pc[p] \in {"read", "write", "failed"} PROVE FALSE
  <2>1. Unmasked(p) = {4}
    BY <1>2 DEF Unmasked
  <2> QED
    BY <2>1 DEF Delivers, Deliverable
<1> QED
  BY <1>1, <1>2

-----------------------------------------------------------------------------
(* Each step keeps the invariant: one lemma for each. *)

\* A call of change_fd_lock begins where no handler runs, and drops nothing.
LEMMA ChangeLockStep ==
  ASSUME LockInv, NEW p \in Procs, NEW type \in Section, ChangeLock(p, type)
  PROVE  LockInv'
<1> USE DEF LockInv, ChangeLock, kernel, counts
<1>1. TypeOK'
  BY BoundAssumption DEF TypeOK, Calls
<1>2. Exclusion'
  BY DEF TypeOK, Exclusion
<1>3. CountsInPlace'
  BY DEF TypeOK, CountsInPlace
<1>4. HandlerInPlace'
  BY DEF TypeOK, HandlerInPlace, HasFile
<1>5. OpenLocked'
  BY DEF TypeOK, Calls, OpenLocked
<1>6. WriteInPlace'
  BY DEF TypeOK, WriteInPlace, CountsInPlace
<1>7. StaleInPlace'
  BY DEF TypeOK, StaleInPlace
<1> QED
  BY <1>1, <1>2, <1>3, <1>4, <1>5, <1>6, <1>7

\* F_SETLK sets a lock that no other lock is in the way of.
LEMMA SetLockStep ==
  ASSUME LockInv, NEW p \in Procs, SetLock(p)
  PROVE  LockInv'
<1> USE DEF LockInv, SetLock, counts, caller
<1>1. TypeOK'
  BY BoundAssumption DEF TypeOK, FlockType
<1>2. Exclusion'
  BY DEF TypeOK, Conflicting, Exclusion
<1>3. CountsInPlace'
  BY DEF TypeOK, CountsInPlace
<1>4. HandlerInPlace'
  BY DEF TypeOK, HandlerInPlace, HasFile
<1>5. OpenLocked'
  BY DEF TypeOK, FlockType, OpenLocked
<1>6. WriteInPlace'
  BY DEF TypeOK, FlockType, WriteInPlace
<1>7. StaleInPlace'
  BY DEF TypeOK, StaleInPlace
<1> QED
  BY <1>1, <1>2, <1>3, <1>4, <1>5, <1>6, <1>7

\* A process that has the write lock finds nobody in its way.
LEMMA FindHolderStep ==
  ASSUME LockInv, NEW p \in Procs, FindHolder(p)
  PROVE  LockInv'
<1> USE DEF LockInv, FindHolder, kernel, counts
<1>1. TypeOK'
  BY BoundAssumption DEF TypeOK, Conflicting
<1>2. Exclusion'
  BY DEF TypeOK, Exclusion
<1>3. CountsInPlace'
  BY DEF TypeOK, CountsInPlace
<1>4. HandlerInPlace'
  BY DEF TypeOK, HandlerInPlace, HasFile
<1>5. OpenLocked'
  BY DEF TypeOK, OpenLocked
<1>6. WriteInPlace'
  BY DEF TypeOK, Conflicting, WriteInPlace, Exclusion
<1>7. StaleInPlace'
  BY DEF TypeOK, StaleInPlace
<1> QED
  BY <1>1, <1>2, <1>3, <1>4, <1>5, <1>6, <1>7

\* A request is outstanding only in the loop.
LEMMA AskHolderStep ==
  ASSUME LockInv, NEW p \in Procs, AskHolder(p)
  PROVE  LockInv'
<1> USE DEF LockInv, AskHolder
<1>1. TypeOK'
  <2>1. queue' \in Queues
    <3>1. peer[p] \in Procs /\ queue \in Queues
      BY DEF TypeOK, Queues
    <3>2. (IF peer[p] < p THEN 0 ELSE 1) \in Signal
      BY DEF Signal
    <3> QED
      BY <3>1, <3>2, SentType
  <2>2. Append(watch[p], peer[p]) \in Seq(Procs)
    BY DEF TypeOK
  <2> QED
    BY <2>1, <2>2 DEF TypeOK, Queues
<1>2. Exclusion'
  BY DEF TypeOK, Exclusion
<1>3. CountsInPlace'
  BY DEF TypeOK, CountsInPlace
<1>4. HandlerInPlace'
  BY DEF TypeOK, HandlerInPlace, HasFile
<1>5. OpenLocked'
  BY DEF TypeOK, OpenLocked
<1>6. WriteInPlace'
  BY DEF TypeOK, WriteInPlace, HandlerInPlace
<1>7. StaleInPlace'
  BY DEF TypeOK, StaleInPlace
<1> QED
  BY <1>1, <1>2, <1>3, <1>4, <1>5, <1>6, <1>7

\* A process that times out has no write lock, for it waits for somebody.
LEMMA AlarmStep ==
  ASSUME LockInv, NEW p \in Procs, Alarm(p)
  PROVE  LockInv'
<1> USE DEF LockInv, Alarm, kernel
<1>1. TypeOK'
  BY BoundAssumption DEF TypeOK
<1>2. Exclusion'
  BY DEF TypeOK, Exclusion
<1>3. CountsInPlace'
  BY DEF TypeOK, CountsInPlace
<1>4. HandlerInPlace'
  BY DEF TypeOK, HandlerInPlace, HasFile
<1>5. OpenLocked'
  BY DEF TypeOK, OpenLocked
<1>6. lk[p] # "write"
  BY WriterAsksNobody
<1>7. WriteInPlace'
  BY <1>6 DEF TypeOK, WriteInPlace
<1>8. StaleInPlace'
  BY DEF TypeOK, StaleInPlace
<1> QED
  BY <1>1, <1>2, <1>3, <1>4, <1>5, <1>7, <1>8

\* Telling a watcher changes nothing but signals.
LEMMA TellWatcherStep ==
  ASSUME LockInv, NEW p \in Procs, TellWatcher(p)
  PROVE  LockInv'
<1> USE DEF LockInv, TellWatcher, counts, caller
<1>1. TypeOK'
  <2>1. watch[p] \in Seq(Procs) /\ Len(watch[p]) \in 1..Len(watch[p])
    BY DEF TypeOK
  <2>2. watch[p][Len(watch[p])] \in Procs
    BY <2>1, ElementOfSeq
  <2>3. SubSeq(watch[p], 1, Len(watch[p]) - 1) \in Seq(Procs)
    BY <2>1
  <2>4. queue' \in Queues
    <3>1. queue \in Queues
      BY DEF TypeOK, Queues
    <3>2. (IF watch[p][Len(watch[p])] < p THEN 2 ELSE 3) \in Signal
      BY DEF Signal
    <3> QED
      BY <2>2, <3>1, <3>2, SentType
  <2> QED
    BY <2>3, <2>4 DEF TypeOK, Queues
<1>2. Exclusion'
  BY DEF TypeOK, Exclusion
<1>3. CountsInPlace'
  BY DEF TypeOK, CountsInPlace
<1>4. HandlerInPlace'
  BY DEF TypeOK, HandlerInPlace, HasFile
<1>5. OpenLocked'
  BY DEF TypeOK, OpenLocked
<1>6. WriteInPlace'
  BY DEF TypeOK, WriteInPlace
<1>7. StaleInPlace'
  BY DEF TypeOK, StaleInPlace
<1> QED
  BY <1>1, <1>2, <1>3, <1>4, <1>5, <1>6, <1>7

\* change_fd_lock returns with the lock, or gives the file up; in the sections
\* the file is looked at.
LEMMA ReturnStep ==
  ASSUME LockInv, NEW p \in Procs, Return(p)
  PROVE  LockInv'
<1> USE DEF LockInv, Return, counts, Looks
<1>1. TypeOK'
  BY BoundAssumption DEF TypeOK
<1>2. Exclusion'
  BY DEF TypeOK, Exclusion
<1>3. CountsInPlace'
  BY DEF TypeOK, CountsInPlace
<1>4. HandlerInPlace'
  BY DEF TypeOK, HandlerInPlace, HasFile
<1>5. OpenLocked'
  BY DEF TypeOK, FlockType, OpenLocked, WriteInPlace
<1>6. WriteInPlace'
  BY DEF TypeOK, FlockType, WriteInPlace
<1>7. StaleInPlace'
  BY DEF TypeOK, StaleInPlace
<1> QED
  BY <1>1, <1>2, <1>3, <1>4, <1>5, <1>6, <1>7

\* The handler takes away only locks that nobody relies on.
LEMMA RelinquishStep ==
  ASSUME LockInv, NEW p \in Procs, Relinquish(p)
  PROVE  LockInv'
<1>1. queue' \in Queues /\ pc[p] \in {"out", "peek", "monitor", "loop"}
  <2>1. PICK n \in {0, 1} :
          /\ Delivers(p, n) /\ hand[p] = "no"
          /\ queue' = Sent(Dequeued(p, n), p, Head(queue[p][n]), 4)
    BY DEF Relinquish
  <2>2. n \in Signal /\ 4 \in Signal /\ queue \in Queues
    BY DEF Signal, LockInv, TypeOK, Queues
  <2>3. queue' \in Queues
    BY <2>1, <2>2, DequeuedType, SentType
  <2> QED
    BY <2>1, <2>3, WhereAsked
<1>2. /\ lk' = [lk EXCEPT ![p] = IF HasFile(p) THEN "none" ELSE @]
      /\ inc' = [inc EXCEPT ![p] = @ + 1]
      /\ hand' = [hand EXCEPT ![p] = "wait"]
      /\ UNCHANGED <<disp, pc, open, outg, watch, want, peer, ret, turns, follows, armed,
                  stale>>
  BY DEF Relinquish, caller
<1>3. TypeOK'
  BY <1>1, <1>2 DEF LockInv, TypeOK, Queues
<1>4. Exclusion'
  BY <1>1, <1>2 DEF LockInv, TypeOK, Exclusion
<1>5. CountsInPlace'
  BY <1>1, <1>2 DEF LockInv, TypeOK, CountsInPlace
<1>6. HandlerInPlace'
  BY <1>1, <1>2 DEF LockInv, TypeOK, HandlerInPlace, HasFile
<1>7. OpenLocked'
  BY <1>1, <1>2 DEF LockInv, TypeOK, OpenLocked
<1>8. WriteInPlace'
  BY <1>1, <1>2 DEF LockInv, TypeOK, WriteInPlace
<1>9. StaleInPlace'
  BY <1>1, <1>2 DEF LockInv, TypeOK, StaleInPlace
<1> QED
  BY <1>3, <1>4, <1>5, <1>6, <1>7, <1>8, <1>9 DEF LockInv

\* A second request changes a count of a handler that waits.
LEMMA RelinquishAgainStep ==
  ASSUME LockInv, NEW p \in Procs, RelinquishAgain(p)
  PROVE  LockInv'
<1>1. queue' \in Queues
  <2>1. PICK n \in {0, 1} :
          /\ Delivers(p, n)
          /\ queue' = Sent(Dequeued(p, n), p, Head(queue[p][n]), 4)
    BY DEF RelinquishAgain
  <2>2. n \in Signal /\ 4 \in Signal /\ queue \in Queues
    BY DEF Signal, LockInv, TypeOK, Queues
  <2> QED
    BY <2>1, <2>2, DequeuedType, SentType
<1>2. /\ hand[p] = "wait" /\ inc' = [inc EXCEPT ![p] = @ + 1]
      /\ UNCHANGED <<lk, disp, pc, open, hand, outg, watch, want, peer, ret, turns, follows,
                     armed, stale>>
  BY DEF RelinquishAgain, caller
<1>3. TypeOK'
  BY <1>1, <1>2 DEF LockInv, TypeOK, Queues
<1>4. Exclusion'
  BY <1>2 DEF LockInv, TypeOK, Exclusion
<1>5. CountsInPlace'
  BY <1>2 DEF LockInv, TypeOK, CountsInPlace
<1>6. HandlerInPlace'
  BY <1>2 DEF LockInv, TypeOK, HandlerInPlace, HasFile
<1>7. OpenLocked'
  BY <1>2 DEF LockInv, TypeOK, OpenLocked
<1>8. WriteInPlace'
  BY <1>2 DEF LockInv, TypeOK, WriteInPlace
<1>9. StaleInPlace'
  BY <1>2 DEF LockInv, TypeOK, StaleInPlace
<1> QED
  BY <1>3, <1>4, <1>5, <1>6, <1>7, <1>8, <1>9 DEF LockInv

\* A release never makes the count negative.
LEMMA MayRelockStep ==
  ASSUME LockInv, NEW p \in Procs, MayRelock(p)
  PROVE  LockInv'
<1>1. queue' \in Queues
  <2>1. PICK n \in {2, 3} : Delivers(p, n) /\ queue' = Dequeued(p, n)
    BY DEF MayRelock
  <2>2. n \in Signal /\ queue \in Queues
    BY DEF Signal, LockInv, TypeOK, Queues
  <2> QED
    BY <2>1, <2>2, DequeuedType
<1>2. /\ inc' = [inc EXCEPT ![p] = IF @ > 0 THEN @ - 1 ELSE 0]
      /\ UNCHANGED <<lk, disp, pc, open, hand, outg, watch, want, peer, ret, turns, follows,
                     armed, stale>>
  BY DEF MayRelock, caller
<1>3. TypeOK'
  BY <1>1, <1>2 DEF LockInv, TypeOK, Queues
<1>4. Exclusion'
  BY <1>2 DEF LockInv, TypeOK, Exclusion
<1>5. CountsInPlace'
  BY <1>2 DEF LockInv, TypeOK, CountsInPlace
<1>6. HandlerInPlace'
  BY <1>2 DEF LockInv, TypeOK, HandlerInPlace, HasFile
<1>7. OpenLocked'
  BY <1>2 DEF LockInv, TypeOK, OpenLocked
<1>8. WriteInPlace'
  BY <1>2 DEF LockInv, TypeOK, WriteInPlace
<1>9. StaleInPlace'
  BY <1>2 DEF LockInv, TypeOK, StaleInPlace
<1> QED
  BY <1>3, <1>4, <1>5, <1>6, <1>7, <1>8, <1>9 DEF LockInv

\* An answer never makes the count negative.
LEMMA AnsweredStep ==
  ASSUME LockInv, NEW p \in Procs, Answered(p)
  PROVE  LockInv'
<1> USE DEF LockInv, Answered, caller
<1>1. TypeOK'
  <2>1. 4 \in Signal /\ queue \in Queues
    BY DEF Signal, TypeOK, Queues
  <2>2. queue' \in Queues
    BY <2>1, DequeuedType
  <2> QED
    BY <2>2 DEF TypeOK, Queues
<1>2. Exclusion'
  BY DEF TypeOK, Exclusion
<1>3. CountsInPlace'
  BY DEF TypeOK, CountsInPlace
<1>4. HandlerInPlace'
  BY DEF TypeOK, HandlerInPlace, HasFile
<1>5. OpenLocked'
  BY DEF TypeOK, OpenLocked
<1>6. WriteInPlace'
  BY DEF TypeOK, WriteInPlace
<1>7. StaleInPlace'
  BY DEF TypeOK, StaleInPlace
<1> QED
  BY <1>1, <1>2, <1>3, <1>4, <1>5, <1>6, <1>7

\* A handler that stops waiting has matched everything.
LEMMA StopWaitingStep ==
  ASSUME LockInv, NEW p \in Procs, StopWaiting(p)
  PROVE  LockInv'
<1> USE DEF LockInv, StopWaiting, kernel, counts, caller
<1>1. TypeOK'
  BY BoundAssumption DEF TypeOK
<1>2. Exclusion'
  BY DEF TypeOK, Exclusion
<1>3. CountsInPlace'
  BY DEF TypeOK, CountsInPlace
<1>4. HandlerInPlace'
  BY DEF TypeOK, HandlerInPlace, HasFile
<1>5. OpenLocked'
  BY DEF TypeOK, OpenLocked
<1>6. WriteInPlace'
  BY DEF TypeOK, WriteInPlace
<1>7. StaleInPlace'
  BY DEF TypeOK, StaleInPlace
<1> QED
  BY <1>1, <1>2, <1>3, <1>4, <1>5, <1>6, <1>7

\* A handler that gives up counts nothing any more.
LEMMA GiveUpWaitingStep ==
  ASSUME LockInv, NEW p \in Procs, GiveUpWaiting(p)
  PROVE  LockInv'
<1> USE DEF LockInv, GiveUpWaiting, kernel
<1>1. TypeOK'
  BY BoundAssumption DEF TypeOK
<1>2. Exclusion'
  BY DEF TypeOK, Exclusion
<1>3. CountsInPlace'
  BY DEF TypeOK, CountsInPlace
<1>4. HandlerInPlace'
  BY DEF TypeOK, HandlerInPlace, HasFile
<1>5. OpenLocked'
  BY DEF TypeOK, OpenLocked
<1>6. WriteInPlace'
  BY DEF TypeOK, WriteInPlace
<1>7. StaleInPlace'
  BY DEF TypeOK, StaleInPlace
<1> QED
  BY <1>1, <1>2, <1>3, <1>4, <1>5, <1>6, <1>7

\* A forgotten alarm changes no lock.
LEMMA AlarmForgottenStep ==
  ASSUME LockInv, NEW p \in Procs, AlarmForgotten(p)
  PROVE  LockInv'
<1> USE DEF LockInv, AlarmForgotten, kernel, counts, caller
<1>1. TypeOK'
  BY BoundAssumption DEF TypeOK
<1>2. Exclusion'
  BY DEF TypeOK, Exclusion
<1>3. CountsInPlace'
  BY DEF TypeOK, CountsInPlace
<1>4. HandlerInPlace'
  BY DEF TypeOK, HandlerInPlace, HasFile
<1>5. OpenLocked'
  BY DEF TypeOK, OpenLocked
<1>6. WriteInPlace'
  BY DEF TypeOK, WriteInPlace
<1>7. StaleInPlace'
  BY DEF TypeOK, StaleInPlace
<1> QED
  BY <1>1, <1>2, <1>3, <1>4, <1>5, <1>6, <1>7

\* The handler takes a read lock, and interrupted nothing that has another.
LEMMA RelockStep ==
  ASSUME LockInv, NEW p \in Procs, Relock(p)
  PROVE  LockInv'
<1> USE DEF LockInv, Relock, counts
<1>1. TypeOK'
  <2>1. stale' \in [Procs -> BOOLEAN] /\ follows' \in [Procs -> {"live", "frozen", "behind"}]
    <3>1. CASE follows[p] = "frozen"
      BY <3>1 DEF TypeOK
    <3>2. CASE follows[p] # "frozen"
      <4>1. Looks(p)
        BY <3>2
      <4>2. stale \in [Procs -> BOOLEAN] /\ follows \in [Procs -> {"live", "frozen", "behind"}]
        BY DEF TypeOK
      <4> QED
        BY ONLY <4>1, <4>2 DEF Looks
    <3> QED
      BY <3>1, <3>2
  <2> QED
    BY <2>1 DEF TypeOK, caller
<1>2. Exclusion'
  BY DEF TypeOK, Conflicting, Exclusion
<1>3. CountsInPlace'
  BY DEF TypeOK, CountsInPlace
<1>4. HandlerInPlace'
  BY DEF TypeOK, HandlerInPlace, HasFile
<1>5. OpenLocked'
  BY DEF TypeOK, OpenLocked, HasFile
<1>6. pc[p] \in {"out", "peek", "monitor", "loop"} /\ lk' = [lk EXCEPT ![p] = "read"]
  BY DEF HandlerInPlace
<1>7. UNCHANGED <<pc, outg, ret, want>>
  OBVIOUS
<1>8. WriteInPlace'
  <2> SUFFICES ASSUME NEW q \in Procs PROVE WriteInPlace!(q)'
    BY DEF WriteInPlace
  <2>1. CASE q = p
    BY <2>1, <1>6, <1>7 DEF WriteInPlace, TypeOK
  <2>2. CASE q # p
    BY <2>2, <1>6, <1>7 DEF WriteInPlace, TypeOK
  <2> QED
    BY <2>1, <2>2
<1>9. StaleInPlace'
  <2>1. CASE follows[p] = "frozen"
    BY <1>6, <2>1 DEF TypeOK, StaleInPlace
  <2>2. CASE follows[p] # "frozen"
    BY <1>6, <2>2 DEF TypeOK, StaleInPlace, Looks
  <2> QED
    BY <2>1, <2>2
<1> QED
  BY <1>1, <1>2, <1>3, <1>4, <1>5, <1>8, <1>9

\* The kernel takes the locks of the dead.
LEMMA DieStep ==
  ASSUME LockInv, NEW p \in Procs, Die(p)
  PROVE  LockInv'
<1> USE DEF LockInv, Die, caller
<1>1. TypeOK'
  <2>1. NoSignals \in [Signal -> Seq(Procs)]
    BY DEF NoSignals
  <2> QED
    BY <2>1 DEF TypeOK
<1>2. Exclusion'
  BY DEF TypeOK, Exclusion
<1>3. CountsInPlace'
  BY DEF TypeOK, CountsInPlace
<1>4. HandlerInPlace'
  BY DEF TypeOK, HandlerInPlace, HasFile
<1>5. OpenLocked'
  BY DEF TypeOK, OpenLocked
<1>6. WriteInPlace'
  BY DEF TypeOK, WriteInPlace
<1>7. StaleInPlace'
  BY DEF TypeOK, StaleInPlace
<1> QED
  BY <1>1, <1>2, <1>3, <1>4, <1>5, <1>6, <1>7

\* log_uninit unlocks.
LEMMA LeaveStep ==
  ASSUME LockInv, NEW p \in Procs, Leave(p)
  PROVE  LockInv'
<1> USE DEF LockInv, Leave, counts, caller
<1>1. TypeOK'
  <2>1. NoSignals \in [Signal -> Seq(Procs)]
    BY DEF NoSignals
  <2> QED
    BY <2>1 DEF TypeOK
<1>2. Exclusion'
  BY DEF TypeOK, Exclusion
<1>3. CountsInPlace'
  BY DEF TypeOK, CountsInPlace
<1>4. HandlerInPlace'
  BY DEF TypeOK, HandlerInPlace, HasFile
<1>5. OpenLocked'
  BY DEF TypeOK, OpenLocked
<1>6. WriteInPlace'
  BY DEF TypeOK, WriteInPlace
<1>7. StaleInPlace'
  BY DEF TypeOK, StaleInPlace
<1> QED
  BY <1>1, <1>2, <1>3, <1>4, <1>5, <1>6, <1>7

\* A look from the menu takes a lock without a game.
LEMMA PeekStep ==
  ASSUME LockInv, NEW p \in Procs, Peek(p)
  PROVE  LockInv'
<1> USE DEF LockInv, Peek, counts, caller
<1>1. TypeOK'
  BY BoundAssumption DEF TypeOK
<1>2. Exclusion'
  BY DEF TypeOK, Conflicting, Exclusion
<1>3. CountsInPlace'
  BY DEF TypeOK, CountsInPlace
<1>4. HandlerInPlace'
  BY DEF TypeOK, HandlerInPlace, HasFile
<1>5. OpenLocked'
  BY DEF TypeOK, OpenLocked
<1>6. WriteInPlace'
  BY DEF TypeOK, WriteInPlace
<1>7. StaleInPlace'
  BY DEF TypeOK, StaleInPlace
<1> QED
  BY <1>1, <1>2, <1>3, <1>4, <1>5, <1>6, <1>7

\* The end of a look from the menu gives it back.
LEMMA PeekDoneStep ==
  ASSUME LockInv, NEW p \in Procs, PeekDone(p)
  PROVE  LockInv'
<1> USE DEF LockInv, PeekDone, counts, caller
<1>1. TypeOK'
  BY BoundAssumption DEF TypeOK
<1>2. Exclusion'
  BY DEF TypeOK, Exclusion
<1>3. CountsInPlace'
  BY DEF TypeOK, CountsInPlace
<1>4. HandlerInPlace'
  BY DEF TypeOK, HandlerInPlace, HasFile
<1>5. OpenLocked'
  BY DEF TypeOK, OpenLocked
<1>6. WriteInPlace'
  BY DEF TypeOK, WriteInPlace
<1>7. StaleInPlace'
  BY DEF TypeOK, StaleInPlace
<1> QED
  BY <1>1, <1>2, <1>3, <1>4, <1>5, <1>6, <1>7

\* Freezing changes no lock, and misses nothing in a section.
LEMMA FreezeStep ==
  ASSUME LockInv, NEW p \in Procs, Freeze(p) \/ Thaw(p)
  PROVE  LockInv'
<1>1. /\ UNCHANGED <<lk, queue, disp, pc, want, open, hand, inc, outg, watch, peer, ret,
                     armed, stale, turns>>
      /\ \E f \in {"live", "frozen", "behind"} : follows' = [follows EXCEPT ![p] = f]
  BY DEF Freeze, Thaw, kernel, counts
<1>2. TypeOK' /\ Exclusion' /\ CountsInPlace' /\ HandlerInPlace' /\ OpenLocked'
               /\ WriteInPlace'
  BY <1>1 DEF LockInv, TypeOK, Exclusion, CountsInPlace, HandlerInPlace, HasFile,
              OpenLocked, WriteInPlace
<1>3. StaleInPlace'
  BY DEF LockInv, TypeOK, StaleInPlace, Freeze, Thaw, kernel, counts
<1> QED
  BY <1>2, <1>3 DEF LockInv

\* A write is missed only by processes in their handlers.
LEMMA UpdateStep ==
  ASSUME LockInv, NEW p \in Procs, Update(p)
  PROVE  LockInv'
<1> USE DEF LockInv, Update, kernel, counts, caller
<1>1. TypeOK'
  BY BoundAssumption DEF TypeOK
<1>2. Exclusion'
  BY DEF TypeOK, Exclusion
<1>3. CountsInPlace'
  BY DEF TypeOK, CountsInPlace
<1>4. HandlerInPlace'
  BY DEF TypeOK, HandlerInPlace, HasFile
<1>5. OpenLocked'
  BY DEF TypeOK, OpenLocked
<1>6. WriteInPlace'
  BY DEF TypeOK, WriteInPlace
<1>7. StaleInPlace'
  BY DEF TypeOK, StaleInPlace, OpenLocked, Exclusion, WriteInPlace
<1> QED
  BY <1>1, <1>2, <1>3, <1>4, <1>5, <1>6, <1>7

\* A killed process is one that dies.
LEMMA KillStep ==
  ASSUME LockInv, NEW p \in Procs,
         Crash(p) \/ RelockAbort(p) \/ DefaultAction(p)
  PROVE  LockInv'
<1>1. Die(p)
  BY DEF Crash, RelockAbort, DefaultAction
<1> QED
  BY <1>1, DieStep

\* Every step keeps the invariant.
LEMMA NextInv == LockInv /\ [Next]_vars => LockInv'
<1> SUFFICES ASSUME LockInv, [Next]_vars PROVE LockInv'
  OBVIOUS
<1>1. CASE UNCHANGED vars
  <2>1. UNCHANGED <<lk, queue, disp, pc, want, open, hand, inc, outg, watch, peer, ret, armed,
                    stale, follows, turns>>
    BY <1>1 DEF vars, kernel, counts, caller
  <2> QED
    BY <2>1
    DEF LockInv, TypeOK, Exclusion, CountsInPlace, HandlerInPlace, HasFile, OpenLocked,
        WriteInPlace, StaleInPlace
<1>2. ASSUME NEW p \in Procs, NEW type \in Section, ChangeLock(p, type) PROVE LockInv'
  BY <1>2, ChangeLockStep
<1>3. ASSUME NEW p \in Procs, Locking(p) PROVE LockInv'
  BY <1>3, SetLockStep, FindHolderStep, AskHolderStep, TellWatcherStep, ReturnStep
  DEF Locking
<1>4. ASSUME NEW p \in Procs, Handler(p) PROVE LockInv'
  BY <1>4, RelinquishStep, RelinquishAgainStep, MayRelockStep, AnsweredStep, KillStep
  DEF Handler
<1>5. ASSUME NEW p \in Procs, Alarm(p) \/ StopWaiting(p) \/ GiveUpWaiting(p)
                              \/ AlarmForgotten(p) \/ Relock(p)
      PROVE LockInv'
  BY <1>5, AlarmStep, StopWaitingStep, GiveUpWaitingStep, AlarmForgottenStep, RelockStep
<1>6. ASSUME NEW p \in Procs, Crash(p) \/ RelockAbort(p) \/ Leave(p) PROVE LockInv'
  BY <1>6, KillStep, LeaveStep
<1>7. ASSUME NEW p \in Procs, Peek(p) \/ PeekDone(p) \/ Update(p) PROVE LockInv'
  BY <1>7, PeekStep, PeekDoneStep, UpdateStep
<1>8. ASSUME NEW p \in Procs, Freeze(p) \/ Thaw(p) PROVE LockInv'
  BY <1>8, FreezeStep
<1> QED
  BY <1>1, <1>2, <1>3, <1>4, <1>5, <1>6, <1>7, <1>8 DEF Next

-----------------------------------------------------------------------------
(* What follows from the invariant. *)

\* The inductive invariant of the locking, whatever the processes do, however
\* many there are, and wherever they are killed or time out.
THEOREM LockInvariance == Spec => []LockInv
<1> QED
  BY InitInv, NextInv, PTL DEF Spec

\* Every variable keeps its type; in particular the counts of unmatched
\* signals never go below zero.
THEOREM LockTypes == Spec => []TypeOK
<1>1. LockInv => TypeOK
  BY DEF LockInv
<1> QED
  BY <1>1, LockInvariance, PTL

\* The code between two calls of change_fd_lock has the lock it works under,
\* although handlers give locks up in between.
THEOREM SectionsLocked == Spec => []SectionLocked
<1>1. LockInv => SectionLocked
  <2> SUFFICES ASSUME LockInv, NEW p \in Procs
      PROVE /\ pc[p] = "read"  => lk[p] # "none"
            /\ pc[p] = "write" => lk[p] = "write" /\ \A q \in Procs \ {p} : lk[q] = "none"
    BY DEF SectionLocked
  <2>1. pc[p] = "read" => lk[p] # "none"
    BY DEF LockInv, OpenLocked, HandlerInPlace
  <2>2. pc[p] = "write" => lk[p] = "write" /\ \A q \in Procs \ {p} : lk[q] = "none"
    BY DEF LockInv, WriteInPlace, Exclusion
  <2> QED
    BY <2>1, <2>2
<1> QED
  BY <1>1, LockInvariance, PTL

\* The key invariant of files.c: while one process has the file write-locked,
\* every other one that has it open is in the handler.
THEOREM EverybodyInformed == Spec => []InformedOfWrite
<1>1. LockInv => InformedOfWrite
  BY DEF LockInv, InformedOfWrite, Exclusion, OpenLocked
<1> QED
  BY <1>1, LockInvariance, PTL

\* A process that missed a write is in the handler, without a lock to read the
\* file with; or a zero-time command, a menu, loading or a replay keeps it, or
\* kept it, from being told, and then it looks before it goes on in a section.
THEOREM NoWriteUnnoticed == Spec => []NoSilentWrite
<1>1. LockInv => NoSilentWrite
  BY DEF LockInv, NoSilentWrite, StaleInPlace, HandlerInPlace, HasFile
<1> QED
  BY <1>1, LockInvariance, PTL

-----------------------------------------------------------------------------
(* The locking implements MonitorLock. *)

Modes  == [p \in Procs |-> Mode(p)]
Misses == {p \in Procs : stale[p]}
Aways  == {p \in Procs : follows[p] # "live"}

\* The modes of the four combinations of a lock and an open file.
LEMMA ModeOfValues ==
  /\ \A o \in BOOLEAN : ModeOf("write", o) = "exclusive" /\ ModeOf("read", o) = "shared"
  /\ ModeOf("none", TRUE) = "told" /\ ModeOf("none", FALSE) = "outside"
<1>1. "write" # "read" /\ "none" # "read" /\ "none" # "write"
  OBVIOUS
<1> QED
  BY <1>1 DEF ModeOf

\* The mode of a process says which lock it has, and whether it has the file
\* open without one.
LEMMA ModeIs ==
  ASSUME TypeOK, NEW p \in Procs
  PROVE  /\ Mode(p) = "exclusive" <=> lk[p] = "write"
         /\ Mode(p) = "shared" <=> lk[p] = "read"
         /\ Mode(p) = "told" <=> lk[p] = "none" /\ open[p]
         /\ Mode(p) = "outside" <=> lk[p] = "none" /\ ~open[p]
<1>1. lk[p] \in {"none", "read", "write"} /\ open[p] \in BOOLEAN
  BY DEF TypeOK
<1>2. CASE open[p] = TRUE
  BY <1>1, <1>2, ModeOfValues DEF Mode
<1>3. CASE open[p] = FALSE
  BY <1>1, <1>3, ModeOfValues DEF Mode
<1> QED
  BY <1>1, <1>2, <1>3

\* A step that changes no lock and writes nothing stutters.
LEMMA SameModes ==
  ASSUME UNCHANGED <<lk, open, stale, follows>>
  PROVE  UNCHANGED <<Modes, Misses, Aways>>
BY DEF Modes, Misses, Aways, Mode

\* A step of p that leaves the locks of the others alone changes at most the
\* mode of p.
LEMMA OneMode ==
  ASSUME NEW p \in Procs,
         \A q \in Procs \ {p} : lk'[q] = lk[q] /\ open'[q] = open[q]
  PROVE  Modes' = [Modes EXCEPT ![p] = ModeOf(lk'[p], open'[p])]
<1>1. \A q \in Procs \ {p} : Modes'[q] = Modes[q]
  BY DEF Modes, Mode
<1>2. Modes'[p] = ModeOf(lk'[p], open'[p])
  BY DEF Modes, Mode
<1> QED
  BY <1>1, <1>2 DEF Modes

\* A process ends, or leaves the game.
LEMMA DepartStep ==
  ASSUME LockInv, NEW p \in Procs,
         lk' = [lk EXCEPT ![p] = "none"], open' = [open EXCEPT ![p] = FALSE],
         stale' = [stale EXCEPT ![p] = FALSE],
         follows' = follows \/ (open[p] /\ follows' = [follows EXCEPT ![p] = "frozen"])
  PROVE  [Promise!Next]_<<Modes, Misses, Aways>>
<1>1. Modes' = [Modes EXCEPT ![p] = "outside"]
  BY OneMode, ModeOfValues DEF LockInv, TypeOK
<1>2. Misses' = Misses \ {p}
  BY DEF LockInv, TypeOK, Misses
<1>5. Aways' = Aways \/ (open[p] /\ Aways' = Aways \cup {p})
  BY DEF LockInv, TypeOK, Aways
<1>3. CASE Modes[p] = "outside"
  <2>1. Modes' = Modes
    BY <1>1, <1>3 DEF Modes
  <2>2. ~open[p]
    BY <1>3, ModeIs DEF LockInv, Modes
  <2>3. p \notin Misses
    BY <2>2 DEF LockInv, StaleInPlace, Misses
  <2> QED
    BY <1>2, <1>5, <2>1, <2>2, <2>3
<1>4. CASE Modes[p] # "outside"
  BY <1>1, <1>2, <1>4, <1>5 DEF Promise!Next, Promise!Depart, Modes, Misses, Aways
<1> QED
  BY <1>3, <1>4

\* A process without a lock takes a read lock nobody's write lock is in the way
\* of: it opens the file, looks at it from the menu, or comes back to it, and
\* does not look at it then only if it is frozen.
LEMMA ShareStep ==
  ASSUME LockInv, NEW p \in Procs,
         lk[p] = "none", Conflicting(p, "read") = {},
         lk' = [lk EXCEPT ![p] = "read"], UNCHANGED open,
         \/ follows[p] # "frozen" /\ Looks(p)
         \/ (~stale[p] \/ follows[p] = "frozen") /\ UNCHANGED <<stale, follows>>
  PROVE  [Promise!Next]_<<Modes, Misses, Aways>>
<1>1. Modes' = [Modes EXCEPT ![p] = "shared"]
  BY OneMode, ModeOfValues DEF LockInv, TypeOK
<1>2. \/ Misses' = Misses \ {p} /\ Aways' = Aways \ {p}
      \/ p \in Aways /\ Misses' = Misses /\ Aways' = Aways
  <2>1. CASE follows[p] # "frozen" /\ Looks(p)
    <3>1. Misses' = Misses \ {p}
      BY <2>1 DEF Looks, LockInv, TypeOK, Misses
    <3>2. Aways' = Aways \ {p}
      BY <2>1 DEF Looks, LockInv, TypeOK, Aways
    <3> QED
      BY <3>1, <3>2
  <2>2. CASE (~stale[p] \/ follows[p] = "frozen") /\ UNCHANGED <<stale, follows>>
    <3>1. Misses' = Misses /\ Aways' = Aways
      BY <2>2 DEF Misses, Aways
    <3>2. CASE follows[p] = "live"
      BY <2>2, <3>1, <3>2 DEF Misses, Aways
    <3>3. CASE follows[p] # "live"
      BY <3>1, <3>3 DEF Aways
    <3> QED
      BY <3>2, <3>3
  <2> QED
    BY <2>1, <2>2
<1>3. Modes[p] \in {"outside", "told"}
  BY ModeIs DEF LockInv, TypeOK, Modes
<1>4. ASSUME NEW q \in Procs PROVE Modes[q] # "exclusive"
  <2>1. lk[q] # "write"
    BY DEF Conflicting
  <2> QED
    BY <2>1, ModeIs DEF LockInv, Modes
<1> QED
  BY <1>1, <1>2, <1>3, <1>4
  DEF Promise!Next, Promise!Share, Promise!NobodyExclusive, Modes, Misses, Aways

\* F_SETLK: a share, a claim, the end of a claim, or nothing new.
LEMMA SetLockPromise ==
  ASSUME LockInv, NEW p \in Procs, SetLock(p)
  PROVE  [Promise!Next]_<<Modes, Misses, Aways>>
<1> DEFINE type == FlockType(want[p])
<1>1. /\ pc[p] = "loop" /\ hand[p] = "no" /\ Conflicting(p, type) = {}
      /\ lk' = [lk EXCEPT ![p] = type] /\ UNCHANGED <<open, stale, follows>>
  BY DEF SetLock, caller
<1>2. type \in {"read", "write"} /\ lk[p] \in {"none", "read", "write"}
  BY DEF FlockType, LockInv, TypeOK
<1>4. CASE lk[p] = type
  <2>1. UNCHANGED <<lk, open, stale, follows>>
    BY <1>1, <1>4 DEF LockInv, TypeOK
  <2> QED
    BY <2>1, SameModes
<1>5. CASE lk[p] = "none"
  <2>1. want[p] = "monitor"
    BY <1>1, <1>5 DEF LockInv, OpenLocked
  <2>2. type = "read"
    BY <2>1 DEF FlockType
  <2>3. ~stale[p]
    BY <1>1, <1>5 DEF LockInv, OpenLocked, StaleInPlace
  <2> QED
    BY <1>1, <1>5, <2>2, <2>3, ShareStep
<1>6. CASE lk[p] = "read" /\ type = "write"
  <2>1. Modes' = [Modes EXCEPT ![p] = "exclusive"]
    BY <1>1, <1>6, OneMode, ModeOfValues DEF LockInv, TypeOK
  <2>2. Modes[p] = "shared"
    BY <1>6, ModeIs DEF LockInv, Modes
  <2>3. ASSUME NEW q \in Procs \ {p} PROVE Modes[q] \in {"outside", "told"}
    <3>1. lk[q] = "none"
      BY <1>1, <1>6 DEF Conflicting
    <3> QED
      BY <3>1, ModeIs DEF LockInv, TypeOK, Modes
  <2>4. Misses' = Misses /\ Aways' = Aways
    BY <1>1 DEF Misses, Aways
  <2> QED
    BY <2>1, <2>2, <2>3, <2>4 DEF Promise!Next, Promise!Claim, Modes, Misses, Aways
<1>7. CASE lk[p] = "write" /\ type = "read"
  <2>1. Modes' = [Modes EXCEPT ![p] = "shared"]
    BY <1>1, <1>7, OneMode, ModeOfValues DEF LockInv, TypeOK
  <2>2. Modes[p] = "exclusive"
    BY <1>7, ModeIs DEF LockInv, Modes
  <2>3. Misses' = Misses /\ Aways' = Aways
    BY <1>1 DEF Misses, Aways
  <2> QED
    BY <2>1, <2>2, <2>3 DEF Promise!Next, Promise!Release, Modes, Misses, Aways
<1> QED
  BY <1>2, <1>4, <1>5, <1>6, <1>7

\* The return of log_init that did not get the lock gives the file up; a return
\* into a section is a look.
LEMMA ReturnPromise ==
  ASSUME LockInv, NEW p \in Procs, Return(p)
  PROVE  [Promise!Next]_<<Modes, Misses, Aways>>
<1>1. /\ pc[p] = "flush"
      /\ IF ret[p] /\ want[p] \in {"read", "write"} THEN Looks(p)
                                                   ELSE UNCHANGED <<stale, follows>>
      /\ open' = [open EXCEPT ![p] = @ \/ ret[p]]
      /\ lk' = [lk EXCEPT ![p] = IF ret[p] \/ open[p] THEN @ ELSE "none"]
  BY DEF Return
<1>2. CASE open[p]
  <2>1. UNCHANGED <<lk, open>>
    BY <1>1, <1>2 DEF LockInv, TypeOK
  <2>2. CASE UNCHANGED <<stale, follows>>
    BY <2>1, <2>2, SameModes
  <2>3. CASE Looks(p)
    <3>1. lk[p] # "none"
      BY <1>1, <1>2 DEF LockInv, HandlerInPlace, OpenLocked
    <3>2. Modes[p] \in {"shared", "exclusive"} /\ Modes' = Modes
      BY <2>1, <3>1, ModeIs DEF LockInv, TypeOK, Modes, Mode
    <3>3. Misses' = Misses \ {p}
      BY <2>3 DEF Looks, LockInv, TypeOK, Misses
    <3>4. Aways' \in {Aways, Aways \ {p}}
      BY <2>3 DEF Looks, LockInv, TypeOK, Aways
    <3> QED
      BY <3>2, <3>3, <3>4 DEF Promise!Next, Promise!Look, Modes, Misses, Aways
  <2> QED
    BY <1>1, <2>2, <2>3
<1>3. CASE ~open[p] /\ ret[p]
  <2>1. lk[p] \in {"read", "write"} /\ UNCHANGED lk
    BY <1>1, <1>3 DEF LockInv, TypeOK, WriteInPlace, FlockType
  <2>2. \A q \in Procs \ {p} : open'[q] = open[q]
    BY <1>1 DEF LockInv, TypeOK
  <2>3. open[p] \in BOOLEAN /\ open'[p] \in BOOLEAN
    BY <1>1, <1>3 DEF LockInv, TypeOK
  <2>4. Modes' = [Modes EXCEPT ![p] = ModeOf(lk[p], open'[p])]
    BY <2>1, <2>2, OneMode
  <2>5. ModeOf(lk[p], open'[p]) = ModeOf(lk[p], open[p])
    BY <2>1, <2>3, ModeOfValues
  <2>6. Modes' = Modes
    BY <2>4, <2>5 DEF Modes, Mode
  <2>7. Misses' = Misses /\ Aways' = Aways
    <3>1. want[p] = "monitor"
      BY <1>1, <1>3 DEF LockInv, OpenLocked
    <3> QED
      BY <1>1, <3>1 DEF Misses, Aways
  <2> QED
    BY <2>6, <2>7
<1>4. CASE ~open[p] /\ ~ret[p]
  <2>1. /\ lk' = [lk EXCEPT ![p] = "none"] /\ open' = [open EXCEPT ![p] = FALSE]
        /\ UNCHANGED <<stale, follows>>
    BY <1>1, <1>4 DEF LockInv, TypeOK
  <2>2. stale' = [stale EXCEPT ![p] = FALSE]
    BY <1>4, <2>1 DEF LockInv, TypeOK, StaleInPlace
  <2> QED
    BY <2>1, <2>2, DepartStep
<1> QED
  BY <1>2, <1>3, <1>4

\* The handler of a process that shares the file yields; of one that is still
\* opening it, it leaves.
LEMMA RelinquishPromise ==
  ASSUME LockInv, NEW p \in Procs, Relinquish(p)
  PROVE  [Promise!Next]_<<Modes, Misses, Aways>>
<1>1. /\ hand[p] = "no" /\ UNCHANGED <<open, stale, follows>>
      /\ lk' = [lk EXCEPT ![p] = IF HasFile(p) THEN "none" ELSE @]
  BY DEF Relinquish, caller
<1>2. /\ pc[p] \in {"out", "peek", "monitor", "loop"}
      /\ pc[p] = "loop" => inc[p] + outg[p] > 0
  BY WhereAsked DEF Relinquish, Delivers, Interruptible
<1>3. lk[p] # "write"
  BY <1>1, <1>2, WriterAsksNobody DEF LockInv, WriteInPlace
<1>4. CASE ~HasFile(p)
  <2>1. UNCHANGED <<lk, open, stale, follows>>
    BY <1>1, <1>4 DEF LockInv, TypeOK
  <2> QED
    BY <2>1, SameModes
<1>5. CASE open[p]
  <2>1. lk[p] = "read" /\ HasFile(p)
    BY <1>1, <1>3, <1>5 DEF LockInv, TypeOK, OpenLocked, HasFile
  <2>2. Modes' = [Modes EXCEPT ![p] = "told"]
    BY <1>1, <1>5, <2>1, OneMode, ModeOfValues DEF LockInv, TypeOK
  <2>3. Modes[p] = "shared"
    BY <2>1, ModeIs DEF LockInv, Modes
  <2>4. Misses' = Misses /\ Aways' = Aways
    BY <1>1 DEF Misses, Aways
  <2> QED
    BY <2>2, <2>3, <2>4 DEF Promise!Next, Promise!Yield, Modes, Misses, Aways
<1>6. CASE HasFile(p) /\ ~open[p]
  <2>1. /\ lk' = [lk EXCEPT ![p] = "none"] /\ open' = [open EXCEPT ![p] = FALSE]
        /\ stale' = [stale EXCEPT ![p] = FALSE] /\ follows' = follows
    BY <1>1, <1>6 DEF LockInv, TypeOK, StaleInPlace
  <2> QED
    BY <2>1, DepartStep
<1> QED
  BY <1>4, <1>5, <1>6

\* The handler comes back to the file: unless it is frozen, it misses no write
\* from then on.
LEMMA RelockPromise ==
  ASSUME LockInv, NEW p \in Procs, Relock(p)
  PROVE  [Promise!Next]_<<Modes, Misses, Aways>>
<1>1. lk[p] = "none"
  BY DEF Relock, LockInv, HandlerInPlace
<1> QED
  BY <1>1, ShareStep DEF Relock

\* A process that dies departs.
LEMMA DiePromise ==
  ASSUME LockInv, NEW p \in Procs, Die(p)
  PROVE  [Promise!Next]_<<Modes, Misses, Aways>>
BY DepartStep DEF Die, caller

\* log_uninit departs.
LEMMA LeavePromise ==
  ASSUME LockInv, NEW p \in Procs, Leave(p)
  PROVE  [Promise!Next]_<<Modes, Misses, Aways>>
<1>1. follows' = follows \/ (open[p] /\ follows' = [follows EXCEPT ![p] = "frozen"])
  BY DEF Leave, LockInv, TypeOK
<1> QED
  BY <1>1, DepartStep DEF Leave

\* A look from the menu is a share that ends by departing.
LEMMA PeekPromise ==
  ASSUME LockInv, NEW p \in Procs, Peek(p) \/ PeekDone(p)
  PROVE  [Promise!Next]_<<Modes, Misses, Aways>>
<1>1. ~open[p]
  BY DEF Peek, PeekDone, LockInv, OpenLocked
<1>2. /\ open' = open /\ open' = [open EXCEPT ![p] = FALSE]
      /\ stale' = stale /\ stale' = [stale EXCEPT ![p] = FALSE]
      /\ ~stale[p] /\ follows' = follows
  BY <1>1 DEF Peek, PeekDone, LockInv, TypeOK, StaleInPlace, caller
<1>3. CASE Peek(p)
  <2>1. lk[p] = "none"
    BY <1>3 DEF Peek, LockInv, OpenLocked
  <2> QED
    BY <1>2, <1>3, <2>1, ShareStep DEF Peek
<1>4. CASE PeekDone(p)
  BY <1>2, <1>4, DepartStep DEF PeekDone
<1> QED
  BY <1>3, <1>4

\* A write is missed by the processes that have the file open without a lock.
LEMMA UpdatePromise ==
  ASSUME LockInv, NEW p \in Procs, Update(p)
  PROVE  [Promise!Next]_<<Modes, Misses, Aways>>
<1>1. /\ pc[p] = "write" /\ UNCHANGED <<lk, open, follows>>
      /\ stale' = [q \in Procs |-> stale[q] \/ (q # p /\ open[q])]
  BY DEF Update, kernel, caller
<1>2. lk[p] = "write" /\ \A q \in Procs \ {p} : lk[q] = "none"
  BY <1>1 DEF LockInv, WriteInPlace, Exclusion
<1>3. Modes[p] = "exclusive" /\ p \notin Misses
  <2>1. hand[p] = "no"
    BY <1>1 DEF LockInv, HandlerInPlace
  <2> QED
    BY <1>1, <1>2, <2>1, ModeIs DEF LockInv, StaleInPlace, Modes, Misses
<1>4. ASSUME NEW q \in Procs PROVE Modes[q] = "told" <=> q # p /\ open[q]
  BY <1>2, ModeIs DEF LockInv, Modes
<1>5. Misses' = Misses \cup {q \in Procs : Modes[q] = "told"}
  BY <1>1, <1>4 DEF Misses
<1>6. Modes' = Modes /\ Aways' = Aways
  BY <1>1 DEF Modes, Mode, Aways
<1> QED
  BY <1>3, <1>5, <1>6 DEF Promise!Next, Promise!Write, Modes, Misses, Aways

\* A process that has the file open turns away from it, or back: if it missed
\* nothing meanwhile, without a look.
LEMMA FreezePromise ==
  ASSUME LockInv, NEW p \in Procs, Freeze(p) \/ Thaw(p)
  PROVE  [Promise!Next]_<<Modes, Misses, Aways>>
<1>1. Modes' = Modes /\ Misses' = Misses
  BY DEF Freeze, Thaw, kernel, Modes, Mode, Misses
<1>2. Modes[p] \in {"shared", "exclusive"}
  <2>1. open[p] /\ hand[p] = "no"
    BY DEF Freeze, Thaw, LockInv, OpenLocked
  <2> QED
    BY <2>1, ModeIs DEF LockInv, TypeOK, OpenLocked, Modes
<1>3. CASE Freeze(p)
  <2>1. Aways' = Aways \cup {p}
    BY <1>3 DEF Freeze, LockInv, TypeOK, Aways
  <2> QED
    BY <1>1, <1>2, <2>1 DEF Promise!Next, Promise!TurnAway, Modes, Misses, Aways
<1>4. CASE Thaw(p) /\ ~stale[p]
  <2>1. Aways' = Aways \ {p}
    BY <1>4 DEF Thaw, LockInv, TypeOK, Aways
  <2>2. Misses' = Misses \ {p}
    BY <1>1, <1>4 DEF Misses
  <2> QED
    BY <1>1, <1>2, <2>1, <2>2 DEF Promise!Next, Promise!Look, Modes, Misses, Aways
<1>5. CASE Thaw(p) /\ stale[p]
  <2>1. Aways' = Aways
    BY <1>5 DEF Thaw, LockInv, TypeOK, Aways
  <2> QED
    BY <1>1, <2>1
<1> QED
  BY <1>3, <1>4, <1>5

\* Every step of the locking is one of MonitorLock, or stutters.
LEMMA NextPromise ==
  LockInv /\ [Next]_vars => [Promise!Next]_<<Modes, Misses, Aways>>
<1> SUFFICES ASSUME LockInv, [Next]_vars PROVE [Promise!Next]_<<Modes, Misses, Aways>>
  OBVIOUS
<1>1. CASE UNCHANGED vars
  BY <1>1, SameModes DEF vars, kernel, caller
<1>2. ASSUME NEW p \in Procs, NEW type \in Section, ChangeLock(p, type)
      PROVE  [Promise!Next]_<<Modes, Misses, Aways>>
  BY <1>2, SameModes DEF ChangeLock
<1>3. ASSUME NEW p \in Procs, FindHolder(p) \/ AskHolder(p) \/ TellWatcher(p)
      PROVE  [Promise!Next]_<<Modes, Misses, Aways>>
  BY <1>3, SameModes DEF FindHolder, AskHolder, TellWatcher, kernel, caller
<1>4. ASSUME NEW p \in Procs, Locking(p) PROVE [Promise!Next]_<<Modes, Misses, Aways>>
  BY <1>3, <1>4, SetLockPromise, ReturnPromise DEF Locking
<1>5. ASSUME NEW p \in Procs, RelinquishAgain(p) \/ MayRelock(p) \/ Answered(p)
      PROVE  [Promise!Next]_<<Modes, Misses, Aways>>
  BY <1>5, SameModes DEF RelinquishAgain, MayRelock, Answered, caller
<1>6. ASSUME NEW p \in Procs, Crash(p) \/ RelockAbort(p) \/ DefaultAction(p)
      PROVE  [Promise!Next]_<<Modes, Misses, Aways>>
  BY <1>6, DiePromise DEF Crash, RelockAbort, DefaultAction
<1>7. ASSUME NEW p \in Procs, Handler(p) PROVE [Promise!Next]_<<Modes, Misses, Aways>>
  BY <1>5, <1>6, <1>7, RelinquishPromise DEF Handler
<1>8. ASSUME NEW p \in Procs,
             Alarm(p) \/ StopWaiting(p) \/ GiveUpWaiting(p) \/ AlarmForgotten(p)
      PROVE  [Promise!Next]_<<Modes, Misses, Aways>>
  BY <1>8, SameModes DEF Alarm, StopWaiting, GiveUpWaiting, AlarmForgotten, kernel, caller
<1> QED
  BY <1>1, <1>2, <1>4, <1>6, <1>7, <1>8, RelockPromise, LeavePromise, PeekPromise,
     UpdatePromise, FreezePromise
  DEF Next

\* Nobody has a lock at first.
LEMMA InitPromise == Init => Promise!Init
<1> SUFFICES ASSUME Init PROVE Promise!Init
  OBVIOUS
<1>1. \A p \in Procs : Mode(p) = "outside"
  BY ModeOfValues DEF Init, Mode
<1>2. {p \in Procs : stale[p]} = {}
  BY DEF Init
<1>3. {p \in Procs : follows[p] # "live"} \subseteq Procs
  OBVIOUS
<1> QED
  BY <1>1, <1>2, <1>3 DEF Promise!Init

\* The signals and record locks of files.c keep the promise of its comment:
\* they implement a lock that is written under by one process alone, while
\* each other process that has the file open has made way for it.
THEOREM LockingImplementsMonitorLock == Spec => PromiseKept
<1>1. Init => Promise!Init
  BY InitPromise
<1>2. LockInv /\ [Next]_vars => [Promise!Next]_Promise!vars
  BY NextPromise DEF Promise!vars, Modes, Misses, Aways
<1>3. Spec => []LockInv
  BY LockInvariance
<1> QED
  BY <1>1, <1>2, <1>3, PTL DEF Spec, PromiseKept, Promise!Spec

-----------------------------------------------------------------------------
(* The counters, while nobody fails. *)

\* sigqueue to a process that does not ignore the signal.
LEMMA SentIs ==
  ASSUME NEW qs \in Queues, NEW p \in Procs, NEW q \in Procs, NEW n \in Signal,
         disp[q] = "handled", pc[q] # "dead"
  PROVE  /\ Sent(qs, p, q, n)[q][n] = Append(qs[q][n], p)
         /\ \A r \in Procs, m \in Signal :
              r # q \/ m # n => Sent(qs, p, q, n)[r][m] = qs[r][m]
<1>1. Sent(qs, p, q, n) = [qs EXCEPT ![q][n] = Append(@, p)]
  BY DEF Sent, Ignores
<1> QED
  BY <1>1 DEF Queues

\* A delivery takes the first signal of one queue.
LEMMA DequeuedIs ==
  ASSUME queue \in Queues, NEW p \in Procs, NEW n \in Signal, Delivers(p, n)
  PROVE  /\ queue[p][n] \in Seq(Procs) /\ queue[p][n] # <<>>
         /\ Dequeued(p, n)[p][n] = Tail(queue[p][n])
         /\ \A r \in Procs, m \in Signal :
              r # p \/ m # n => Dequeued(p, n)[r][m] = queue[r][m]
<1>1. queue[p][n] \in Seq(Procs) /\ queue[p][n] # <<>>
  BY DEF Queues, Delivers, Deliverable
<1> QED
  BY <1>1 DEF Queues, Dequeued

\* Where a signal of a number that is delivered is pending, no lower one is that
\* is not masked.
LEMMA LowestFirst ==
  ASSUME NEW p \in Procs, NEW n \in Signal, Delivers(p, n),
         NEW m \in Unmasked(p), m < n
  PROVE  queue[p][m] = <<>>
<1>1. n \in Nat /\ m \in Nat
  BY DEF Unmasked, Signal
<1> QED
  BY <1>1 DEF Delivers, Deliverable

\* Where x stands in a sequence to which p is appended, and in the rest of one.
LEMMA PlacesInAppend ==
  ASSUME NEW S, NEW s \in Seq(S), NEW p \in S, NEW x \in S
  PROVE  {i \in 1..Len(Append(s, p)) : Append(s, p)[i] = x}
           = {i \in 1..Len(s) : s[i] = x} \cup (IF x = p THEN {Len(s) + 1} ELSE {})
<1>1. Len(s) \in Nat /\ Len(Append(s, p)) = Len(s) + 1
  OBVIOUS
<1>2. 1..(Len(s) + 1) = (1..Len(s)) \cup {Len(s) + 1}
  BY <1>1
<1>3. /\ \A i \in 1..Len(s) : Append(s, p)[i] = s[i]
      /\ Append(s, p)[Len(s) + 1] = p
  OBVIOUS
<1> QED
  BY <1>1, <1>2, <1>3

LEMMA TailLength ==
  ASSUME NEW S, NEW s \in Seq(S), s # <<>>
  PROVE  Len(Tail(s)) \in Nat /\ Len(s) = Len(Tail(s)) + 1
<1>1. Len(s) \in Nat /\ Len(s) # 0
  OBVIOUS
<1>2. Len(Tail(s)) = Len(s) - 1
  OBVIOUS
<1> QED
  BY <1>1, <1>2

LEMMA PlacesInTail ==
  ASSUME NEW S, NEW s \in Seq(S), s # <<>>, NEW x
  PROVE  {i \in 1..Len(Tail(s)) : Tail(s)[i] = x}
           = {i \in Nat : i # 0 /\ i + 1 \in {j \in 1..Len(s) : s[j] = x}}
<1>1. Len(Tail(s)) \in Nat /\ Len(s) = Len(Tail(s)) + 1
  BY TailLength
<1>2. \A i \in 1..Len(Tail(s)) : Tail(s)[i] = s[i + 1]
  OBVIOUS
<1>3. \A i : i \in 1..Len(Tail(s)) <=> i \in Nat /\ i # 0 /\ i + 1 \in 1..Len(s)
  BY <1>1
<1> QED
  BY <1>2, <1>3

\* The lists of processes to tell are finite.
LEMMA ListsFinite ==
  ASSUME NEW p \in Procs
  PROVE  /\ IsFiniteSet(OnLists(p)) /\ IsFiniteSet(FromHigher(p)) /\ IsFiniteSet(FromLower(p))
         /\ Cardinality(OnLists(p)) \in Nat
         /\ Cardinality(FromHigher(p)) \in Nat /\ Cardinality(FromLower(p)) \in Nat
<1>1. IsFiniteSet(Procs \X (1..MaxAsked))
  <2>1. IsFiniteSet(1..MaxAsked)
    BY BoundAssumption, FS_Interval
  <2> QED
    BY <2>1, ProcsAssumption, FS_Product
<1>2. OnLists(p) \subseteq Procs \X (1..MaxAsked)
  BY DEF OnLists
<1>3. IsFiniteSet(OnLists(p))
  BY <1>1, <1>2, FS_Subset
<1>4. FromHigher(p) \subseteq OnLists(p) /\ FromLower(p) \subseteq OnLists(p)
  BY DEF FromHigher, FromLower
<1> QED
  BY <1>3, <1>4, FS_Subset, FS_CardinalityType

\* A process that is asked is put on one list, at a place that nobody has.
LEMMA PutOnList ==
  ASSUME TypeOK, NEW p \in Procs, NEW q \in Procs, p # q, Len(watch[p]) < MaxAsked,
         watch' = [watch EXCEPT ![p] = Append(@, q)], NEW x \in Procs
  PROVE  /\ Cardinality(FromHigher(x)')
              = Cardinality(FromHigher(x)) + (IF x = q /\ p > q THEN 1 ELSE 0)
         /\ Cardinality(FromLower(x)')
              = Cardinality(FromLower(x)) + (IF x = q /\ p < q THEN 1 ELSE 0)
<1> DEFINE at0 == <<p, Len(watch[p]) + 1>>
<1>1. /\ watch[p] \in Seq(Procs) /\ Len(watch[p]) \in Nat /\ p \in Nat /\ q \in Nat
      /\ watch' \in [Procs -> Seq(Procs)]
      /\ Len(watch'[p]) = Len(watch[p]) + 1 /\ watch'[p][Len(watch[p]) + 1] = q
      /\ \A i \in 1..Len(watch[p]) : watch'[p][i] = watch[p][i]
      /\ \A r \in Procs : r # p => watch'[r] = watch[r]
  BY ProcsAssumption DEF TypeOK
<1>2. at0 \in Procs \X (1..MaxAsked)
  BY <1>1, BoundAssumption
<1>3. OnLists(x)' = IF x = q THEN OnLists(x) \cup {at0} ELSE OnLists(x)
  <2>1. ASSUME NEW at \in Procs \X (1..MaxAsked), at # at0
        PROVE  at \in OnLists(x)' <=> at \in OnLists(x)
    <3>1. at[1] \in Procs /\ at[2] \in 1..MaxAsked /\ at = <<at[1], at[2]>>
      OBVIOUS
    <3>2. CASE at[1] # p
      BY <1>1, <3>1, <3>2 DEF OnLists
    <3>3. CASE at[1] = p
      <4>1. at[2] # Len(watch[p]) + 1 /\ at[2] \in Nat
        BY <2>1, <3>1, <3>3, BoundAssumption
      <4>2. at[2] <= Len(watch[p]) => watch'[p][at[2]] = watch[p][at[2]]
        BY <1>1, <3>1, BoundAssumption
      <4>3. at[2] <= Len(watch'[p]) <=> at[2] <= Len(watch[p])
        BY <1>1, <4>1
      <4> QED
        BY <3>1, <3>3, <4>2, <4>3 DEF OnLists
    <3> QED
      BY <3>2, <3>3
  <2>2. at0 \in OnLists(x)' <=> x = q
    BY <1>1, <1>2 DEF OnLists
  <2>3. at0 \notin OnLists(x)
    BY <1>1 DEF OnLists
  <2>4. OnLists(x) \subseteq Procs \X (1..MaxAsked) /\ OnLists(x)' \subseteq Procs \X (1..MaxAsked)
    BY DEF OnLists
  <2> HIDE DEF at0
  <2> QED
    BY <1>2, <2>1, <2>2, <2>3, <2>4
<1>4. at0 \notin OnLists(x)
  BY <1>1 DEF OnLists
<1>5. at0[1] = p
  OBVIOUS
<1> HIDE DEF at0
<1>6. FromHigher(x)' = IF x = q /\ p > q THEN FromHigher(x) \cup {at0} ELSE FromHigher(x)
  BY <1>1, <1>3, <1>5 DEF FromHigher
<1>7. FromLower(x)' = IF x = q /\ p < q THEN FromLower(x) \cup {at0} ELSE FromLower(x)
  BY <1>1, <1>3, <1>5 DEF FromLower
<1>8. at0 \notin FromHigher(x) /\ at0 \notin FromLower(x)
  BY <1>4 DEF FromHigher, FromLower
<1>9. /\ IsFiniteSet(FromHigher(x)) /\ IsFiniteSet(FromLower(x))
      /\ Cardinality(FromHigher(x)) \in Nat /\ Cardinality(FromLower(x)) \in Nat
  BY ListsFinite
<1>10. Cardinality(FromHigher(x) \cup {at0}) = Cardinality(FromHigher(x)) + 1
  BY <1>8, <1>9, FS_AddElement
<1>11. Cardinality(FromLower(x) \cup {at0}) = Cardinality(FromLower(x)) + 1
  BY <1>8, <1>9, FS_AddElement
<1> QED
  BY <1>6, <1>7, <1>9, <1>10, <1>11

\* The process that is told next is another one.
LEMMA LastListed ==
  ASSUME TypeOK, OthersOnLists, NEW p \in Procs, watch[p] # <<>>
  PROVE  watch[p][Len(watch[p])] \in Procs \ {p}
<1>1. watch[p] \in Seq(Procs) /\ Len(watch[p]) \in Nat /\ Len(watch[p]) > 0
  BY DEF TypeOK
<1>2. Len(watch[p]) \in 1..Len(watch[p])
  BY <1>1
<1>3. watch[p][Len(watch[p])] \in Procs
  BY <1>1, <1>2, ElementOfSeq
<1> QED
  BY <1>2, <1>3 DEF OthersOnLists

\* A process that is told is taken off again.
LEMMA TakenOffList ==
  ASSUME TypeOK, OthersOnLists, NEW p \in Procs, TellWatcher(p),
         NEW q \in Procs, q = watch[p][Len(watch[p])], NEW x \in Procs
  PROVE  /\ Cardinality(FromHigher(x))
              = Cardinality(FromHigher(x)') + (IF x = q /\ p > q THEN 1 ELSE 0)
         /\ Cardinality(FromLower(x))
              = Cardinality(FromLower(x)') + (IF x = q /\ p < q THEN 1 ELSE 0)
         /\ Cardinality(FromHigher(x)') \in Nat /\ Cardinality(FromLower(x)') \in Nat
<1> DEFINE at0 == <<p, Len(watch[p])>>
<1>a. watch[p] # <<>> /\ watch' = [watch EXCEPT ![p] = SubSeq(@, 1, Len(@) - 1)]
  BY DEF TellWatcher
<1>b. watch[p] # <<>>
  BY <1>a
<1>1. /\ watch[p] \in Seq(Procs) /\ Len(watch[p]) \in Nat /\ Len(watch[p]) > 0 /\ p \in Nat
      /\ Len(watch[p]) <= MaxAsked
      /\ \A i \in 1..Len(watch[p]) : watch[p][i] # p
  BY <1>b, ProcsAssumption DEF TypeOK, OthersOnLists
<1>2. q \in Procs /\ q # p /\ q \in Nat
  BY <1>a, LastListed, ProcsAssumption
<1>3. /\ Len(watch'[p]) = Len(watch[p]) - 1
      /\ \A i \in 1..(Len(watch[p]) - 1) : watch'[p][i] = watch[p][i]
      /\ \A r \in Procs : r # p => watch'[r] = watch[r]
  <2>1. watch'[p] = SubSeq(watch[p], 1, Len(watch[p]) - 1)
    BY <1>a DEF TypeOK
  <2>2. \A i \in 1..(Len(watch[p]) - 1) : watch[p][i] \in Procs
    BY <1>1, ElementOfSeq
  <2>3. /\ Len(watch'[p]) = Len(watch[p]) - 1
        /\ \A i \in 1..(Len(watch[p]) - 1) : watch'[p][i] = watch[p][i]
    BY <1>1, <2>1, <2>2, SubSeqProperties
  <2> QED
    BY <1>a, <2>3 DEF TypeOK
<1>4. at0 \in Procs \X (1..MaxAsked)
  BY <1>1, BoundAssumption
<1>5. OnLists(x)' = IF x = q THEN OnLists(x) \ {at0} ELSE OnLists(x)
  <2>1. ASSUME NEW at \in Procs \X (1..MaxAsked), at # at0
        PROVE  at \in OnLists(x)' <=> at \in OnLists(x)
    <3>1. at[1] \in Procs /\ at[2] \in 1..MaxAsked /\ at = <<at[1], at[2]>>
      OBVIOUS
    <3>2. CASE at[1] # p
      BY <1>3, <3>1, <3>2 DEF OnLists
    <3>3. CASE at[1] = p
      <4>1. at[2] # Len(watch[p]) /\ at[2] \in Nat
        BY <2>1, <3>1, <3>3, BoundAssumption
      <4>2. at[2] < Len(watch[p]) => watch'[p][at[2]] = watch[p][at[2]]
        <5>1. at[2] < Len(watch[p]) => at[2] \in 1..(Len(watch[p]) - 1)
          BY <1>1, <3>1, BoundAssumption
        <5> QED
          BY <1>3, <5>1
      <4>3. at[2] <= Len(watch'[p]) <=> at[2] <= Len(watch[p])
        BY <1>1, <1>3, <4>1
      <4> QED
        BY <1>1, <3>1, <3>3, <4>1, <4>2, <4>3 DEF OnLists
    <3> QED
      BY <3>2, <3>3
  <2>2. at0 \notin OnLists(x)'
    BY <1>1, <1>3 DEF OnLists
  <2>3. at0 \in OnLists(x) <=> x = q
    BY <1>1, <1>4 DEF OnLists
  <2>4. OnLists(x) \subseteq Procs \X (1..MaxAsked) /\ OnLists(x)' \subseteq Procs \X (1..MaxAsked)
    BY DEF OnLists
  <2> HIDE DEF at0
  <2>5. CASE x = q
    BY <2>1, <2>2, <2>4, <2>5
  <2>6. CASE x # q
    <3>1. at0 \notin OnLists(x) /\ at0 \notin OnLists(x)'
      BY <2>2, <2>3, <2>6
    <3>2. \A at : at \in OnLists(x)' <=> at \in OnLists(x)
      BY <2>1, <2>4, <3>1
    <3>3. OnLists(x)' = OnLists(x)
      BY <3>2
    <3> QED
      BY <2>6, <3>3
  <2> QED
    BY <2>5, <2>6
<1>6. x = q => at0 \in OnLists(x)
  BY <1>1, <1>4 DEF OnLists
<1>7. at0[1] = p
  OBVIOUS
<1> HIDE DEF at0
<1>8. FromHigher(x)' = IF x = q /\ p > q THEN FromHigher(x) \ {at0} ELSE FromHigher(x)
  BY <1>2, <1>5, <1>7 DEF FromHigher
<1>9. FromLower(x)' = IF x = q /\ p < q THEN FromLower(x) \ {at0} ELSE FromLower(x)
  BY <1>2, <1>5, <1>7 DEF FromLower
<1>10. /\ x = q /\ p > q => at0 \in FromHigher(x)
       /\ x = q /\ p < q => at0 \in FromLower(x)
  BY <1>6, <1>7 DEF FromHigher, FromLower
<1>11. /\ IsFiniteSet(FromHigher(x)) /\ IsFiniteSet(FromLower(x))
       /\ Cardinality(FromHigher(x)) \in Nat /\ Cardinality(FromLower(x)) \in Nat
  BY ListsFinite
<1>12. x = q /\ p > q => /\ Cardinality(FromHigher(x) \ {at0}) = Cardinality(FromHigher(x)) - 1
                         /\ Cardinality(FromHigher(x) \ {at0}) \in Nat
  BY <1>10, <1>11, FS_RemoveElement, FS_CardinalityType
<1>13. x = q /\ p < q => /\ Cardinality(FromLower(x) \ {at0}) = Cardinality(FromLower(x)) - 1
                         /\ Cardinality(FromLower(x) \ {at0}) \in Nat
  BY <1>10, <1>11, FS_RemoveElement, FS_CardinalityType
<1> QED
  BY <1>2, <1>8, <1>9, <1>11, <1>12, <1>13

\* The counts are numbers.
LEMMA OwedTypes ==
  ASSUME TypeOK, NEW x \in Procs
  PROVE  /\ \A n \in Signal : Len(queue[x][n]) \in Nat /\ queue[x][n] \in Seq(Procs)
         /\ OwedToHigher(x) \in Int /\ OwedToLower(x) \in Int
         /\ inc[x] \in Nat /\ outg[x] \in Nat
<1>1. \A n \in Signal : queue[x][n] \in Seq(Procs)
  BY DEF TypeOK
<1>2. \A n \in Signal : Len(queue[x][n]) \in Nat
  BY <1>1
<1>3. 0 \in Signal /\ 1 \in Signal /\ 2 \in Signal /\ 3 \in Signal
  BY DEF Signal
<1> QED
  BY <1>1, <1>2, <1>3, ListsFinite DEF OwedToHigher, OwedToLower, TypeOK

\* Nothing that ends a process, or its waiting, happens while nobody fails.
LEMMA NothingFails ==
  ASSUME NobodyFails, LockInv, CountInv, NEW p \in Procs
  PROVE  /\ ~Alarm(p) /\ ~GiveUpWaiting(p) /\ ~AlarmForgotten(p)
         /\ ~Crash(p) /\ ~RelockAbort(p) /\ ~DefaultAction(p) /\ ~Leave(p)
         /\ ~Peek(p) /\ ~PeekDone(p)
<1>1. ~Alarm(p) /\ ~GiveUpWaiting(p) /\ ~AlarmForgotten(p) /\ ~Crash(p) /\ ~Leave(p) /\ ~Peek(p)
  BY DEF NobodyFails, Alarm, GiveUpWaiting, AlarmForgotten, Crash, Leave, Peek
<1>2. ~PeekDone(p)
  BY DEF PeekDone, CountInv, EverybodyHandles
<1>3. ~RelockAbort(p)
  BY DEF NobodyFails, RelockAbort, LockInv, HandlerInPlace, OpenLocked, HasFile, CountInv,
         EverybodyHandles
<1>4. ~DefaultAction(p)
  <2> SUFFICES ASSUME NEW n \in Signal, Delivers(p, n), disp[p] = "initial"
               PROVE  FALSE
    BY DEF DefaultAction
  <2>1. pc[p] = "out"
    BY DEF CountInv, EverybodyHandles
  <2>2. outg[p] = 0
    BY <2>1 DEF LockInv, CountsInPlace
  <2>3. queue[p][n] = <<>>
    BY <2>1, <2>2 DEF CountInv, EverybodyHandles, AsksOnce, Signal
  <2> QED
    BY <2>3 DEF Delivers, Deliverable
<1> QED
  BY <1>1, <1>2, <1>3, <1>4

\* While the queues of requests and answers stay, so do the requests.
LEMMA AsksKept ==
  ASSUME AsksOnce, outg' = outg,
         \A x \in Procs, n \in {0, 1, 4} : queue'[x][n] = queue[x][n]
  PROVE  AsksOnce'
<1>1. \A x, q \in Procs, n \in {0, 1} : Pending(x, q, n)' = Pending(x, q, n)
  BY DEF Pending
<1>2. \A x \in Procs : SomeRequest(x)' <=> SomeRequest(x)
  BY <1>1 DEF SomeRequest
<1> QED
  BY <1>1, <1>2 DEF AsksOnce

\* While queues and lists stay, so does what is owed.
LEMMA OwedKept ==
  ASSUME NEW x \in Procs, watch' = watch,
         \A n \in 0..3 : queue'[x][n] = queue[x][n]
  PROVE  OwedToHigher(x)' = OwedToHigher(x) /\ OwedToLower(x)' = OwedToLower(x)
<1>1. OnLists(x)' = OnLists(x)
  BY DEF OnLists
<1>2. FromHigher(x)' = FromHigher(x) /\ FromLower(x)' = FromLower(x)
  BY <1>1 DEF FromHigher, FromLower
<1>3. 0 \in 0..3 /\ 1 \in 0..3 /\ 2 \in 0..3 /\ 3 \in 0..3
  OBVIOUS
<1> QED
  BY <1>2, <1>3 DEF OwedToHigher, OwedToLower

\* Whoever has no handler that waits owes nothing.
LEMMA NothingOwed ==
  ASSUME TypeOK, IncomingCounted, NEW x \in Procs, inc[x] = 0
  PROVE  OwedToHigher(x) = 0 /\ OwedToLower(x) = 0
  BY OwedTypes DEF IncomingCounted

\* A step that sends and takes no signal keeps the counts.
LEMMA QuietStep ==
  ASSUME LockInv, CountInv, EverybodyHandles',
         UNCHANGED <<queue, inc, outg, watch>>,
         \A x \in Procs : pc'[x] = "ask" =>
            peer'[x] # x /\ peer'[x] \in Procs /\ pc[peer'[x]] # "out" /\ Len(watch[x]) < MaxAsked,
         \A x \in Procs : pc'[x] = "out" => pc[x] = "out",
         \A x \in Procs : pc'[x] = "loop" => pc[x] = "loop" \/ inc[x] = 0
  PROVE  CountInv'
<1>1. TypeOK
  BY DEF LockInv
<1>2. OthersOnLists'
  <2>1. ASSUME NEW x \in Procs, NEW i \in 1..Len(watch[x]) PROVE watch[x][i] \in Procs
    BY <1>1, <2>1, ElementOfSeq DEF TypeOK
  <2> QED
    BY <2>1 DEF CountInv, OthersOnLists
<1>3. AsksOnce'
  BY AsksKept DEF CountInv
<1>4. IncomingCounted'
  <2> SUFFICES ASSUME NEW x \in Procs
               PROVE  /\ OwedToHigher(x)' >= 0 /\ OwedToLower(x)' >= 0
                      /\ inc'[x] = OwedToHigher(x)' + OwedToLower(x)'
                      /\ pc'[x] = "loop" => OwedToHigher(x)' = 0
    BY DEF IncomingCounted
  <2>1. OwedToHigher(x)' = OwedToHigher(x) /\ OwedToLower(x)' = OwedToLower(x)
    BY OwedKept
  <2>2. pc'[x] = "loop" => OwedToHigher(x) = 0
    BY <1>1, NothingOwed DEF CountInv, IncomingCounted
  <2> QED
    BY <2>1, <2>2 DEF CountInv, IncomingCounted
<1> QED
  BY <1>2, <1>3, <1>4 DEF CountInv

\* change_fd_lock itself, up to the requests, and the end of the handler.
LEMMA ChangeLockCounts ==
  ASSUME LockInv, CountInv, NEW p \in Procs, NEW type \in Section, ChangeLock(p, type)
  PROVE  CountInv'
<1>1. /\ pc' = [pc EXCEPT ![p] = "loop"] /\ disp' = [disp EXCEPT ![p] = "handled"]
      /\ ret' = [ret EXCEPT ![p] = TRUE] /\ hand[p] = "no"
      /\ UNCHANGED <<queue, inc, outg, watch, peer, hand>>
  BY DEF ChangeLock, counts
<1>2. EverybodyHandles'
  BY <1>1 DEF CountInv, EverybodyHandles, LockInv, TypeOK
<1>3. inc[p] = 0
  BY <1>1 DEF LockInv, CountsInPlace
<1>4. \A x \in Procs : peer[x] \in Procs
  BY DEF LockInv, TypeOK
<1> QED
  BY <1>1, <1>2, <1>3, <1>4, QuietStep DEF LockInv, TypeOK, CountInv, OthersOnLists

LEMMA SetLockCounts ==
  ASSUME LockInv, CountInv, NEW p \in Procs, SetLock(p)
  PROVE  CountInv'
<1>1. /\ pc' = [pc EXCEPT ![p] = "flush"]
      /\ UNCHANGED <<queue, inc, outg, watch, peer, hand, disp, ret>>
  BY DEF SetLock, counts, caller
<1>2. EverybodyHandles' /\ pc[p] = "loop"
  BY <1>1 DEF CountInv, EverybodyHandles, LockInv, TypeOK, SetLock
<1>3. \A x \in Procs : peer[x] \in Procs
  BY DEF LockInv, TypeOK
<1> QED
  BY <1>1, <1>2, <1>3, QuietStep DEF LockInv, TypeOK, CountInv, OthersOnLists

LEMMA FindHolderCounts ==
  ASSUME LockInv, CountInv, NEW p \in Procs, FindHolder(p)
  PROVE  CountInv'
<1>1. /\ pc' = [pc EXCEPT ![p] = "ask"] /\ Len(watch[p]) < MaxAsked
      /\ UNCHANGED <<queue, inc, outg, watch, hand, disp, ret>>
  BY DEF FindHolder, counts, kernel
<1>2. PICK q \in Conflicting(p, FlockType(want[p])) : peer' = [peer EXCEPT ![p] = q]
  BY DEF FindHolder
<1>3. q \in Procs /\ q # p /\ lk[q] # "none"
  BY <1>2 DEF Conflicting
<1>4. pc[q] # "out"
  BY <1>3 DEF LockInv, OpenLocked
<1>5. EverybodyHandles' /\ pc[p] = "loop"
  BY <1>1 DEF CountInv, EverybodyHandles, LockInv, TypeOK, FindHolder
<1>6. \A x \in Procs : peer[x] \in Procs
  BY DEF LockInv, TypeOK
<1> QED
  BY <1>1, <1>2, <1>3, <1>4, <1>5, <1>6, QuietStep DEF LockInv, TypeOK, CountInv, OthersOnLists

LEMMA ReturnCounts ==
  ASSUME LockInv, CountInv, NEW p \in Procs, Return(p)
  PROVE  CountInv'
<1>1. ret[p] /\ want[p] \in Section
  BY DEF CountInv, EverybodyHandles, LockInv, TypeOK
<1>2. /\ pc' = [pc EXCEPT ![p] = want[p]] /\ ret' = [ret EXCEPT ![p] = TRUE]
      /\ UNCHANGED <<queue, inc, outg, watch, peer, hand, disp>>
  BY <1>1 DEF Return, counts
<1>3. EverybodyHandles' /\ pc[p] = "flush"
  BY <1>1, <1>2 DEF CountInv, EverybodyHandles, LockInv, TypeOK, Return
<1>4. \A x \in Procs : peer[x] \in Procs
  BY DEF LockInv, TypeOK
<1> QED
  BY <1>1, <1>2, <1>3, <1>4, QuietStep DEF LockInv, TypeOK, CountInv, OthersOnLists

LEMMA HandlerEndCounts ==
  ASSUME LockInv, CountInv, NEW p \in Procs,
         StopWaiting(p) \/ Relock(p) \/ Update(p) \/ Freeze(p) \/ Thaw(p)
  PROVE  CountInv'
<1>1. UNCHANGED <<queue, inc, outg, watch, peer, pc, disp, ret>>
  BY DEF StopWaiting, Relock, Update, Freeze, Thaw, counts, caller, kernel
<1>2. EverybodyHandles'
  <2>1. hand' = hand \/ (hand[p] # "no" /\ \E h : hand' = [hand EXCEPT ![p] = h])
    BY DEF StopWaiting, Relock, Update, Freeze, Thaw
  <2> QED
    BY <1>1, <2>1 DEF CountInv, EverybodyHandles, LockInv, TypeOK
<1>3. \A x \in Procs : peer[x] \in Procs
  BY DEF LockInv, TypeOK
<1> QED
  BY <1>1, <1>2, <1>3, QuietStep DEF CountInv, OthersOnLists

\* The lists keep naming other processes, that handle signals.
LEMMA ListsKept ==
  ASSUME LockInv, OthersOnLists, UNCHANGED <<watch, peer>>,
         \A x \in Procs : pc'[x] = "ask" => pc[x] = "ask",
         \A x \in Procs : pc'[x] = "out" => pc[x] = "out"
  PROVE  OthersOnLists'
<1>1. \A x \in Procs : \A i \in 1..Len(watch[x]) : watch[x][i] \in Procs
  BY ElementOfSeq DEF LockInv, TypeOK
<1>2. \A x \in Procs : peer[x] \in Procs
  BY DEF LockInv, TypeOK
<1> QED
  BY <1>1, <1>2 DEF OthersOnLists

\* A request is one more signal to be matched, and one more process to tell.
LEMMA AskHolderCounts ==
  ASSUME LockInv, CountInv, NEW p \in Procs, AskHolder(p)
  PROVE  CountInv'
<1>1. PICK q \in Procs : q = peer[p]
  BY DEF LockInv, TypeOK
<1>2. PICK n \in {0, 1} : n = IF q < p THEN 0 ELSE 1
  OBVIOUS
<1>3. /\ pc[p] = "ask" /\ outg' = [outg EXCEPT ![p] = @ + 1]
      /\ queue' = Sent(queue, p, q, n)
      /\ watch' = [watch EXCEPT ![p] = Append(@, q)]
      /\ peer' = [peer EXCEPT ![p] = p] /\ pc' = [pc EXCEPT ![p] = "loop"]
      /\ UNCHANGED <<disp, ret, hand, inc>>
  BY <1>1, <1>2 DEF AskHolder
<1>4. /\ q # p /\ pc[q] # "out" /\ Len(watch[p]) < MaxAsked
      /\ disp[q] = "handled" /\ pc[q] # "dead"
  BY <1>1, <1>3 DEF CountInv, OthersOnLists, EverybodyHandles
<1>5. queue \in Queues /\ n \in Signal /\ TypeOK /\ p \in Nat /\ q \in Nat
  <2>1. queue \in Queues /\ TypeOK
    BY DEF LockInv, TypeOK, Queues
  <2>2. n \in Signal
    BY DEF Signal
  <2> QED
    BY <2>1, <2>2, ProcsAssumption
<1>6. /\ queue'[q][n] = Append(queue[q][n], p)
      /\ \A r \in Procs, m \in Signal : r # q \/ m # n => queue'[r][m] = queue[r][m]
  <2>1. queue' = Sent(queue, p, q, n)
    BY <1>3
  <2>2. queue \in Queues /\ q \in Procs /\ n \in Signal /\ disp[q] = "handled" /\ pc[q] # "dead"
    BY <1>4, <1>5
  <2>3. /\ Sent(queue, p, q, n)[q][n] = Append(queue[q][n], p)
        /\ \A r \in Procs, m \in Signal :
             r # q \/ m # n => Sent(queue, p, q, n)[r][m] = queue[r][m]
    BY <2>2, SentIs
  <2> QED
    BY <2>1, <2>3
<1>7. outg[p] = 0 /\ inc[p] = 0
  BY <1>3 DEF LockInv, CountsInPlace, HandlerInPlace
<1>8. EverybodyHandles'
  <2>1. \A x \in Procs, m \in 0..3 : pc[x] = "out" => queue'[x][m] = queue[x][m]
    BY <1>4, <1>6 DEF Signal
  <2>2. \A x \in Procs : pc'[x] = (IF x = p THEN "loop" ELSE pc[x])
    BY <1>3, <1>5 DEF TypeOK
  <2> QED
    BY <1>3, <2>1, <2>2 DEF CountInv, EverybodyHandles
<1>9. OthersOnLists'
  <2>1. /\ watch[p] \in Seq(Procs) /\ Len(watch[p]) \in Nat
        /\ Len(watch'[p]) = Len(watch[p]) + 1 /\ watch'[p][Len(watch[p]) + 1] = q
        /\ \A i \in 1..Len(watch[p]) : watch'[p][i] = watch[p][i] /\ watch[p][i] \in Procs
        /\ \A r \in Procs : r # p => watch'[r] = watch[r]
    BY <1>3, <1>5, ElementOfSeq DEF TypeOK
  <2>2. \A x \in Procs : pc'[x] = "out" <=> pc[x] = "out"
    BY <1>3, <1>5 DEF TypeOK
  <2>3. \A x \in Procs : pc'[x] = "ask" => x # p /\ pc[x] = "ask" /\ peer'[x] = peer[x]
    BY <1>3, <1>5 DEF TypeOK
  <2>4. \A x \in Procs : peer[x] \in Procs /\ watch[x] \in Seq(Procs)
    BY <1>5 DEF TypeOK
  <2>5. \A x \in Procs : pc'[x] = "ask" =>
          peer'[x] # x /\ pc'[peer'[x]] # "out" /\ Len(watch'[x]) < MaxAsked
    BY <2>1, <2>2, <2>3, <2>4 DEF CountInv, OthersOnLists
  <2>6. \A x \in Procs : Len(watch'[x]) <= MaxAsked
    BY <1>4, <2>1, BoundAssumption DEF CountInv, OthersOnLists
  <2>7. ASSUME NEW x \in Procs, NEW i \in 1..Len(watch'[x])
        PROVE  watch'[x][i] # x /\ pc'[watch'[x][i]] # "out"
    <3>1. CASE x = p /\ i = Len(watch[p]) + 1
      BY <1>4, <2>1, <2>2, <3>1
    <3>2. CASE x = p /\ i # Len(watch[p]) + 1
      <4>1. i \in 1..Len(watch[p])
        BY <2>1, <2>7, <3>2
      <4> QED
        BY <2>1, <2>2, <3>2, <4>1 DEF CountInv, OthersOnLists
    <3>3. CASE x # p
      <4>1. watch'[x] = watch[x] /\ watch[x][i] \in Procs
        BY <2>1, <2>4, <2>7, <3>3, ElementOfSeq
      <4> QED
        BY <2>2, <2>7, <4>1 DEF CountInv, OthersOnLists
    <3> QED
      BY <3>1, <3>2, <3>3
  <2> QED
    BY <2>5, <2>6, <2>7 DEF OthersOnLists
<1>10. AsksOnce'
  <2>1. /\ queue[q][n] \in Seq(Procs) /\ Len(queue[q][n]) \in Nat
        /\ \A x \in Procs : Pending(x, q, n)' = Pending(x, q, n)
                                  \cup (IF x = p THEN {Len(queue[q][n]) + 1} ELSE {})
    <3>1. queue[q][n] \in Seq(Procs) /\ Len(queue[q][n]) \in Nat
      BY <1>5, OwedTypes
    <3> QED
      BY <1>6, <3>1, PlacesInAppend DEF Pending
  <2>2. \A x, r \in Procs, m \in {0, 1} :
          x # p \/ r # q \/ m # n => Pending(x, r, m)' = Pending(x, r, m)
    <3> SUFFICES ASSUME NEW x \in Procs, NEW r \in Procs, NEW m \in {0, 1},
                        x # p \/ r # q \/ m # n
                 PROVE  Pending(x, r, m)' = Pending(x, r, m)
      OBVIOUS
    <3>1. CASE r # q \/ m # n
      <4>1. queue'[r][m] = queue[r][m]
        BY <1>6, <3>1 DEF Signal
      <4> QED
        BY <4>1 DEF Pending
    <3>2. CASE r = q /\ m = n /\ x # p
      <4>1. Pending(x, q, n)' = Pending(x, q, n)
        BY <2>1, <3>2
      <4> QED
        BY <3>2, <4>1
    <3> QED
      BY <3>1, <3>2
  <2>3. ~SomeRequest(p) /\ queue[p][4] = <<>>
    BY <1>7 DEF CountInv, AsksOnce
  <2>4. Pending(p, q, n)' = {Len(queue[q][n]) + 1}
    <3>1. Pending(p, q, n) = {}
      BY <2>3 DEF SomeRequest
    <3> QED
      BY <2>1, <3>1
  <2>5. \A r \in Procs, m \in {0, 1} : r # q \/ m # n => Pending(p, r, m)' = {}
    BY <2>2, <2>3 DEF SomeRequest
  <2>6. SomeRequest(p)'
    BY <2>4 DEF SomeRequest
  <2>7. \A x \in Procs : x # p => (SomeRequest(x)' <=> SomeRequest(x))
    BY <2>2 DEF SomeRequest
  <2>8. \A x \in Procs : queue'[x][4] = queue[x][4]
    BY <1>6 DEF Signal
  <2>9. outg'[p] = 1 /\ \A x \in Procs : x # p => outg'[x] = outg[x]
    BY <1>3, <1>5, <1>7 DEF TypeOK
  <2> SUFFICES ASSUME NEW x \in Procs
        PROVE  /\ \A r, s \in Procs, k, m \in {0, 1} :
                    \A i \in Pending(x, r, k)', j \in Pending(x, s, m)' : r = s /\ k = m /\ i = j
               /\ outg'[x] = 0 => queue'[x][4] = <<>> /\ ~SomeRequest(x)'
               /\ outg'[x] # 0 => outg'[x] = 1 /\ IF SomeRequest(x)' THEN queue'[x][4] = <<>>
                                                       ELSE Len(queue'[x][4]) = 1
    BY DEF AsksOnce
  <2>10. CASE x = p
    BY <2>3, <2>4, <2>5, <2>6, <2>8, <2>9, <2>10
  <2>11. CASE x # p
    <3>1. \A r \in Procs, m \in {0, 1} : Pending(x, r, m)' = Pending(x, r, m)
      BY <2>2, <2>11
    <3> QED
      BY <2>7, <2>8, <2>9, <2>11, <3>1 DEF CountInv, AsksOnce
  <2> QED
    BY <2>10, <2>11
<1>11. IncomingCounted'
  <2> SUFFICES ASSUME NEW x \in Procs
               PROVE  /\ OwedToHigher(x)' = OwedToHigher(x) /\ OwedToLower(x)' = OwedToLower(x)
                      /\ pc'[x] = "loop" => OwedToHigher(x) = 0
    BY <1>3 DEF CountInv, IncomingCounted
  <2>1. /\ x = q /\ p > q => Cardinality(FromHigher(x)') = Cardinality(FromHigher(x)) + 1
        /\ ~(x = q /\ p > q) => Cardinality(FromHigher(x)') = Cardinality(FromHigher(x))
        /\ x = q /\ p < q => Cardinality(FromLower(x)') = Cardinality(FromLower(x)) + 1
        /\ ~(x = q /\ p < q) => Cardinality(FromLower(x)') = Cardinality(FromLower(x))
        /\ Cardinality(FromHigher(x)) \in Nat /\ Cardinality(FromLower(x)) \in Nat
    <3>1. /\ Cardinality(FromHigher(x)')
                = Cardinality(FromHigher(x)) + (IF x = q /\ p > q THEN 1 ELSE 0)
          /\ Cardinality(FromLower(x)')
                = Cardinality(FromLower(x)) + (IF x = q /\ p < q THEN 1 ELSE 0)
      BY <1>3, <1>4, <1>5, PutOnList
    <3>2. Cardinality(FromHigher(x)) \in Nat /\ Cardinality(FromLower(x)) \in Nat
      BY ListsFinite
    <3> QED
      BY <3>1, <3>2
  <2>2. \A m \in Signal : Len(queue[x][m]) \in Nat /\ queue[x][m] \in Seq(Procs)
    BY <1>5, OwedTypes
  <2>3. \A m \in Signal :
          /\ x = q /\ m = n => Len(queue'[x][m]) = Len(queue[x][m]) + 1
          /\ ~(x = q /\ m = n) => Len(queue'[x][m]) = Len(queue[x][m])
    <3>1. queue[q][n] \in Seq(Procs)
      BY <1>5, OwedTypes
    <3>2. Len(Append(queue[q][n], p)) = Len(queue[q][n]) + 1
      BY <3>1
    <3> QED
      BY <1>6, <3>2
  <2>4. 0 \in Signal /\ 1 \in Signal /\ 2 \in Signal /\ 3 \in Signal
    BY DEF Signal
  <2>5. OwedToHigher(x)' = OwedToHigher(x) /\ OwedToLower(x)' = OwedToLower(x)
    <3>1. /\ Len(queue[x][0]) \in Nat /\ Len(queue[x][1]) \in Nat
          /\ Len(queue[x][2]) \in Nat /\ Len(queue[x][3]) \in Nat
      BY <2>2, <2>4
    <3>2. (p > q <=> n = 0) /\ (p < q <=> n = 1) /\ n # 2 /\ n # 3
      BY <1>2, <1>4, <1>5
    <3>3. Len(queue'[x][2]) = Len(queue[x][2]) /\ Len(queue'[x][3]) = Len(queue[x][3])
      BY <2>3, <2>4, <3>2
    <3>4. CASE x = q /\ n = 0
      <4>1. Len(queue'[x][0]) = Len(queue[x][0]) + 1 /\ Len(queue'[x][1]) = Len(queue[x][1])
        BY <2>3, <2>4, <3>4
      <4>2. /\ Cardinality(FromHigher(x)') = Cardinality(FromHigher(x)) + 1
            /\ Cardinality(FromLower(x)') = Cardinality(FromLower(x))
        BY <2>1, <3>2, <3>4
      <4> QED
        BY <2>1, <3>1, <3>3, <4>1, <4>2 DEF OwedToHigher, OwedToLower
    <3>5. CASE x = q /\ n = 1
      <4>1. Len(queue'[x][0]) = Len(queue[x][0]) /\ Len(queue'[x][1]) = Len(queue[x][1]) + 1
        BY <2>3, <2>4, <3>5
      <4>2. /\ Cardinality(FromHigher(x)') = Cardinality(FromHigher(x))
            /\ Cardinality(FromLower(x)') = Cardinality(FromLower(x)) + 1
        BY <2>1, <3>2, <3>5
      <4> QED
        BY <2>1, <3>1, <3>3, <4>1, <4>2 DEF OwedToHigher, OwedToLower
    <3>6. CASE x # q
      <4>1. Len(queue'[x][0]) = Len(queue[x][0]) /\ Len(queue'[x][1]) = Len(queue[x][1])
        BY <2>3, <2>4, <3>6
      <4>2. /\ Cardinality(FromHigher(x)') = Cardinality(FromHigher(x))
            /\ Cardinality(FromLower(x)') = Cardinality(FromLower(x))
        BY <2>1, <3>6
      <4> QED
        BY <3>3, <4>1, <4>2 DEF OwedToHigher, OwedToLower
    <3> QED
      BY <3>4, <3>5, <3>6
  <2>6. pc'[x] = "loop" => OwedToHigher(x) = 0
    BY <1>3, <1>5, <1>7, NothingOwed DEF CountInv, IncomingCounted, TypeOK
  <2> QED
    BY <2>5, <2>6
<1> QED
  BY <1>8, <1>9, <1>10, <1>11 DEF CountInv

\* A process that is told is one to tell less, and one signal more.
LEMMA TellWatcherCounts ==
  ASSUME LockInv, CountInv, NEW p \in Procs, TellWatcher(p)
  PROVE  CountInv'
<1>1. PICK q \in Procs : q = watch[p][Len(watch[p])]
  BY LastListed DEF TellWatcher, LockInv, CountInv
<1>2. PICK n \in {2, 3} : n = IF q < p THEN 2 ELSE 3
  OBVIOUS
<1>3. /\ watch[p] # <<>>
      /\ queue' = Sent(queue, p, q, n)
      /\ watch' = [watch EXCEPT ![p] = SubSeq(@, 1, Len(@) - 1)]
      /\ UNCHANGED <<disp, pc, hand, inc, outg, peer, ret>>
  BY <1>1, <1>2 DEF TellWatcher, counts, caller
<1>4. /\ queue \in Queues /\ n \in Signal /\ TypeOK /\ OthersOnLists
      /\ watch[p] \in Seq(Procs) /\ Len(watch[p]) \in Nat /\ Len(watch[p]) > 0
  <2>1. queue \in Queues /\ TypeOK
    BY DEF LockInv, TypeOK, Queues
  <2>2. n \in Signal
    BY DEF Signal
  <2>3. watch[p] \in Seq(Procs)
    BY <2>1 DEF TypeOK
  <2> QED
    BY <1>3, <2>1, <2>2, <2>3 DEF CountInv
<1>5. q \in Procs /\ q # p
  BY <1>1, <1>3, <1>4, LastListed
<1>6. pc[q] # "out" /\ p \in Nat /\ q \in Nat /\ disp[q] = "handled" /\ pc[q] # "dead"
  <2>1. Len(watch[p]) \in 1..Len(watch[p])
    BY <1>4
  <2>2. pc[q] # "out"
    BY <1>1, <1>4, <2>1 DEF OthersOnLists
  <2> QED
    BY <1>5, <2>2, ProcsAssumption DEF CountInv, EverybodyHandles
<1>7. /\ queue'[q][n] = Append(queue[q][n], p)
      /\ \A r \in Procs, m \in Signal : r # q \/ m # n => queue'[r][m] = queue[r][m]
  <2>1. queue' = Sent(queue, p, q, n)
    BY <1>3
  <2>2. queue \in Queues /\ q \in Procs /\ n \in Signal /\ disp[q] = "handled" /\ pc[q] # "dead"
    BY <1>4, <1>5, <1>6
  <2>3. /\ Sent(queue, p, q, n)[q][n] = Append(queue[q][n], p)
        /\ \A r \in Procs, m \in Signal :
             r # q \/ m # n => Sent(queue, p, q, n)[r][m] = queue[r][m]
    BY <2>2, SentIs
  <2> QED
    BY <2>1, <2>3
<1>8. EverybodyHandles'
  <2>1. \A x \in Procs, m \in 0..3 : pc[x] = "out" => queue'[x][m] = queue[x][m]
    <3>1. 0..3 \subseteq Signal
      BY DEF Signal
    <3> QED
      BY <1>6, <1>7, <3>1
  <2> QED
    BY <1>3, <2>1 DEF CountInv, EverybodyHandles
<1>9. OthersOnLists'
  <2>1. /\ Len(watch'[p]) = Len(watch[p]) - 1
        /\ \A i \in 1..(Len(watch[p]) - 1) : watch'[p][i] = watch[p][i]
        /\ \A r \in Procs : r # p => watch'[r] = watch[r]
    <3>1. watch'[p] = SubSeq(watch[p], 1, Len(watch[p]) - 1)
      BY <1>3, <1>4 DEF TypeOK
    <3>2. \A i \in 1..(Len(watch[p]) - 1) : watch[p][i] \in Procs
      BY <1>4, ElementOfSeq
    <3>3. /\ Len(watch'[p]) = Len(watch[p]) - 1
          /\ \A i \in 1..(Len(watch[p]) - 1) : watch'[p][i] = watch[p][i]
      BY <1>4, <3>1, <3>2, SubSeqProperties
    <3> QED
      BY <1>3, <1>4, <3>3 DEF TypeOK
  <2>2. \A x \in Procs : peer[x] \in Procs /\ watch[x] \in Seq(Procs) /\ Len(watch[x]) \in Nat
    <3>1. \A x \in Procs : peer[x] \in Procs /\ watch[x] \in Seq(Procs)
      BY <1>4 DEF TypeOK
    <3> QED
      BY <3>1
  <2>3. \A x \in Procs : /\ Len(watch'[x]) \in Nat /\ Len(watch'[x]) <= Len(watch[x])
                         /\ \A i \in 1..Len(watch'[x]) : i \in 1..Len(watch[x])
                                                         /\ watch'[x][i] = watch[x][i]
    <3> SUFFICES ASSUME NEW x \in Procs
          PROVE /\ Len(watch'[x]) \in Nat /\ Len(watch'[x]) <= Len(watch[x])
                /\ \A i \in 1..Len(watch'[x]) : i \in 1..Len(watch[x])
                                                /\ watch'[x][i] = watch[x][i]
      OBVIOUS
    <3>1. CASE x = p
      BY <1>4, <2>1, <3>1
    <3>2. CASE x # p
      BY <2>1, <2>2, <3>2
    <3> QED
      BY <3>1, <3>2
  <2>4. \A x \in Procs : \A i \in 1..Len(watch[x]) : watch[x][i] \in Procs
    BY <2>2, ElementOfSeq
  <2>5. \A x \in Procs : pc'[x] = "ask" =>
          peer'[x] # x /\ pc'[peer'[x]] # "out" /\ Len(watch'[x]) < MaxAsked
    BY <1>3, <1>4, <2>2, <2>3, BoundAssumption DEF OthersOnLists
  <2>6. \A x \in Procs : Len(watch'[x]) <= MaxAsked
    BY <1>4, <2>2, <2>3, BoundAssumption DEF OthersOnLists
  <2>7. \A x \in Procs : \A i \in 1..Len(watch'[x]) :
          watch'[x][i] # x /\ pc'[watch'[x][i]] # "out"
    BY <1>3, <1>4, <2>3, <2>4 DEF OthersOnLists
  <2> QED
    BY <2>5, <2>6, <2>7 DEF OthersOnLists
<1>10. AsksOnce'
  <2>1. \A x \in Procs, m \in {0, 1, 4} : queue'[x][m] = queue[x][m]
    BY <1>7 DEF Signal
  <2> QED
    BY <1>3, <2>1, AsksKept DEF CountInv
<1>11. IncomingCounted'
  <2> SUFFICES ASSUME NEW x \in Procs
               PROVE  OwedToHigher(x)' = OwedToHigher(x) /\ OwedToLower(x)' = OwedToLower(x)
    BY <1>3 DEF CountInv, IncomingCounted
  <2>1. /\ x = q /\ p > q => Cardinality(FromHigher(x)) = Cardinality(FromHigher(x)') + 1
        /\ ~(x = q /\ p > q) => Cardinality(FromHigher(x)) = Cardinality(FromHigher(x)')
        /\ x = q /\ p < q => Cardinality(FromLower(x)) = Cardinality(FromLower(x)') + 1
        /\ ~(x = q /\ p < q) => Cardinality(FromLower(x)) = Cardinality(FromLower(x)')
        /\ Cardinality(FromHigher(x)') \in Nat /\ Cardinality(FromLower(x)') \in Nat
    <3>1. /\ Cardinality(FromHigher(x))
                = Cardinality(FromHigher(x)') + (IF x = q /\ p > q THEN 1 ELSE 0)
          /\ Cardinality(FromLower(x))
                = Cardinality(FromLower(x)') + (IF x = q /\ p < q THEN 1 ELSE 0)
          /\ Cardinality(FromHigher(x)') \in Nat /\ Cardinality(FromLower(x)') \in Nat
      BY <1>1, <1>4, TakenOffList
    <3> QED
      BY <3>1
  <2>2. \A m \in Signal : Len(queue[x][m]) \in Nat /\ queue[x][m] \in Seq(Procs)
    BY <1>4, OwedTypes
  <2>3. \A m \in Signal :
          /\ x = q /\ m = n => Len(queue'[x][m]) = Len(queue[x][m]) + 1
          /\ ~(x = q /\ m = n) => Len(queue'[x][m]) = Len(queue[x][m])
    <3>1. queue[q][n] \in Seq(Procs)
      BY <1>4, <1>5, OwedTypes
    <3>2. Len(Append(queue[q][n], p)) = Len(queue[q][n]) + 1
      BY <3>1
    <3> QED
      BY <1>7, <3>2
  <2>4. 0 \in Signal /\ 1 \in Signal /\ 2 \in Signal /\ 3 \in Signal
    BY DEF Signal
  <2>5. /\ Len(queue[x][0]) \in Nat /\ Len(queue[x][1]) \in Nat
        /\ Len(queue[x][2]) \in Nat /\ Len(queue[x][3]) \in Nat
    BY <2>2, <2>4
  <2>6. (p > q <=> n = 2) /\ (p < q <=> n = 3) /\ n # 0 /\ n # 1
    BY <1>2, <1>5, <1>6
  <2>7. Len(queue'[x][0]) = Len(queue[x][0]) /\ Len(queue'[x][1]) = Len(queue[x][1])
    BY <2>3, <2>4, <2>6
  <2>8. CASE x = q /\ n = 2
    <3>1. Len(queue'[x][2]) = Len(queue[x][2]) + 1 /\ Len(queue'[x][3]) = Len(queue[x][3])
      BY <2>3, <2>4, <2>8
    <3>2. /\ Cardinality(FromHigher(x)) = Cardinality(FromHigher(x)') + 1
          /\ Cardinality(FromLower(x)) = Cardinality(FromLower(x)')
      BY <2>1, <2>6, <2>8
    <3>3. PICK a \in Nat : a = Len(queue[x][2])
      BY <2>5
    <3>4. PICK b \in Nat : b = Cardinality(FromHigher(x)')
      BY <2>1
    <3>5. PICK c \in Nat : c = Len(queue[x][0])
      BY <2>5
    <3>6. OwedToHigher(x)' = (a + 1) + b - c
      BY <2>7, <3>1, <3>3, <3>4, <3>5 DEF OwedToHigher
    <3>7. OwedToHigher(x) = a + (b + 1) - c
      BY <3>2, <3>3, <3>4, <3>5 DEF OwedToHigher
    <3>8. OwedToLower(x)' = OwedToLower(x)
      BY <2>7, <3>1, <3>2 DEF OwedToLower
    <3> QED
      BY <3>6, <3>7, <3>8
  <2>9. CASE x = q /\ n = 3
    <3>1. Len(queue'[x][2]) = Len(queue[x][2]) /\ Len(queue'[x][3]) = Len(queue[x][3]) + 1
      BY <2>3, <2>4, <2>9
    <3>2. /\ Cardinality(FromHigher(x)) = Cardinality(FromHigher(x)')
          /\ Cardinality(FromLower(x)) = Cardinality(FromLower(x)') + 1
      BY <2>1, <2>6, <2>9
    <3>3. PICK a \in Nat : a = Len(queue[x][3])
      BY <2>5
    <3>4. PICK b \in Nat : b = Cardinality(FromLower(x)')
      BY <2>1
    <3>5. PICK c \in Nat : c = Len(queue[x][1])
      BY <2>5
    <3>6. OwedToLower(x)' = (a + 1) + b - c
      BY <2>7, <3>1, <3>3, <3>4, <3>5 DEF OwedToLower
    <3>7. OwedToLower(x) = a + (b + 1) - c
      BY <3>2, <3>3, <3>4, <3>5 DEF OwedToLower
    <3>8. OwedToHigher(x)' = OwedToHigher(x)
      BY <2>7, <3>1, <3>2 DEF OwedToHigher
    <3> QED
      BY <3>6, <3>7, <3>8
  <2>10. CASE x # q
    <3>1. Len(queue'[x][2]) = Len(queue[x][2]) /\ Len(queue'[x][3]) = Len(queue[x][3])
      BY <2>3, <2>4, <2>10
    <3>2. /\ Cardinality(FromHigher(x)') = Cardinality(FromHigher(x))
          /\ Cardinality(FromLower(x)') = Cardinality(FromLower(x))
      BY <2>1, <2>10
    <3> QED
      BY <2>7, <3>1, <3>2 DEF OwedToHigher, OwedToLower
  <2> QED
    BY <2>8, <2>9, <2>10
<1> QED
  BY <1>8, <1>9, <1>10, <1>11 DEF CountInv

\* A signal that is taken is one to be matched less.
LEMMA MayRelockCounts ==
  ASSUME LockInv, CountInv, NEW p \in Procs, MayRelock(p)
  PROVE  CountInv'
<1>1. PICK n \in {2, 3} : /\ Delivers(p, n) /\ disp[p] = "handled"
                          /\ queue' = Dequeued(p, n)
                          /\ inc' = [inc EXCEPT ![p] = IF @ > 0 THEN @ - 1 ELSE 0]
                          /\ UNCHANGED <<disp, pc, hand, outg, watch, peer, ret>>
  BY DEF MayRelock, caller
<1>2. queue \in Queues /\ n \in Signal /\ TypeOK
  <2>1. queue \in Queues /\ TypeOK
    BY DEF LockInv, TypeOK, Queues
  <2>2. n \in Signal
    BY DEF Signal
  <2> QED
    BY <2>1, <2>2
<1>3. /\ queue[p][n] \in Seq(Procs) /\ queue[p][n] # <<>>
      /\ queue'[p][n] = Tail(queue[p][n])
      /\ \A r \in Procs, m \in Signal : r # p \/ m # n => queue'[r][m] = queue[r][m]
  BY <1>1, <1>2, DequeuedIs
<1>4. pc[p] # "out"
  BY <1>1 DEF CountInv, EverybodyHandles
<1>5. EverybodyHandles'
  <2>1. \A x \in Procs, m \in 0..3 : pc[x] = "out" => queue'[x][m] = queue[x][m]
    <3>1. 0..3 \subseteq Signal
      BY DEF Signal
    <3> QED
      BY <1>3, <1>4, <3>1
  <2> QED
    BY <1>1, <2>1 DEF CountInv, EverybodyHandles
<1>6. OthersOnLists'
  BY <1>1, ListsKept DEF CountInv
<1>7. AsksOnce'
  <2>1. \A x \in Procs, m \in {0, 1, 4} : queue'[x][m] = queue[x][m]
    BY <1>3 DEF Signal
  <2> QED
    BY <1>1, <2>1, AsksKept DEF CountInv
<1>8. IncomingCounted'
  <2> SUFFICES ASSUME NEW x \in Procs
               PROVE  /\ OwedToHigher(x)' >= 0 /\ OwedToLower(x)' >= 0
                      /\ inc'[x] = OwedToHigher(x)' + OwedToLower(x)'
                      /\ pc'[x] = "loop" => OwedToHigher(x)' = 0
    BY DEF IncomingCounted
  <2>1. FromHigher(x)' = FromHigher(x) /\ FromLower(x)' = FromLower(x)
    BY <1>1 DEF FromHigher, FromLower, OnLists
  <2>2. 0 \in Signal /\ 1 \in Signal /\ 2 \in Signal /\ 3 \in Signal
    BY DEF Signal
  <2>3. /\ OwedToHigher(x) >= 0 /\ OwedToLower(x) >= 0
        /\ inc[x] = OwedToHigher(x) + OwedToLower(x)
        /\ pc[x] = "loop" => OwedToHigher(x) = 0
        /\ OwedToHigher(x) \in Int /\ OwedToLower(x) \in Int /\ inc[x] \in Nat
    BY <1>2, OwedTypes DEF CountInv, IncomingCounted
  <2>4. CASE x # p
    <3>1. \A m \in Signal : queue'[x][m] = queue[x][m]
      BY <1>3, <2>4
    <3>2. /\ queue'[x][0] = queue[x][0] /\ queue'[x][1] = queue[x][1]
          /\ queue'[x][2] = queue[x][2] /\ queue'[x][3] = queue[x][3]
      BY <2>2, <3>1
    <3>3. OwedToHigher(x)' = OwedToHigher(x) /\ OwedToLower(x)' = OwedToLower(x)
      BY <2>1, <3>2 DEF OwedToHigher, OwedToLower
    <3>4. inc'[x] = inc[x]
      BY <1>1, <1>2, <2>4 DEF TypeOK
    <3> QED
      BY <1>1, <2>3, <3>3, <3>4
  <2>5. CASE x = p
    <3>1. Len(Tail(queue[p][n])) = Len(queue[p][n]) - 1 /\ Len(queue[p][n]) > 0
      BY <1>3
    <3>2. \A m \in Unmasked(p) : m < n => queue[p][m] = <<>>
      BY <1>1, <1>2, LowestFirst DEF Unmasked, Signal
    <3>3. n \in Unmasked(p)
      BY <1>1 DEF Delivers, Deliverable
    <3>4. /\ Len(queue[p][0]) \in Nat /\ Len(queue[p][1]) \in Nat
          /\ Len(queue[p][2]) \in Nat /\ Len(queue[p][3]) \in Nat
          /\ Cardinality(FromHigher(p)) \in Nat /\ Cardinality(FromLower(p)) \in Nat
      BY <1>2, <2>2, OwedTypes, ListsFinite
    <3>5. CASE n = 2
      <4>1. 0 \in Unmasked(p) /\ pc[p] # "loop"
        BY <3>3, <3>5 DEF Unmasked, Signal
      <4>2. queue[p][0] = <<>>
        BY <3>2, <3>5, <4>1
      <4>3. OwedToHigher(p) = Len(queue[p][2]) + Cardinality(FromHigher(p)) /\ OwedToHigher(p) > 0
        BY <3>1, <3>4, <3>5, <4>2 DEF OwedToHigher
      <4>4. /\ Len(queue'[p][2]) = Len(queue[p][2]) - 1
            /\ queue'[p][0] = queue[p][0] /\ queue'[p][1] = queue[p][1]
            /\ queue'[p][3] = queue[p][3]
        <5>1. queue'[p][2] = Tail(queue[p][2]) /\ queue[p][2] \in Seq(Procs) /\ queue[p][2] # <<>>
          BY <1>3, <3>5
        <5>2. Len(queue'[p][2]) = Len(queue[p][2]) - 1
          BY <5>1
        <5> QED
          BY <1>3, <2>2, <3>5, <5>2
      <4>5. OwedToHigher(p)' = OwedToHigher(p) - 1
        BY <2>1, <2>5, <3>4, <4>2, <4>3, <4>4 DEF OwedToHigher
      <4>6. OwedToLower(p)' = OwedToLower(p)
        BY <2>1, <2>5, <4>4 DEF OwedToLower
      <4>7. inc'[p] = inc[p] - 1
        BY <1>1, <1>2, <2>3, <2>5, <4>3 DEF TypeOK
      <4> QED
        BY <1>1, <2>3, <2>5, <4>1, <4>3, <4>5, <4>6, <4>7
    <3>6. CASE n = 3
      <4>1. 1 \in Unmasked(p)
        BY <3>3, <3>6 DEF Unmasked, Signal
      <4>2. queue[p][1] = <<>>
        BY <3>2, <3>6, <4>1
      <4>3. OwedToLower(p) = Len(queue[p][3]) + Cardinality(FromLower(p)) /\ OwedToLower(p) > 0
        BY <3>1, <3>4, <3>6, <4>2 DEF OwedToLower
      <4>4. /\ Len(queue'[p][3]) = Len(queue[p][3]) - 1
            /\ queue'[p][0] = queue[p][0] /\ queue'[p][1] = queue[p][1]
            /\ queue'[p][2] = queue[p][2]
        <5>1. queue'[p][3] = Tail(queue[p][3]) /\ queue[p][3] \in Seq(Procs) /\ queue[p][3] # <<>>
          BY <1>3, <3>6
        <5>2. Len(queue'[p][3]) = Len(queue[p][3]) - 1
          BY <5>1
        <5> QED
          BY <1>3, <2>2, <3>6, <5>2
      <4>5. OwedToLower(p)' = OwedToLower(p) - 1
        BY <2>1, <2>5, <3>4, <4>2, <4>3, <4>4 DEF OwedToLower
      <4>6. OwedToHigher(p)' = OwedToHigher(p)
        BY <2>1, <2>5, <4>4 DEF OwedToHigher
      <4>7. inc'[p] = inc[p] - 1
        BY <1>1, <1>2, <2>3, <2>5, <4>3 DEF TypeOK
      <4> QED
        BY <1>1, <2>3, <2>5, <4>3, <4>5, <4>6, <4>7
    <3> QED
      BY <3>5, <3>6
  <2> QED
    BY <2>4, <2>5
<1> QED
  BY <1>5, <1>6, <1>7, <1>8 DEF CountInv

\* The answer that is taken was the only one, and to the only request.
LEMMA AnsweredCounts ==
  ASSUME LockInv, CountInv, NEW p \in Procs, Answered(p)
  PROVE  CountInv'
<1>1. /\ Delivers(p, 4) /\ disp[p] = "handled"
      /\ queue' = Dequeued(p, 4)
      /\ outg' = [outg EXCEPT ![p] = IF @ > 0 THEN @ - 1 ELSE 0]
      /\ UNCHANGED <<disp, pc, hand, inc, watch, peer, ret>>
  BY DEF Answered, caller
<1>2. queue \in Queues /\ 4 \in Signal /\ TypeOK
  <2>1. queue \in Queues /\ TypeOK
    BY DEF LockInv, TypeOK, Queues
  <2>2. 4 \in Signal
    BY DEF Signal
  <2> QED
    BY <2>1, <2>2
<1>3. /\ queue[p][4] \in Seq(Procs) /\ queue[p][4] # <<>>
      /\ queue'[p][4] = Tail(queue[p][4])
      /\ \A r \in Procs, m \in Signal : r # p \/ m # 4 => queue'[r][m] = queue[r][m]
  BY <1>1, <1>2, DequeuedIs
<1>4. outg[p] = 1 /\ ~SomeRequest(p) /\ Len(queue[p][4]) = 1
  BY <1>3 DEF CountInv, AsksOnce
<1>5. outg'[p] = 0 /\ queue'[p][4] = <<>> /\ \A x \in Procs : x # p => outg'[x] = outg[x]
  <2>1. outg'[p] = 0 /\ \A x \in Procs : x # p => outg'[x] = outg[x]
    BY <1>1, <1>2, <1>4 DEF TypeOK
  <2>2. Tail(queue[p][4]) \in Seq(Procs) /\ Len(Tail(queue[p][4])) = 0
    BY <1>3, <1>4
  <2>3. Tail(queue[p][4]) = <<>>
    BY <2>2, EmptySeq
  <2> QED
    BY <1>3, <2>1, <2>3
<1>6. \A x \in Procs, m \in 0..3 : queue'[x][m] = queue[x][m]
  <2>1. \A m \in 0..3 : m \in Signal /\ m # 4
    BY DEF Signal
  <2> QED
    BY <1>3, <2>1
<1>7. EverybodyHandles'
  BY <1>1, <1>6 DEF CountInv, EverybodyHandles
<1>8. OthersOnLists'
  BY <1>1, ListsKept DEF CountInv
<1>9. AsksOnce'
  <2>1. \A x, q \in Procs, n \in {0, 1} : Pending(x, q, n)' = Pending(x, q, n)
    BY <1>6 DEF Pending
  <2>2. \A x \in Procs : SomeRequest(x)' <=> SomeRequest(x)
    BY <2>1 DEF SomeRequest
  <2>3. \A x \in Procs : x # p => queue'[x][4] = queue[x][4]
    BY <1>2, <1>3
  <2> QED
    BY <1>4, <1>5, <2>1, <2>2, <2>3 DEF CountInv, AsksOnce
<1>10. IncomingCounted'
  BY <1>1, <1>6, OwedKept DEF CountInv, IncomingCounted
<1> QED
  BY <1>7, <1>8, <1>9, <1>10 DEF CountInv

\* A request that is taken was the only one of its sender, who waits for the
\* answer: it is answered, and counted.
LEMMA RequestTaken ==
  ASSUME LockInv, CountInv, NEW p \in Procs, NEW n \in {0, 1},
         Delivers(p, n), disp[p] = "handled",
         queue' = Sent(Dequeued(p, n), p, Head(queue[p][n]), 4),
         inc' = [inc EXCEPT ![p] = @ + 1],
         UNCHANGED <<disp, pc, outg, watch, peer, ret>>,
         \A x \in Procs : x # p => hand'[x] = hand[x]
  PROVE  CountInv'
<1>1. queue \in Queues /\ n \in Signal /\ 4 \in Signal /\ TypeOK
  <2>1. queue \in Queues /\ TypeOK
    BY DEF LockInv, TypeOK, Queues
  <2>2. n \in Signal /\ 4 \in Signal
    BY DEF Signal
  <2> QED
    BY <2>1, <2>2
<1>2. PICK Q : Q = Dequeued(p, n)
  OBVIOUS
<1>3. /\ queue[p][n] \in Seq(Procs) /\ queue[p][n] # <<>>
      /\ Q[p][n] = Tail(queue[p][n])
      /\ \A r \in Procs, m \in Signal : r # p \/ m # n => Q[r][m] = queue[r][m]
  BY <1>1, <1>2, DequeuedIs
<1>4. Q \in Queues
  BY <1>1, <1>2, <1>3 DEF Queues, Dequeued
<1>5. PICK s \in Procs : s = Head(queue[p][n]) /\ s = queue[p][n][1]
  BY <1>3
<1>6. /\ 1 \in Pending(s, p, n) /\ SomeRequest(s)
      /\ \A i \in Pending(s, p, n) : i = 1
  <2>1. Len(queue[p][n]) \in Nat /\ Len(queue[p][n]) > 0
    BY <1>3
  <2>2. 1 \in Pending(s, p, n)
    BY <1>5, <2>1 DEF Pending
  <2> QED
    BY <2>2 DEF SomeRequest, CountInv, AsksOnce
<1>7. outg[s] = 1 /\ queue[s][4] = <<>>
  BY <1>6 DEF CountInv, AsksOnce
<1>8. pc[s] = "loop" /\ disp[s] = "handled"
  <2>1. pc[s] = "loop"
    BY <1>7 DEF LockInv, CountsInPlace
  <2> QED
    BY <2>1 DEF CountInv, EverybodyHandles
<1>9. /\ queue'[s][4] = Append(Q[s][4], p)
      /\ \A r \in Procs, m \in Signal : r # s \/ m # 4 => queue'[r][m] = Q[r][m]
  <2>1. queue' = Sent(Q, p, s, 4) /\ pc[s] # "dead"
    BY <1>2, <1>5, <1>8
  <2> QED
    BY <1>1, <1>4, <1>8, <2>1, SentIs
<1>10. /\ queue'[p][n] = Tail(queue[p][n])
       /\ \A r \in Procs, m \in 0..3 : r # p \/ m # n => queue'[r][m] = queue[r][m]
  <2>1. \A m \in 0..3 : m \in Signal /\ m # 4
    BY DEF Signal
  <2>2. n \in 0..3
    OBVIOUS
  <2> QED
    BY <1>3, <1>9, <2>1, <2>2
<1>11. /\ Len(queue'[s][4]) = 1
       /\ \A x \in Procs : x # s => queue'[x][4] = queue[x][4]
  <2>1. Q[s][4] = <<>> /\ \A x \in Procs : Q[x][4] = queue[x][4]
    BY <1>1, <1>3, <1>7
  <2>2. Len(queue'[s][4]) = 1
    <3>1. Len(Append(<<>>, p)) = 1
      OBVIOUS
    <3> QED
      BY <1>9, <2>1, <3>1
  <2> QED
    BY <1>1, <1>9, <2>1, <2>2
<1>12. pc[p] # "out"
  BY DEF CountInv, EverybodyHandles
<1>13. EverybodyHandles'
  BY <1>10, <1>12 DEF CountInv, EverybodyHandles
<1>14. OthersOnLists'
  BY ListsKept DEF CountInv
<1>15. IncomingCounted'
  <2> SUFFICES ASSUME NEW x \in Procs
               PROVE  /\ OwedToHigher(x)' >= 0 /\ OwedToLower(x)' >= 0
                      /\ inc'[x] = OwedToHigher(x)' + OwedToLower(x)'
                      /\ pc'[x] = "loop" => OwedToHigher(x)' = 0
    BY DEF IncomingCounted
  <2>1. FromHigher(x)' = FromHigher(x) /\ FromLower(x)' = FromLower(x)
    BY DEF FromHigher, FromLower, OnLists
  <2>2. 0 \in 0..3 /\ 1 \in 0..3 /\ 2 \in 0..3 /\ 3 \in 0..3 /\ 0..3 \subseteq Signal
    BY DEF Signal
  <2>3. /\ OwedToHigher(x) >= 0 /\ OwedToLower(x) >= 0
        /\ inc[x] = OwedToHigher(x) + OwedToLower(x)
        /\ pc[x] = "loop" => OwedToHigher(x) = 0
        /\ OwedToHigher(x) \in Int /\ OwedToLower(x) \in Int /\ inc[x] \in Nat
    BY <1>1, OwedTypes DEF CountInv, IncomingCounted
  <2>4. CASE x # p
    <3>1. /\ queue'[x][0] = queue[x][0] /\ queue'[x][1] = queue[x][1]
          /\ queue'[x][2] = queue[x][2] /\ queue'[x][3] = queue[x][3]
      BY <1>10, <2>2, <2>4
    <3>2. OwedToHigher(x)' = OwedToHigher(x) /\ OwedToLower(x)' = OwedToLower(x)
      BY <2>1, <3>1 DEF OwedToHigher, OwedToLower
    <3>3. inc'[x] = inc[x]
      BY <1>1, <2>4 DEF TypeOK
    <3> QED
      BY <2>3, <3>2, <3>3
  <2>5. CASE x = p
    <3>1. /\ Len(queue[p][0]) \in Nat /\ Len(queue[p][1]) \in Nat
          /\ Len(queue[p][2]) \in Nat /\ Len(queue[p][3]) \in Nat
          /\ Cardinality(FromHigher(p)) \in Nat /\ Cardinality(FromLower(p)) \in Nat
      BY <1>1, <2>2, OwedTypes, ListsFinite
    <3>2. inc'[p] = inc[p] + 1
      BY <1>1 DEF TypeOK
    <3>3. n \in Unmasked(p)
      BY DEF Delivers, Deliverable
    <3>4. CASE n = 0
      <4>1. queue'[p][0] = Tail(queue[p][0]) /\ queue[p][0] \in Seq(Procs) /\ queue[p][0] # <<>>
        BY <1>3, <1>10, <3>4
      <4>2. Len(queue[p][0]) = Len(queue'[p][0]) + 1 /\ Len(queue'[p][0]) \in Nat
        BY <4>1, TailLength
      <4>3. /\ queue'[p][1] = queue[p][1]
            /\ queue'[p][2] = queue[p][2] /\ queue'[p][3] = queue[p][3]
        BY <1>10, <2>2, <3>4
      <4>4. OwedToHigher(p)' = OwedToHigher(p) + 1
        <5>1. PICK a \in Nat : a = Len(queue[p][2])
          BY <3>1
        <5>2. PICK b \in Nat : b = Cardinality(FromHigher(p))
          BY <3>1
        <5>3. PICK c \in Nat : c = Len(queue'[p][0])
          BY <4>2
        <5>4. OwedToHigher(p)' = a + b - c
          BY <2>1, <2>5, <4>3, <5>1, <5>2, <5>3 DEF OwedToHigher
        <5>5. OwedToHigher(p) = a + b - (c + 1)
          BY <4>2, <5>1, <5>2, <5>3 DEF OwedToHigher
        <5> QED
          BY <5>4, <5>5
      <4>5. OwedToLower(p)' = OwedToLower(p)
        BY <2>1, <2>5, <4>3 DEF OwedToLower
      <4>6. pc[p] # "loop"
        BY <3>3, <3>4 DEF Unmasked
      <4> QED
        BY <2>3, <2>5, <3>2, <4>4, <4>5, <4>6
    <3>5. CASE n = 1
      <4>1. queue'[p][1] = Tail(queue[p][1]) /\ queue[p][1] \in Seq(Procs) /\ queue[p][1] # <<>>
        BY <1>3, <1>10, <3>5
      <4>2. Len(queue[p][1]) = Len(queue'[p][1]) + 1 /\ Len(queue'[p][1]) \in Nat
        BY <4>1, TailLength
      <4>3. /\ queue'[p][0] = queue[p][0]
            /\ queue'[p][2] = queue[p][2] /\ queue'[p][3] = queue[p][3]
        BY <1>10, <2>2, <3>5
      <4>4. OwedToLower(p)' = OwedToLower(p) + 1
        <5>1. PICK a \in Nat : a = Len(queue[p][3])
          BY <3>1
        <5>2. PICK b \in Nat : b = Cardinality(FromLower(p))
          BY <3>1
        <5>3. PICK c \in Nat : c = Len(queue'[p][1])
          BY <4>2
        <5>4. OwedToLower(p)' = a + b - c
          BY <2>1, <2>5, <4>3, <5>1, <5>2, <5>3 DEF OwedToLower
        <5>5. OwedToLower(p) = a + b - (c + 1)
          BY <4>2, <5>1, <5>2, <5>3 DEF OwedToLower
        <5> QED
          BY <5>4, <5>5
      <4>5. OwedToHigher(p)' = OwedToHigher(p)
        BY <2>1, <2>5, <4>3 DEF OwedToHigher
      <4> QED
        BY <2>3, <2>5, <3>2, <4>4, <4>5
    <3> QED
      BY <3>4, <3>5
  <2> QED
    BY <2>4, <2>5
<1>16. AsksOnce'
  <2>1. \A x, r \in Procs, m \in {0, 1} : r # p \/ m # n => Pending(x, r, m)' = Pending(x, r, m)
    <3>1. \A m \in {0, 1} : m \in 0..3
      OBVIOUS
    <3> QED
      BY <1>10, <3>1 DEF Pending
  <2>2. \A x \in Procs : Pending(x, p, n)' = {i \in Nat : i # 0 /\ i + 1 \in Pending(x, p, n)}
    <3> SUFFICES ASSUME NEW x \in Procs
                 PROVE  Pending(x, p, n)' = {i \in Nat : i # 0 /\ i + 1 \in Pending(x, p, n)}
      OBVIOUS
    <3>1. Pending(x, p, n)' = {i \in 1..Len(Tail(queue[p][n])) : Tail(queue[p][n])[i] = x}
      BY <1>10 DEF Pending
    <3>2. {i \in 1..Len(Tail(queue[p][n])) : Tail(queue[p][n])[i] = x}
            = {i \in Nat : i # 0 /\ i + 1 \in {j \in 1..Len(queue[p][n]) : queue[p][n][j] = x}}
      BY <1>3, PlacesInTail
    <3> QED
      BY <3>1, <3>2 DEF Pending
  <2>3. \A x \in Procs : \A i \in Pending(x, p, n) :
          i \in Nat /\ i # 0 /\ (i # 1 => \E j \in Pending(x, p, n)' : i = j + 1)
    <3> SUFFICES ASSUME NEW x \in Procs, NEW i \in Pending(x, p, n)
                 PROVE  i \in Nat /\ i # 0 /\ (i # 1 => \E j \in Pending(x, p, n)' : i = j + 1)
      OBVIOUS
    <3>1. i \in Nat /\ i # 0
      BY <1>3 DEF Pending
    <3>2. i # 1 => i - 1 \in Nat /\ i - 1 # 0 /\ (i - 1) + 1 = i
      BY <3>1
    <3> QED
      BY <2>2, <3>1, <3>2
  <2>4. \A x \in Procs : x # s => 1 \notin Pending(x, p, n)
    BY <1>5 DEF Pending
  <2>5. \A r \in Procs, m \in {0, 1} : Pending(s, r, m)' = {}
    <3>1. Pending(s, p, n)' = {}
      BY <1>6, <2>2
    <3>2. \A r \in Procs, m \in {0, 1} : r # p \/ m # n => Pending(s, r, m) = {}
      BY <1>6 DEF CountInv, AsksOnce
    <3> QED
      BY <2>1, <3>1, <3>2
  <2>6. ~SomeRequest(s)'
    BY <2>5 DEF SomeRequest
  <2>7. ASSUME NEW x \in Procs, x # s
        PROVE  SomeRequest(x)' <=> SomeRequest(x)
    <3>1. Pending(x, p, n)' = {} <=> Pending(x, p, n) = {}
      BY <2>2, <2>3, <2>4, <2>7
    <3> QED
      BY <2>1, <3>1 DEF SomeRequest
  <2>8. ASSUME NEW x \in Procs, x # s, NEW q \in Procs, NEW r \in Procs,
               NEW k \in {0, 1}, NEW m \in {0, 1},
               NEW i \in Pending(x, q, k)', NEW j \in Pending(x, r, m)'
        PROVE  q = r /\ k = m /\ i = j
    <3>1. PICK i1 \in Pending(x, q, k) : i1 = IF q = p /\ k = n THEN i + 1 ELSE i
      BY <2>1, <2>2
    <3>2. PICK j1 \in Pending(x, r, m) : j1 = IF r = p /\ m = n THEN j + 1 ELSE j
      BY <2>1, <2>2
    <3>3. q = r /\ k = m /\ i1 = j1
      BY <3>1, <3>2 DEF CountInv, AsksOnce
    <3>4. CASE q = p /\ k = n
      BY <2>2, <3>1, <3>2, <3>3, <3>4
    <3>5. CASE ~(q = p /\ k = n)
      BY <3>1, <3>2, <3>3, <3>5
    <3> QED
      BY <3>4, <3>5
  <2> SUFFICES ASSUME NEW x \in Procs
        PROVE  /\ \A q, r \in Procs, k, m \in {0, 1} :
                    \A i \in Pending(x, q, k)', j \in Pending(x, r, m)' : q = r /\ k = m /\ i = j
               /\ outg'[x] = 0 => queue'[x][4] = <<>> /\ ~SomeRequest(x)'
               /\ outg'[x] # 0 => outg'[x] = 1 /\ IF SomeRequest(x)' THEN queue'[x][4] = <<>>
                                                       ELSE Len(queue'[x][4]) = 1
    BY DEF AsksOnce
  <2>9. CASE x = s
    BY <1>7, <1>11, <2>5, <2>6, <2>9
  <2>10. CASE x # s
    BY <1>11, <2>7, <2>8, <2>10 DEF CountInv, AsksOnce
  <2> QED
    BY <2>9, <2>10
<1> QED
  BY <1>13, <1>14, <1>15, <1>16 DEF CountInv

LEMMA InitCounts == Init => CountInv
<1> SUFFICES ASSUME Init PROVE CountInv
  OBVIOUS
<1>1. \A x \in Procs, n \in Signal : queue[x][n] = <<>>
  BY DEF Init, NoSignals
<1>2. 0..3 \subseteq Signal /\ 4 \in Signal /\ \A n \in {0, 1} : n \in Signal
  BY DEF Signal
<1>3. EverybodyHandles
  BY <1>1, <1>2 DEF Init, EverybodyHandles
<1>4. OthersOnLists
  <2>1. \A x \in Procs : pc[x] = "out" /\ Len(watch[x]) = 0
    BY DEF Init
  <2> QED
    BY <2>1, BoundAssumption DEF OthersOnLists
<1>5. AsksOnce
  <2>1. \A x, q \in Procs, n \in {0, 1} : Pending(x, q, n) = {}
    BY <1>1, <1>2 DEF Pending
  <2>2. \A x \in Procs : ~SomeRequest(x) /\ outg[x] = 0 /\ queue[x][4] = <<>>
    BY <1>1, <1>2, <2>1 DEF Init, SomeRequest
  <2> QED
    BY <2>1, <2>2 DEF AsksOnce
<1>6. IncomingCounted
  <2> SUFFICES ASSUME NEW x \in Procs
               PROVE  OwedToHigher(x) = 0 /\ OwedToLower(x) = 0 /\ inc[x] = 0
    BY DEF IncomingCounted
  <2>1. FromHigher(x) = {} /\ FromLower(x) = {}
    <3>1. OnLists(x) = {}
      BY BoundAssumption DEF Init, OnLists
    <3> QED
      BY <3>1 DEF FromHigher, FromLower
  <2>2. queue[x][0] = <<>> /\ queue[x][1] = <<>> /\ queue[x][2] = <<>> /\ queue[x][3] = <<>>
    BY <1>1 DEF Signal
  <2>3. Cardinality(FromHigher(x)) = 0 /\ Cardinality(FromLower(x)) = 0
    BY <2>1, FS_EmptySet
  <2>4. inc[x] = 0
    BY DEF Init
  <2>5. Len(<<>>) = 0
    OBVIOUS
  <2>6. OwedToHigher(x) = 0 + 0 - 0 /\ OwedToLower(x) = 0 + 0 - 0
    BY <2>2, <2>3, <2>5 DEF OwedToHigher, OwedToLower
  <2> QED
    BY <2>4, <2>6
<1> QED
  BY <1>3, <1>4, <1>5, <1>6 DEF CountInv

LEMMA NextCounts ==
  ASSUME NobodyFails, LockInv, CountInv, [Next]_vars
  PROVE  CountInv'
<1>1. CASE UNCHANGED vars
  <2>1. UNCHANGED <<queue, inc, outg, watch, peer, pc, disp, ret, hand>>
    BY <1>1 DEF vars, kernel, counts, caller
  <2>2. EverybodyHandles'
    BY <2>1 DEF CountInv, EverybodyHandles
  <2>3. \A x \in Procs : peer[x] \in Procs
    BY DEF LockInv, TypeOK
  <2> QED
    BY <2>1, <2>2, <2>3, QuietStep DEF CountInv, OthersOnLists
<1>2. CASE Next
  <2>1. PICK p \in Procs :
          \/ \E type \in Section : ChangeLock(p, type)
          \/ Locking(p) \/ Handler(p)
          \/ Alarm(p) \/ StopWaiting(p) \/ GiveUpWaiting(p) \/ AlarmForgotten(p) \/ Relock(p)
          \/ Crash(p) \/ RelockAbort(p) \/ Leave(p)
          \/ Peek(p) \/ PeekDone(p) \/ Update(p) \/ Freeze(p) \/ Thaw(p)
    BY <1>2 DEF Next
  <2>2. CASE \E type \in Section : ChangeLock(p, type)
    BY <2>2, ChangeLockCounts
  <2>3. CASE Locking(p)
    BY <2>3, SetLockCounts, FindHolderCounts, AskHolderCounts, TellWatcherCounts, ReturnCounts
       DEF Locking
  <2>4. CASE Relinquish(p) \/ RelinquishAgain(p)
    <3>1. PICK n \in {0, 1} :
            /\ Delivers(p, n) /\ disp[p] = "handled"
            /\ queue' = Sent(Dequeued(p, n), p, Head(queue[p][n]), 4)
            /\ inc' = [inc EXCEPT ![p] = @ + 1]
            /\ UNCHANGED <<disp, pc, outg, watch, peer, ret>>
            /\ hand' = [hand EXCEPT ![p] = "wait"] \/ hand' = hand
      BY <2>4 DEF Relinquish, RelinquishAgain, caller
    <3>2. \A x \in Procs : x # p => hand'[x] = hand[x]
      BY <3>1 DEF LockInv, TypeOK
    <3> QED
      BY <3>1, <3>2, RequestTaken
  <2>5. CASE MayRelock(p) \/ Answered(p)
    BY <2>5, MayRelockCounts, AnsweredCounts
  <2>6. CASE StopWaiting(p) \/ Relock(p) \/ Update(p) \/ Freeze(p) \/ Thaw(p)
    BY <2>6, HandlerEndCounts
  <2> QED
    BY <2>1, <2>2, <2>3, <2>4, <2>5, <2>6, NothingFails DEF Handler
<1> QED
  BY <1>1, <1>2

\* While nobody fails, every request to unlock is counted once and released once,
\* and a process has one request under way or one answer, however many processes
\* there are and however their signals interleave.
THEOREM CountInvariance == ASSUME NobodyFails PROVE Spec => []CountInv
<1>1. LockInv /\ CountInv /\ [Next]_vars => CountInv'
  BY NextCounts
<1> QED
  BY InitCounts, LockInvariance, <1>1, PTL DEF Spec

\* While nobody fails, unmatched_sigrtmin1s_incoming goes neither out of step with
\* the releases that come nor with the requests: a handler neither locks the file
\* again too early nor waits for a release it has had.
THEOREM CountsKeepMatching == ASSUME NobodyFails PROVE Spec => []CountsMatch
<1>1. LockInv /\ CountInv => CountsMatch
  <2> SUFFICES ASSUME LockInv, CountInv, NEW p \in Procs
               PROVE  inc[p] + Len(queue[p][0]) + Len(queue[p][1])
                        = Len(queue[p][2]) + Len(queue[p][3]) + Cardinality(OnLists(p))
    BY DEF CountsMatch
  <2>1. OnLists(p) = FromHigher(p) \cup FromLower(p)
    <3>1. ASSUME NEW at \in OnLists(p) PROVE at[1] > p \/ at[1] < p
      <4>1. at \in Procs \X (1..MaxAsked) /\ at[2] <= Len(watch[at[1]]) /\ watch[at[1]][at[2]] = p
        BY DEF OnLists
      <4>2. at[1] \in Procs /\ at[2] \in 1..MaxAsked
        BY <4>1
      <4>3. Len(watch[at[1]]) \in Nat
        BY <4>2 DEF LockInv, TypeOK
      <4>4. at[2] \in 1..Len(watch[at[1]])
        BY <4>1, <4>2, <4>3, BoundAssumption
      <4>5. p # at[1]
        BY <4>1, <4>2, <4>4 DEF CountInv, OthersOnLists
      <4>6. p \in Nat /\ at[1] \in Nat
        BY <4>2, ProcsAssumption
      <4> QED
        BY <4>5, <4>6
    <3> QED
      BY <3>1 DEF FromHigher, FromLower
  <2>2. FromHigher(p) \cap FromLower(p) = {}
    <3>1. \A at \in OnLists(p) : at[1] \in Nat
      BY ProcsAssumption DEF OnLists
    <3> QED
      BY <3>1, ProcsAssumption DEF FromHigher, FromLower
  <2>3. Cardinality(OnLists(p)) = Cardinality(FromHigher(p)) + Cardinality(FromLower(p))
    <3>1. Cardinality(FromHigher(p) \cap FromLower(p)) = 0
      BY <2>2, FS_EmptySet
    <3>2. /\ IsFiniteSet(FromHigher(p)) /\ IsFiniteSet(FromLower(p))
          /\ Cardinality(FromHigher(p)) \in Nat /\ Cardinality(FromLower(p)) \in Nat
      BY ListsFinite
    <3>3. Cardinality(FromHigher(p) \cup FromLower(p))
            = Cardinality(FromHigher(p)) + Cardinality(FromLower(p))
              - Cardinality(FromHigher(p) \cap FromLower(p))
      BY <3>2, FS_Union
    <3> QED
      BY <2>1, <3>1, <3>2, <3>3
  <2>4. /\ Len(queue[p][0]) \in Nat /\ Len(queue[p][1]) \in Nat
        /\ Len(queue[p][2]) \in Nat /\ Len(queue[p][3]) \in Nat /\ inc[p] \in Nat
    BY OwedTypes DEF LockInv, Signal
  <2>5. inc[p] = (Len(queue[p][2]) + Cardinality(FromHigher(p)) - Len(queue[p][0]))
                 + (Len(queue[p][3]) + Cardinality(FromLower(p)) - Len(queue[p][1]))
    BY DEF CountInv, IncomingCounted, OwedToHigher, OwedToLower
  <2>6. Cardinality(FromHigher(p)) \in Nat /\ Cardinality(FromLower(p)) \in Nat
    BY ListsFinite
  <2>7. PICK h \in Nat, l \in Nat : h = Cardinality(FromHigher(p)) /\ l = Cardinality(FromLower(p))
    BY <2>6
  <2>8. PICK q0 \in Nat, q1 \in Nat, q2 \in Nat, q3 \in Nat :
          /\ q0 = Len(queue[p][0]) /\ q1 = Len(queue[p][1])
          /\ q2 = Len(queue[p][2]) /\ q3 = Len(queue[p][3])
    BY <2>4
  <2>9. inc[p] = (q2 + h - q0) + (q3 + l - q1) /\ Cardinality(OnLists(p)) = h + l
    BY <2>3, <2>5, <2>7, <2>8
  <2>10. inc[p] + q0 + q1 = q2 + q3 + (h + l)
    BY <2>9
  <2> QED
    BY <2>8, <2>9, <2>10
<1> QED
  BY <1>1, CountInvariance, LockInvariance, PTL

\* While nobody fails, a process that waits for an answer has its request pending
\* where it will be handled, or the answer pending itself.
THEOREM AnswersAreComing == ASSUME NobodyFails PROVE Spec => []BlocksOnComingSignal
<1>1. LockInv /\ CountInv => BlocksOnComingSignal
  <2> SUFFICES ASSUME LockInv, CountInv, NEW p \in Procs
               PROVE  outg[p] <= Len(queue[p][4]) + Cardinality(Requests(p))
    BY DEF BlocksOnComingSignal
  <2>1. ~SomeRequest(p) => Requests(p) = {}
    <3> SUFFICES ASSUME NEW at \in Requests(p) PROVE SomeRequest(p)
      OBVIOUS
    <3>1. /\ at[1] \in Procs /\ at[2] \in {0, 1} /\ at[3] \in Nat /\ at[3] >= 1
          /\ at[3] <= Len(queue[at[1]][at[2]]) /\ queue[at[1]][at[2]][at[3]] = p
      BY ProcsAssumption, FS_CardinalityType DEF Requests
    <3>2. Len(queue[at[1]][at[2]]) \in Nat
      BY <3>1, OwedTypes DEF LockInv, Signal
    <3>3. at[3] \in Pending(p, at[1], at[2])
      BY <3>1, <3>2 DEF Pending
    <3> QED
      BY <3>1, <3>3 DEF SomeRequest
  <2>2. Len(queue[p][4]) \in Nat /\ outg[p] \in Nat
    BY OwedTypes DEF LockInv, Signal
  <2>3. CASE outg[p] = 0
    <3>1. Cardinality(Requests(p)) = 0
      BY <2>1, <2>3, FS_EmptySet DEF CountInv, AsksOnce
    <3> QED
      BY <2>2, <2>3, <3>1
  <2>4. CASE outg[p] # 0 /\ ~SomeRequest(p)
    <3>1. Cardinality(Requests(p)) = 0
      BY <2>1, <2>4, FS_EmptySet
    <3>2. outg[p] = 1 /\ Len(queue[p][4]) = 1
      BY <2>4 DEF CountInv, AsksOnce
    <3> QED
      BY <3>1, <3>2
  <2>5. CASE outg[p] # 0 /\ SomeRequest(p)
    <3>1. outg[p] = 1
      BY <2>5 DEF CountInv, AsksOnce
    <3>2. PICK q \in Procs, n \in {0, 1} : Pending(p, q, n) # {}
      BY <2>5 DEF SomeRequest
    <3>3. PICK i \in 1..Len(queue[q][n]) : queue[q][n][i] = p
      BY <3>2 DEF Pending
    <3>4. queue[q][n] \in Seq(Procs) /\ Len(queue[q][n]) \in Nat
      BY OwedTypes DEF LockInv, Signal
    <3>5. Len(queue[q][n]) <= Cardinality(Procs)
      <4> DEFINE f == [j \in 1..Len(queue[q][n]) |-> queue[q][n][j]]
      <4>1. f \in [1..Len(queue[q][n]) -> Procs]
        BY <3>4, ElementOfSeq
      <4>2. IsFiniteSet(1..Len(queue[q][n])) /\ Cardinality(1..Len(queue[q][n])) = Len(queue[q][n])
        <5>1. PICK l \in Nat : l = Len(queue[q][n])
          BY <3>4
        <5>2. IsFiniteSet(1..l) /\ Cardinality(1..l) = IF 1 > l THEN 0 ELSE l-1+1
          <6>1. 1 \in Int /\ l \in Int
            OBVIOUS
          <6> QED
            BY <6>1, FS_Interval
        <5>3. Cardinality(1..l) = l
          BY <5>2
        <5> QED
          BY <5>1, <5>2, <5>3
      <4>3. ASSUME NEW j \in 1..Len(queue[q][n]), NEW k \in 1..Len(queue[q][n]), f[j] = f[k]
            PROVE  j = k
        <5>1. PICK x \in Procs : x = queue[q][n][j]
          BY <3>4, ElementOfSeq
        <5>2. j \in Pending(x, q, n) /\ k \in Pending(x, q, n)
          BY <4>3, <5>1 DEF Pending
        <5> QED
          BY <5>2 DEF CountInv, AsksOnce
      <4>4. Cardinality(Procs) \in Nat
        BY ProcsAssumption, FS_CardinalityType
      <4> HIDE DEF f
      <4>5. ~(Cardinality(Procs) < Cardinality(1..Len(queue[q][n])))
        <5>1. SUFFICES ASSUME Cardinality(Procs) < Cardinality(1..Len(queue[q][n])) PROVE FALSE
          OBVIOUS
        <5>2. IsFiniteSet(Procs) /\ IsFiniteSet(1..Len(queue[q][n]))
          BY <4>2, ProcsAssumption
        <5>3. \E j, k \in 1..Len(queue[q][n]) : j # k /\ f[j] = f[k]
          BY <4>1, <5>1, <5>2, FS_PigeonHole
        <5> QED
          BY <4>3, <5>3
      <4> QED
        BY <3>4, <4>2, <4>4, <4>5
    <3>6. <<q, n, i>> \in Requests(p)
      <4>1. i \in 1..Cardinality(Procs)
        BY <3>4, <3>5, ProcsAssumption, FS_CardinalityType
      <4> QED
        BY <3>3, <3>4, <4>1 DEF Requests
    <3>7. \A at \in Requests(p) : at = <<q, n, i>>
      <4> SUFFICES ASSUME NEW at \in Requests(p) PROVE at = <<q, n, i>>
        OBVIOUS
      <4>1. /\ at[1] \in Procs /\ at[2] \in {0, 1} /\ at[3] \in Nat /\ at[3] >= 1
            /\ at[3] <= Len(queue[at[1]][at[2]]) /\ queue[at[1]][at[2]][at[3]] = p
            /\ at = <<at[1], at[2], at[3]>>
        BY ProcsAssumption, FS_CardinalityType DEF Requests
      <4>2. Len(queue[at[1]][at[2]]) \in Nat
        BY <4>1, OwedTypes DEF LockInv, Signal
      <4>3. at[3] \in Pending(p, at[1], at[2]) /\ i \in Pending(p, q, n)
        BY <3>3, <4>1, <4>2 DEF Pending
      <4>4. at[1] = q /\ at[2] = n /\ at[3] = i
        BY <4>1, <4>3 DEF CountInv, AsksOnce
      <4> QED
        BY <4>1, <4>4
    <3>8. Requests(p) = {<<q, n, i>>}
      BY <3>6, <3>7
    <3>9. Cardinality(Requests(p)) = 1
      BY <3>8, FS_Singleton
    <3> QED
      BY <2>2, <3>1, <3>9
  <2> QED
    BY <2>3, <2>4, <2>5
<1> QED
  BY <1>1, CountInvariance, LockInvariance, PTL

-----------------------------------------------------------------------------
(* No deadlock: whoever waits, waits for a lower PID. *)

\* SIGRTMIN+0 comes from higher PIDs.
Ranked(qs) == \A p \in Procs : \A i \in 1..Len(qs[p][0]) : qs[p][0][i] > p

LEMMA SentRanked ==
  ASSUME NEW qs \in Queues, Ranked(qs), NEW p \in Procs, NEW q \in Procs, NEW n \in Signal,
         n = 0 => p > q
  PROVE  Ranked(Sent(qs, p, q, n))
<1>1. CASE Ignores(q, n)
  BY <1>1 DEF Sent
<1>2. CASE ~Ignores(q, n)
  <2>1. Sent(qs, p, q, n) = [qs EXCEPT ![q][n] = Append(@, p)]
    BY <1>2 DEF Sent
  <2>2. 0 \in Signal
    BY DEF Signal
  <2>3. ASSUME NEW r \in Procs, NEW i \in 1..Len(Sent(qs, p, q, n)[r][0])
        PROVE  Sent(qs, p, q, n)[r][0][i] > r
    <3>1. CASE r = q /\ n = 0
      <4>1. Sent(qs, p, q, n)[r][0] = Append(qs[q][0], p)
        BY <2>1, <2>2, <3>1 DEF Queues
      <4>2. qs[q][0] \in Seq(Procs) /\ Len(qs[q][0]) \in Nat
        BY <2>2 DEF Queues
      <4>3. Len(Append(qs[q][0], p)) = Len(qs[q][0]) + 1
        BY <4>2
      <4>4. i \in 1..Len(qs[q][0]) \/ i = Len(qs[q][0]) + 1
        BY <2>3, <4>1, <4>2, <4>3
      <4>5. CASE i \in 1..Len(qs[q][0])
        <5>1. Append(qs[q][0], p)[i] = qs[q][0][i]
          BY <4>2, <4>5
        <5> QED
          BY <3>1, <4>1, <4>5, <5>1 DEF Ranked
      <4>6. CASE i = Len(qs[q][0]) + 1
        <5>1. Append(qs[q][0], p)[i] = p
          BY <4>2, <4>6
        <5> QED
          BY <3>1, <4>1, <5>1
      <4> QED
        BY <4>4, <4>5, <4>6
    <3>2. CASE ~(r = q /\ n = 0)
      <4>1. Sent(qs, p, q, n)[r][0] = qs[r][0]
        BY <2>1, <2>2, <3>2 DEF Queues
      <4> QED
        BY <2>3, <4>1 DEF Ranked
    <3> QED
      BY <3>1, <3>2
  <2> QED
    BY <2>3 DEF Ranked
<1> QED
  BY <1>1, <1>2

LEMMA DequeuedRanked ==
  ASSUME queue \in Queues, Ranked(queue), NEW p \in Procs, NEW n \in Signal, Delivers(p, n)
  PROVE  Ranked(Dequeued(p, n))
<1>1. 0 \in Signal
  BY DEF Signal
<1>2. ASSUME NEW r \in Procs, NEW i \in 1..Len(Dequeued(p, n)[r][0])
      PROVE  Dequeued(p, n)[r][0][i] > r
  <2>1. CASE r = p /\ n = 0
    <3>1. Dequeued(p, n)[r][0] = Tail(queue[p][0])
      BY <2>1, DequeuedIs
    <3>2. queue[p][0] \in Seq(Procs) /\ queue[p][0] # <<>>
      BY <2>1, DequeuedIs
    <3>3. Len(Tail(queue[p][0])) \in Nat /\ Len(queue[p][0]) = Len(Tail(queue[p][0])) + 1
      BY <3>2, TailLength
    <3>4. i \in 1..Len(Tail(queue[p][0]))
      BY <1>2, <3>1
    <3>5. Tail(queue[p][0])[i] = queue[p][0][i + 1]
      BY <3>2, <3>4
    <3>6. i + 1 \in 1..Len(queue[p][0])
      BY <3>3, <3>4
    <3> QED
      BY <2>1, <3>1, <3>5, <3>6 DEF Ranked
  <2>2. CASE ~(r = p /\ n = 0)
    <3>1. Dequeued(p, n)[r][0] = queue[r][0]
      BY <1>1, <2>2, DequeuedIs
    <3> QED
      BY <1>2, <3>1 DEF Ranked
  <2> QED
    BY <2>1, <2>2
<1> QED
  BY <1>2 DEF Ranked

\* An answer is not a request.
LEMMA AnswerRanked ==
  ASSUME queue \in Queues, Ranked(queue), NEW p \in Procs, NEW n \in Signal, Delivers(p, n)
  PROVE  Ranked(Sent(Dequeued(p, n), p, Head(queue[p][n]), 4))
<1>1. Dequeued(p, n) \in Queues /\ Head(queue[p][n]) \in Procs
  BY DequeuedType
<1>2. Ranked(Dequeued(p, n))
  BY DequeuedRanked
<1>3. 4 \in Signal /\ 4 # 0
  BY DEF Signal
<1> QED
  BY <1>1, <1>2, <1>3, SentRanked

\* There is somebody to tell only inside change_fd_lock.
Told == \A p \in Procs : watch[p] # <<>> => Changing(p)

LEMMA QueueRanked ==
  ASSUME TypeOK, Ranked(queue), [Next]_vars
  PROVE  Ranked(queue')
<1>1. queue \in Queues
  BY DEF TypeOK, Queues
<1>2. ASSUME UNCHANGED queue PROVE Ranked(queue')
  BY <1>2
<1>3. ASSUME NEW p \in Procs, AskHolder(p) PROVE Ranked(queue')
  <2>1. PICK q \in Procs : q = peer[p]
    BY DEF TypeOK
  <2>2. queue' = Sent(queue, p, q, IF q < p THEN 0 ELSE 1)
    BY <1>3, <2>1 DEF AskHolder
  <2>3. p \in Nat /\ q \in Nat
    BY ProcsAssumption
  <2>4. CASE q < p
    <3>1. queue' = Sent(queue, p, q, 0) /\ 0 \in Signal /\ p > q
      BY <2>2, <2>3, <2>4 DEF Signal
    <3>2. Ranked(Sent(queue, p, q, 0))
      BY <1>1, <3>1, SentRanked
    <3> QED
      BY <3>1, <3>2
  <2>5. CASE ~(q < p)
    <3>1. queue' = Sent(queue, p, q, 1) /\ 1 \in Signal /\ 1 # 0
      BY <2>2, <2>5 DEF Signal
    <3>2. Ranked(Sent(queue, p, q, 1))
      BY <1>1, <3>1, SentRanked
    <3> QED
      BY <3>1, <3>2
  <2> QED
    BY <2>4, <2>5
<1>4. ASSUME NEW p \in Procs, TellWatcher(p) PROVE Ranked(queue')
  <2>1. watch[p] \in Seq(Procs) /\ watch[p] # <<>>
    BY <1>4 DEF TypeOK, TellWatcher
  <2>2. Len(watch[p]) \in 1..Len(watch[p])
    BY <2>1
  <2>3. PICK q \in Procs : q = watch[p][Len(watch[p])]
    BY <2>1, <2>2, ElementOfSeq
  <2>4. PICK n \in {2, 3} : queue' = Sent(queue, p, q, n)
    BY <1>4, <2>3 DEF TellWatcher
  <2>5. n \in Signal /\ n # 0
    BY DEF Signal
  <2>6. Ranked(Sent(queue, p, q, n))
    BY <1>1, <2>5, SentRanked
  <2> QED
    BY <2>4, <2>6
<1>5. ASSUME NEW p \in Procs, Relinquish(p) \/ RelinquishAgain(p) PROVE Ranked(queue')
  <2>1. PICK n \in {0, 1} : /\ Delivers(p, n)
                            /\ queue' = Sent(Dequeued(p, n), p, Head(queue[p][n]), 4)
    BY <1>5 DEF Relinquish, RelinquishAgain
  <2>2. n \in Signal
    BY DEF Signal
  <2>3. Ranked(Sent(Dequeued(p, n), p, Head(queue[p][n]), 4))
    BY <1>1, <2>1, <2>2, AnswerRanked
  <2> QED
    BY <2>1, <2>3
<1>6. ASSUME NEW p \in Procs, MayRelock(p) \/ Answered(p) PROVE Ranked(queue')
  <2>1. PICK n \in {2, 3, 4} : Delivers(p, n) /\ queue' = Dequeued(p, n)
    BY <1>6 DEF MayRelock, Answered
  <2>2. n \in Signal
    BY DEF Signal
  <2>3. Ranked(Dequeued(p, n))
    BY <1>1, <2>1, <2>2, DequeuedRanked
  <2> QED
    BY <2>1, <2>3
<1>7. ASSUME NEW p \in Procs, queue' = [queue EXCEPT ![p] = NoSignals] PROVE Ranked(queue')
  <2>1. ASSUME NEW r \in Procs, NEW i \in 1..Len(queue'[r][0]) PROVE queue'[r][0][i] > r
    <3>1. CASE r = p
      <4>1. queue'[r][0] = <<>>
        BY <1>1, <1>7, <3>1 DEF NoSignals, Signal, Queues
      <4>2. Len(queue'[r][0]) = 0
        BY <4>1
      <4> QED
        BY <2>1, <4>2
    <3>2. CASE r # p
      <4>1. queue'[r][0] = queue[r][0]
        BY <1>1, <1>7, <3>2 DEF Queues
      <4> QED
        BY <2>1, <4>1 DEF Ranked
    <3> QED
      BY <3>1, <3>2
  <2> QED
    BY <2>1 DEF Ranked
<1>8. ASSUME NEW p \in Procs, Crash(p) \/ RelockAbort(p) \/ DefaultAction(p) \/ Leave(p)
      PROVE  Ranked(queue')
  BY <1>7, <1>8 DEF Crash, RelockAbort, DefaultAction, Die, Leave
<1>9. ASSUME NEW p \in Procs,
             \/ \E type \in Section : ChangeLock(p, type)
             \/ SetLock(p) \/ FindHolder(p) \/ Return(p)
             \/ Alarm(p) \/ StopWaiting(p) \/ GiveUpWaiting(p) \/ AlarmForgotten(p) \/ Relock(p)
             \/ Peek(p) \/ PeekDone(p) \/ Update(p) \/ Freeze(p) \/ Thaw(p)
      PROVE  UNCHANGED queue
  BY <1>9 DEF ChangeLock, SetLock, FindHolder, Return, Alarm, StopWaiting, GiveUpWaiting,
       AlarmForgotten, Relock, Peek, PeekDone, Update, Freeze, Thaw, kernel
<1>10. CASE UNCHANGED vars
  BY <1>2, <1>10 DEF vars, kernel
<1> QED
  BY <1>2, <1>3, <1>4, <1>5, <1>6, <1>8, <1>9, <1>10 DEF Next, Locking, Handler

LEMMA WatchTold ==
  ASSUME LockInv, Told, [Next]_vars
  PROVE  Told'
<1>1. CASE UNCHANGED vars
  BY <1>1 DEF Told, Changing, vars
<1>2. ASSUME NEW p \in Procs,
             \/ UNCHANGED <<pc, watch>>
             \/ \E type \in Section : ChangeLock(p, type)
             \/ SetLock(p) \/ FindHolder(p) \/ AskHolder(p) \/ Alarm(p) \/ TellWatcher(p)
             \/ Return(p) \/ Die(p) \/ Leave(p) \/ Peek(p) \/ PeekDone(p)
      PROVE  Told'
  <2>1. pc \in [Procs -> Idle \cup {"loop", "ask", "flush", "dead"}] /\ watch \in [Procs -> Seq(Procs)]
    BY DEF LockInv, TypeOK
  <2>2. CASE UNCHANGED <<pc, watch>>
    BY <2>2 DEF Told, Changing
  <2>3. CASE \E type \in Section : ChangeLock(p, type)
    BY <2>1, <2>3 DEF Told, Changing, ChangeLock
  <2>4. CASE SetLock(p)
    BY <2>1, <2>4 DEF Told, Changing, SetLock
  <2>5. CASE FindHolder(p)
    BY <2>1, <2>5 DEF Told, Changing, FindHolder
  <2>6. CASE AskHolder(p)
    BY <2>1, <2>6 DEF Told, Changing, AskHolder
  <2>7. CASE Alarm(p)
    BY <2>1, <2>7 DEF Told, Changing, Alarm
  <2>8. CASE TellWatcher(p)
    BY <2>1, <2>8 DEF Told, Changing, TellWatcher
  <2>9. CASE Return(p)
    BY <2>1, <2>9 DEF Told, Changing, Return
  <2>10. CASE Die(p)
    BY <2>1, <2>10 DEF Told, Changing, Die
  <2>11. CASE Leave(p)
    BY <2>1, <2>11 DEF Told, Changing, Leave
  <2>12. CASE Peek(p) \/ PeekDone(p)
    BY <2>1, <2>12 DEF Told, Changing, Peek, PeekDone
  <2> QED
    BY <1>2, <2>2, <2>3, <2>4, <2>5, <2>6, <2>7, <2>8, <2>9, <2>10, <2>11, <2>12
<1>3. ASSUME NEW p \in Procs,
             \/ Relinquish(p) \/ RelinquishAgain(p) \/ MayRelock(p) \/ Answered(p)
             \/ StopWaiting(p) \/ GiveUpWaiting(p) \/ AlarmForgotten(p) \/ Relock(p) \/ Update(p)
             \/ Freeze(p) \/ Thaw(p)
      PROVE  UNCHANGED <<pc, watch>>
  BY <1>3 DEF Relinquish, RelinquishAgain, MayRelock, Answered, StopWaiting, GiveUpWaiting,
       AlarmForgotten, Relock, Update, Freeze, Thaw
<1>4. ASSUME NEW p \in Procs, Crash(p) \/ RelockAbort(p) \/ DefaultAction(p)
      PROVE  Die(p)
  BY <1>4 DEF Crash, RelockAbort, DefaultAction
<1> QED
  BY <1>1, <1>2, <1>3, <1>4 DEF Next, Locking, Handler

LEMMA RankedIs == AskedByRank <=> Told /\ Ranked(queue)
  BY DEF AskedByRank, Told, Ranked

\* Requests follow the order of the PIDs, whatever fails.
THEOREM RankInvariance == Spec => []AskedByRank
<1>1. Init => AskedByRank
  <2> SUFFICES ASSUME Init PROVE Told /\ Ranked(queue)
    BY RankedIs
  <2>1. \A p \in Procs : queue[p][0] = <<>> /\ Len(queue[p][0]) = 0
    BY DEF Init, NoSignals, Signal
  <2>2. Ranked(queue)
    BY <2>1 DEF Ranked
  <2> QED
    BY <2>2 DEF Init, Told
<1>2. LockInv /\ AskedByRank /\ [Next]_vars => AskedByRank'
  <2> SUFFICES ASSUME LockInv, Told, Ranked(queue), [Next]_vars PROVE AskedByRank'
    BY RankedIs
  <2>1. Told'
    BY WatchTold
  <2>2. Ranked(queue')
    BY QueueRanked DEF LockInv
  <2> QED
    BY <2>1, <2>2 DEF AskedByRank, Told, Ranked, Changing
<1> QED
  BY <1>1, <1>2, LockInvariance, PTL DEF Spec

\* What a process waits for that cannot go on: in sigsuspend, an answer to its
\* request, or a release by somebody whose request its handler accepted.
LEMMA WhatBlocks ==
  ASSUME LockInv, CountInv, AskedByRank, NEW p \in Procs, ~GoesOn(p), pc[p] # "out",
         \A x \in Procs : ~GoesOn(x)
  PROVE  /\ pc[p] \in {"monitor", "loop"} /\ Interruptible(p)
         /\ queue[p][1] = <<>> /\ queue[p][3] = <<>> /\ queue[p][4] = <<>>
         /\ pc[p] = "monitor" => queue[p][0] = <<>> /\ queue[p][2] = <<>>
         /\ hand[p] = "no" /\ pc[p] = "loop" => outg[p] # 0
         /\ hand[p] # "no" => hand[p] = "wait" /\ inc[p] > 0
<1>1. /\ pc[p] \in {"monitor", "loop"} /\ disp[p] = "handled"
      /\ hand[p] \in {"no", "wait", "relock"} /\ inc[p] \in Nat /\ outg[p] \in Nat
  BY DEF GoesOn, LockInv, TypeOK, CountInv, EverybodyHandles
<1>2. hand[p] # "relock"
  <2> SUFFICES ASSUME hand[p] = "relock" PROVE FALSE
    OBVIOUS
  <2>1. HasFile(p)
    BY <1>1 DEF HasFile, LockInv, OpenLocked
  <2>2. PICK w \in Procs : w # p /\ lk[w] = "write"
    BY <2>1 DEF GoesOn, Conflicting
  <2>3. pc[w] # "write" /\ pc[w] # "flush"
    BY DEF GoesOn
  <2>4. pc[w] = "loop" /\ outg[w] = 0
    BY <2>2, <2>3 DEF LockInv, WriteInPlace
  <2>5. hand[w] = "no"
    BY <2>2, <2>4 DEF LockInv, HandlerInPlace, HasFile
  <2>6. inc[w] = 0
    BY <2>5 DEF LockInv, CountsInPlace
  <2> QED
    BY <2>4, <2>5, <2>6 DEF GoesOn
<1>3. hand[p] = "wait" => inc[p] > 0
  BY <1>1 DEF GoesOn
<1>4. ASSUME hand[p] = "no" PROVE inc[p] = 0
  BY <1>4 DEF LockInv, CountsInPlace
<1>5. Interruptible(p)
  BY <1>1, <1>2, <1>3, <1>4 DEF Interruptible, GoesOn
<1>6. Deliverable(p) = {}
  <2> SUFFICES ASSUME Deliverable(p) # {} PROVE FALSE
    OBVIOUS
  <2>1. Deliverable(p) \subseteq {0, 1, 2, 3, 4}
    BY <1>1 DEF Deliverable, Unmasked, Signal
  <2>2. PICK n \in Deliverable(p) : \A m \in Deliverable(p) : n <= m
    <3>1. CASE 0 \in Deliverable(p)
      BY <2>1, <3>1
    <3>2. CASE 0 \notin Deliverable(p) /\ 1 \in Deliverable(p)
      BY <2>1, <3>2
    <3>3. CASE 0 \notin Deliverable(p) /\ 1 \notin Deliverable(p) /\ 2 \in Deliverable(p)
      BY <2>1, <3>3
    <3>4. CASE 0 \notin Deliverable(p) /\ 1 \notin Deliverable(p) /\ 2 \notin Deliverable(p)
               /\ 3 \in Deliverable(p)
      BY <2>1, <3>4
    <3>5. CASE Deliverable(p) = {4}
      BY <3>5
    <3> QED
      BY <2>1, <3>1, <3>2, <3>3, <3>4, <3>5
  <2>3. Delivers(p, n) /\ n \in Signal
    BY <1>5, <2>1, <2>2 DEF Delivers, Signal
  <2> QED
    BY <1>1, <2>3 DEF GoesOn
<1>7. {1, 3, 4} \subseteq Unmasked(p)
  BY <1>1 DEF Unmasked, Signal
<1>8. pc[p] = "monitor" => {0, 2} \subseteq Unmasked(p)
  BY DEF Unmasked, Signal
<1> QED
  BY <1>1, <1>2, <1>3, <1>4, <1>5, <1>6, <1>7, <1>8 DEF Deliverable, GoesOn

\* A set of PIDs has a lowest one.
LEMMA LowestPid ==
  ASSUME NEW T \in SUBSET Procs, T # {}
  PROVE  \E x \in T : \A y \in T : ~(y < x)
<1> DEFINE R == OpToRel(<, Nat)
<1>1. IsWellFoundedOn(R, Nat)
  BY NatLessThanWellFounded
<1>2. \A x, y \in Nat : <<y, x>> \in R <=> y < x
  BY DEF OpToRel
<1>3. T \subseteq Nat
  BY ProcsAssumption
<1> HIDE DEF R
<1>4. PICK x \in T : \A y \in T : ~(<<y, x>> \in R)
  BY <1>1, <1>3, WFMin
<1> QED
  BY <1>2, <1>3, <1>4

\* While nobody fails, the processes never all wait for each other: one that is in
\* change_fd_lock waits for an answer or a release of one with a lower PID, or can
\* go on; +1 and +3, that lower PIDs send, are not masked there.
THEOREM NoDeadlockHolds == ASSUME NobodyFails PROVE Spec => []NoDeadlock
<1>1. LockInv /\ CountInv /\ AskedByRank => NoDeadlock
  <2> SUFFICES ASSUME LockInv, CountInv, AskedByRank, \A x \in Procs : ~GoesOn(x),
                      NEW p0 \in Procs, Changing(p0)
               PROVE  FALSE
    BY DEF NoDeadlock
  <2> DEFINE waiting == {x \in Procs : pc[x] = "loop"}
  <2>1. p0 \in waiting
    BY DEF Changing, GoesOn
  <2>2. PICK p \in waiting : \A r \in waiting : ~(r < p)
    <3> HIDE DEF waiting
    <3>1. waiting \in SUBSET Procs
      BY DEF waiting
    <3> QED
      BY <2>1, <3>1, LowestPid
  <2>3. p \in Procs /\ pc[p] = "loop" /\ p \in Nat
    BY <2>2, ProcsAssumption
  <2>4. /\ queue[p][1] = <<>> /\ queue[p][3] = <<>> /\ queue[p][4] = <<>>
        /\ hand[p] = "no" => outg[p] # 0
        /\ hand[p] # "no" => inc[p] > 0
    BY <2>3, WhatBlocks
  <2>5. CASE hand[p] = "no"
    <3>1. SomeRequest(p)
      <4>1. Len(queue[p][4]) = 0
        BY <2>4
      <4>2. SomeRequest(p) \/ Len(queue[p][4]) = 1
        BY <2>3, <2>4, <2>5 DEF CountInv, AsksOnce
      <4> QED
        BY <4>1, <4>2
    <3>2. PICK q \in Procs, n \in {0, 1} : Pending(p, q, n) # {}
      BY <3>1 DEF SomeRequest
    <3>3. PICK i \in 1..Len(queue[q][n]) : queue[q][n][i] = p
      BY <3>2 DEF Pending
    <3>4. queue[q][n] # <<>>
      <4>1. Len(<<>>) = 0 /\ 1..0 = {}
        OBVIOUS
      <4> QED
        BY <3>3, <4>1
    <3>5. pc[q] # "out"
      BY <3>4 DEF CountInv, EverybodyHandles
    <3>6. n = 0 /\ pc[q] = "loop"
      BY <3>4, <3>5, WhatBlocks
    <3>7. p > q /\ q \in Nat
      BY <3>3, <3>6, ProcsAssumption DEF AskedByRank
    <3>8. q < p
      BY <2>3, <3>7
    <3> QED
      BY <2>2, <3>6, <3>8
  <2>6. CASE hand[p] # "no"
    <3>1. OwedToHigher(p) = 0 /\ inc[p] = OwedToHigher(p) + OwedToLower(p)
      BY <2>3 DEF CountInv, IncomingCounted
    <3>2. OwedToLower(p) \in Int /\ inc[p] \in Nat
      BY <2>3, OwedTypes DEF LockInv
    <3>3. OwedToLower(p) > 0
      BY <2>4, <2>6, <3>1, <3>2
    <3>4. Len(queue[p][1]) = 0 /\ Len(queue[p][3]) = 0
      BY <2>4
    <3>5. Cardinality(FromLower(p)) \in Nat
      BY <2>3, ListsFinite DEF LockInv
    <3>6. Cardinality(FromLower(p)) # 0
      BY <3>3, <3>4, <3>5 DEF OwedToLower
    <3>7. FromLower(p) # {}
      BY <3>6, FS_EmptySet
    <3>8. PICK at \in FromLower(p) : TRUE
      BY <3>7
    <3>9. /\ at[1] \in Procs /\ at[1] < p
          /\ at[2] \in 1..MaxAsked /\ at[2] <= Len(watch[at[1]])
      BY <3>8 DEF FromLower, OnLists
    <3>10. watch[at[1]] # <<>>
      <4>1. Len(<<>>) = 0 /\ at[2] \in Nat /\ at[2] >= 1
        BY <3>9, BoundAssumption
      <4> QED
        BY <3>9, <4>1
    <3>11. pc[at[1]] = "loop"
      BY <3>9, <3>10 DEF AskedByRank, Changing, GoesOn
    <3> QED
      BY <2>2, <3>9, <3>11
  <2> QED
    BY <2>5, <2>6
<1> QED
  BY <1>1, LockInvariance, CountInvariance, RankInvariance, PTL
=============================================================================
