----------------------------- MODULE GameHistory -----------------------------
(****************************************************************************)
(* What a save file promises to those who share it: one history of a game,  *)
(* which everybody follows and which only those who know all of it extend.  *)
(* A recovery takes a part of it back; whoever was following it is lost     *)
(* then, and has no part in the game till it opens it again.  An engine that *)
(* fails may spoil what follows the history; who strays there is lost too,  *)
(* and nothing is added before a recovery has taken that away.              *)
(****************************************************************************)
EXTENDS Naturals, Sequences

CONSTANTS Procs, Values

VARIABLES
  history, \* the inputs that make up the game
  over,    \* the game has ended
  spoilt,  \* what the history would go on with is spoilt
  known    \* of each process: is it out, lost, or in the game, and what of the
           \* history has it played

vars == <<history, over, spoilt, known>>

Out       == [at |-> "out",  played |-> <<>>]
Lost      == [at |-> "lost", played |-> <<>>]
Played(s) == [at |-> "game", played |-> s]

Init ==
  /\ history = <<>>
  /\ over = FALSE
  /\ spoilt = FALSE
  /\ known = [p \in Procs |-> Out]

Begins(n) == Played(SubSeq(history, 1, n))

\* A process opens the game; where a save line leads is up to the file.
Open(p) ==
  /\ known[p] = Out
  /\ \/ \E n \in 0..Len(history) : known' = [known EXCEPT ![p] = Begins(n)]
     \/ known' = [known EXCEPT ![p] = Lost]
  /\ UNCHANGED <<history, over, spoilt>>

\* It replays one input more.
Follow(p) ==
  /\ \E n \in 1..Len(history) :
       known[p] = Begins(n - 1) /\ known' = [known EXCEPT ![p] = Begins(n)]
  /\ UNCHANGED <<history, over, spoilt>>

\* Who has played all of it may go on, or end it; or its engine fails.
MayAdd(p) == known[p] = Played(history) /\ ~over /\ ~spoilt

Play(p, v) ==
  /\ MayAdd(p)
  /\ history' = Append(history, v)
  /\ known' = [known EXCEPT ![p] = Played(history')]
  /\ UNCHANGED <<over, spoilt>>

End(p) ==
  /\ MayAdd(p)
  /\ over' = TRUE
  /\ UNCHANGED <<history, spoilt, known>>

Spoil(p) ==
  /\ MayAdd(p)
  /\ spoilt' = TRUE
  /\ known' = [known EXCEPT ![p] = Out]
  /\ UNCHANGED <<history, over>>

\* It has played all of the history, and takes what is spoilt for more of it.
Stray(p) ==
  /\ known[p] = Played(history) /\ spoilt
  /\ known' = [known EXCEPT ![p] = Lost]
  /\ UNCHANGED <<history, over, spoilt>>

Leave(p) ==
  /\ known[p] # Out
  /\ known' = [known EXCEPT ![p] = Out]
  /\ UNCHANGED <<history, over, spoilt>>

\* What is spoilt is taken back, or the end of the game alone; or a part of
\* the history, and what comes after it too.
Rewind ==
  /\ \E n \in 0..Len(history) : history' = SubSeq(history, 1, n)
  /\ over' => over /\ history' = history
  /\ spoilt' => spoilt /\ history' = history
  /\ known' = [p \in Procs |-> IF known[p] = Out THEN Out ELSE Lost]

Next ==
  \/ \E p \in Procs : 
       Open(p) \/ Follow(p) \/ End(p) \/ Spoil(p) \/ Stray(p) \/ Leave(p)
  \/ \E p \in Procs, v \in Values : Play(p, v)
  \/ Rewind

Spec == Init /\ [][Next]_vars
===============================================================================
