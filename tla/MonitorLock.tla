---------------------------- MODULE MonitorLock ----------------------------
(***************************************************************************)
(* What the locking of the save file promises (the comment "key invariant" *)
(* of libnethack/src/files.c): any number of processes share the file; one *)
(* changes it only while it has it to itself; and a process that shares    *)
(* the file never goes on from a file that changed behind its back: it     *)
(* gave its share up before the change, and looks at the file again when   *)
(* it takes the share back, unless it had turned away from the file.  Who  *)
(* has turned away looks before coming back, and nobody writes over a      *)
(* change it has not seen.                                                 *)
(***************************************************************************)
CONSTANT Procs

VARIABLES
  mode,   \* "outside", "shared", "exclusive", or "told": gave its share up
          \* because another process is about to write
  stale,  \* the processes whose idea of the file misses a write
  away    \* the processes that have turned away from the file

vars == <<mode, stale, away>>

NobodyExclusive == \A p \in Procs : mode[p] # "exclusive"

Init ==
  /\ mode = [p \in Procs |-> "outside"]
  /\ stale = {}
  /\ away \subseteq Procs

\* A process opens the file, or comes back to it after it was told, and looks
\* at it if it has not turned away.
Share(p) ==
  /\ mode[p] \in {"outside", "told"}
  /\ NobodyExclusive
  /\ mode' = [mode EXCEPT ![p] = "shared"]
  /\ \/ stale' = stale \ {p} /\ away' = away \ {p}
     \/ p \in away /\ UNCHANGED <<stale, away>>

\* A process that shares the file makes way for a writer.
Yield(p) ==
  /\ mode[p] = "shared"
  /\ mode' = [mode EXCEPT ![p] = "told"]
  /\ UNCHANGED <<stale, away>>

\* A process that shares the file takes it when nobody else has a share.
Claim(p) ==
  /\ mode[p] = "shared"
  /\ \A q \in Procs \ {p} : mode[q] \in {"outside", "told"}
  /\ mode' = [mode EXCEPT ![p] = "exclusive"]
  /\ UNCHANGED <<stale, away>>

Write(p) ==
  /\ mode[p] = "exclusive" /\ p \notin stale
  /\ stale' = stale \cup {q \in Procs : mode[q] = "told"}
  /\ UNCHANGED <<mode, away>>

Release(p) ==
  /\ mode[p] = "exclusive"
  /\ mode' = [mode EXCEPT ![p] = "shared"]
  /\ UNCHANGED <<stale, away>>

\* A process that has a share turns away, looks without coming back, or looks
\* and comes back.
TurnAway(p) ==
  /\ mode[p] \in {"shared", "exclusive"}
  /\ away' = away \cup {p}
  /\ UNCHANGED <<mode, stale>>

Look(p) ==
  /\ mode[p] \in {"shared", "exclusive"}
  /\ stale' = stale \ {p}
  /\ away' \in {away, away \ {p}}
  /\ UNCHANGED mode

Depart(p) ==
  /\ mode[p] # "outside"
  /\ mode' = [mode EXCEPT ![p] = "outside"]
  /\ stale' = stale \ {p}
  /\ away' \in {away, away \cup {p}}

Next == \E p \in Procs :
  \/ Share(p) \/ Yield(p) \/ Claim(p) \/ Write(p) \/ Release(p)
  \/ TurnAway(p) \/ Look(p) \/ Depart(p)

Spec == Init /\ [][Next]_vars
=============================================================================
