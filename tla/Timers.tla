------------------------------- MODULE Timers -------------------------------
(***************************************************************************)
(* The timers and light sources of objects (timeout.c, light.c) while the  *)
(* objects move between the floor, the hero, monsters and containers, the  *)
(* hero and the monsters move between levels, stacks are split and merged, *)
(* and the game is saved and loaded again.                                 *)
(*                                                                         *)
(* Every level keeps a queue of timers and a list of lights, and an object *)
(* remembers in olev whose lists hold its own.  The timers of what leaves  *)
(* with the hero or waits between levels are to be found in the lists of   *)
(* the level the hero is on.                                               *)
(***************************************************************************)
EXTENDS Integers, Sequences, FiniteSets
LOCAL INSTANCE SequencesExt

CONSTANTS Levels, Start,        \* the levels, and the one the hero begins on
          Monsters,
          Lamps, Candles,       \* what burns: lamps go out, candles are used up
          Corpses, Trolls,      \* what rots, and what may rise before
          Sacks,                \* containers
          Spares,               \* objects that exist only once split off
          Scenes,               \* which of these a game may begin with
          NoLevel, Limbo,       \* the null level; where migrating monsters wait
          MaxMoves,             \* bound on the clock
          Fuel, Quantity,       \* the fuel and number of a new light
          MagicTimes,           \* ages at which a burning light is looked at
          CloseAge,             \* candles this close in age merge
          RotTime,              \* when a corpse is gone
          Careful               \* TRUE leaves out three steps: see Fall,
                                \* GotoLevel and SaveAndLoad

Lights == Lamps \union Candles
Objs   == Lights \union Corpses \union Trolls \union Sacks

ASSUME TimersAssumption ==
    /\ Start \in Levels
    /\ NoLevel \notin Levels /\ Limbo \notin Levels
    /\ Spares \subseteq Candles /\ Scenes \subseteq SUBSET Objs
    /\ {MaxMoves, Fuel, RotTime} \subseteq Nat
    /\ {Quantity, CloseAge} \subseteq Nat \ {0}
    /\ MagicTimes \subseteq Nat /\ 0 \in MagicTimes
    /\ Careful \in BOOLEAN

VARIABLES moves,    \* the clock
          level,    \* the level the hero is on
          at,       \* where each monster is
          dest,     \* where a migrating monster is going
          where,    \* where each object is: a kind of place and its owner
          olev, timed, lamplit, age, quan,  \* fields of struct obj
          timers,   \* lev_timers of each level, sooner to later
          lights,   \* lev_lights of each level: how many each object has
          trouble,  \* whether impossible() was called, or a null level used
          fuel      \* ghost: the fuel of each light by the clock alone

objVars == <<where, olev, timed, lamplit, age, quan, timers, lights, trouble>>
vars == <<moves, level, at, dest, objVars, fuel>>

Invent == <<"INVENT", NoLevel>>
Gone   == <<"GONE", NoLevel>>
Unborn == <<"UNBORN", NoLevel>>
Free   == <<"FREE", NoLevel>>        \* only between two lines of a step
Moving == <<"MIGRATING", NoLevel>>   \* only while goto_level runs
Floor(l)     == <<"FLOOR", l>>
Minvent(m)   == <<"MINVENT", m>>
Contained(c) == <<"CONTAINED", c>>

Exists(o) == where[o] \notin {Gone, Unborn}

(***************************************************************************)
(* The helpers below take the state of the objects as a record and return  *)
(* it changed, one for each function of the source.                        *)
(***************************************************************************)
Now == [moves |-> moves, level |-> level, at |-> at, where |-> where,
        olev |-> olev, timed |-> timed, lamplit |-> lamplit, age |-> age,
        quan |-> quan, timers |-> timers, lights |-> lights,
        trouble |-> trouble]

Becomes(s) ==
    /\ where' = s.where /\ olev' = s.olev
    /\ timed' = s.timed /\ lamplit' = s.lamplit
    /\ age' = s.age /\ quan' = s.quan
    /\ timers' = s.timers /\ lights' = s.lights
    /\ trouble' = s.trouble

Impossible(s) == [s EXCEPT !.trouble = "impossible"]
Crash(s) == [s EXCEPT !.trouble = "crash"]

Outermost(s, o) ==
    IF s.where[o][1] = "CONTAINED" THEN s.where[s.where[o][2]] ELSE s.where[o]

obj_is_local(s, o) ==
    LET place == Outermost(s, o)
    IN  \/ place[1] = "FLOOR"
        \/ place[1] = "MINVENT" /\ s.at[place[2]] # Limbo

insert_timer(q, t) ==
    LET later == SelectInSeq(q, LAMBDA u : u.timeout >= t.timeout)
    IN  IF later = 0 THEN Append(q, t) ELSE InsertAt(q, later, t)

start_timer(s, l, when, func, o) ==
    IF l = NoLevel THEN Crash(s)
    ELSE [s EXCEPT !.timers[l] =
                       insert_timer(@, [timeout |-> s.moves + when,
                                        func |-> func, arg |-> o]),
                   !.timed[o] = @ + 1]

del_light_source(s, l, o) ==
    CASE l = NoLevel         -> Crash(s)
      [] l # NoLevel /\ s.lights[l][o] = 0 -> Impossible(s)
      [] l # NoLevel /\ s.lights[l][o] > 0 -> [s EXCEPT !.lights[l][o] = @ - 1]

\* Mutant of cleanup_burn: what has not burnt is not given back.
cleanup_burn_NoRefund(s, o, expire_time) ==
    [del_light_source(s, s.olev[o], o) EXCEPT !.lamplit[o] = FALSE]

cleanup_burn(s, o, expire_time) ==
    IF ~s.lamplit[o] THEN Impossible(s)
    ELSE [del_light_source(s, s.olev[o], o)
             EXCEPT !.age[o] = @ + (expire_time - s.moves),
                    !.lamplit[o] = FALSE]

cleanup(s, t) == IF t.func = "BURN" THEN cleanup_burn(s, t.arg, t.timeout) ELSE s

stop_timer(s, l, func, o) ==
    LET i == SelectInSeq(s.timers[l], LAMBDA t : t.func = func /\ t.arg = o)
    IN  IF i = 0 THEN Impossible(s)     \* end_burn: not timed!
        ELSE cleanup([s EXCEPT !.timers[l] = RemoveAt(@, i),
                               !.timed[o] = @ - 1],
                     s.timers[l][i])

obj_stop_timers(s, o) ==
    LET l == s.olev[o]
        mine(t) == t.arg = o
        other(t) == t.arg # o
    IN  IF l = NoLevel THEN Crash(s)
        ELSE FoldLeft(cleanup,
                      [s EXCEPT !.timers[l] = SelectSeq(@, other),
                                !.timed[o] = 0],
                      SelectSeq(s.timers[l], mine))

\* obfree and dealloc_obj
obfree(s, o) ==
    LET stopped == IF s.timed[o] > 0 THEN obj_stop_timers(s, o) ELSE s
        dark == IF stopped.lamplit[o]
                THEN del_light_source(stopped, stopped.olev[o], o) ELSE stopped
    IN  [dark EXCEPT !.where[o] = Gone]

(***************************************************************************)
(* Moving timers and lights to another level's lists: those that Chosen    *)
(* names, one object's or all that do not stay behind.                     *)
(***************************************************************************)
transfer_timers(s, from, to, Chosen(_)) ==
    IF from = to THEN s
    ELSE IF from = NoLevel THEN Crash(s)
    ELSE LET goes(t) == Chosen(t.arg)
             stays(t) == ~Chosen(t.arg)
         IN  [s EXCEPT !.timers[from] = SelectSeq(@, stays),
                       !.timers[to] = FoldLeft(insert_timer, @,
                                          SelectSeq(s.timers[from], goes))]

transfer_lights(s, from, to, Chosen(_)) ==
    IF from = to THEN s
    ELSE IF from = NoLevel THEN Crash(s)
    ELSE [s EXCEPT
            !.lights[from] = [o \in Objs |-> IF Chosen(o) THEN 0 ELSE @[o]],
            !.lights[to] = [o \in Objs |->
                IF Chosen(o) THEN @[o] + s.lights[from][o] ELSE @[o]]]

\* Mutant of set_one_level: the light stays where it was.
set_one_level_NoLight(s, l, o) ==
    LET self(p) == p = o
        t == IF s.timed[o] > 0
             THEN transfer_timers(s, s.olev[o], l, self) ELSE s
    IN  [t EXCEPT !.olev[o] = l]

set_one_level(s, l, o) ==
    LET self(p) == p = o
        t == IF s.timed[o] > 0
             THEN transfer_timers(s, s.olev[o], l, self) ELSE s
        u == IF s.lamplit[o] THEN transfer_lights(t, s.olev[o], l, self) ELSE t
    IN  [u EXCEPT !.olev[o] = l]

Contents(s, o) == {c \in Objs : s.where[c] = Contained(o)}

set_obj_level(s, l, o) ==
    FoldLeft(LAMBDA t, p : set_one_level(t, l, p), s,
             <<o>> \o SetToSeq(Contents(s, o)))

set_levels(s, l, S) ==
    FoldLeft(LAMBDA t, p : set_obj_level(t, l, p), s, SetToSeq(S))

(***************************************************************************)
(* Burning.  age is the fuel that will be left when the timer goes off.    *)
(***************************************************************************)
Turns(a) ==     \* until the next age at which the light is looked at
    LET below == {m \in MagicTimes : m < a}
    IN  a - (CHOOSE m \in below : \A n \in below : n <= m)

HasLocation(s, o) ==
    LET place == Outermost(s, o)
    IN  \/ place[1] \in {"INVENT", "FLOOR"}
        \/ place[1] = "MINVENT" /\ s.at[place[2]] # Limbo

begin_burn(s, o, already_lit) ==
    LET turns == Turns(s.age[o])
        timing == start_timer(s, s.olev[o], turns, "BURN", o)
        lit == [timing EXCEPT !.lamplit[o] = TRUE, !.age[o] = @ - turns]
    IN  IF s.age[o] = 0 THEN s
        ELSE IF already_lit THEN lit
        ELSE IF HasLocation(lit, o) THEN [lit EXCEPT !.lights[s.level][o] = @ + 1]
        ELSE Impossible(lit)

\* Mutant of end_burn: a light that burns out leaves its light source.
end_burn_LeavesLight(s, o, timer_attached) ==
    IF timer_attached THEN stop_timer(s, s.olev[o], "BURN", o)
    ELSE [s EXCEPT !.lamplit[o] = FALSE]

end_burn(s, o, timer_attached) ==
    IF ~s.lamplit[o] THEN Impossible(s)
    ELSE IF timer_attached THEN stop_timer(s, s.olev[o], "BURN", o)
    ELSE [del_light_source(s, s.olev[o], o) EXCEPT !.lamplit[o] = FALSE]

burn_object(s, o, timeout) ==
    LET how_long == s.moves - timeout
        left == IF how_long >= s.age[o] THEN 0 ELSE s.age[o] - how_long
        aged == [s EXCEPT !.age[o] = left]
    IN  IF left > 0 THEN begin_burn(aged, o, TRUE)
        ELSE LET out == end_burn(aged, o, FALSE)
             IN  IF o \in Candles THEN obfree(out, o) ELSE out

revive_fails(s, o) ==
    start_timer(s, s.olev[o], RotTime - s.moves, "ROT", o)

(***************************************************************************)
(* Stacks.                                                                 *)
(***************************************************************************)
obj_split_timers(s, src, dest_) ==
    LET mine(t) == t.arg = src
    IN  IF s.olev[src] = NoLevel THEN Crash(s)
        ELSE FoldLeft(LAMBDA u, t : start_timer(u, u.olev[dest_],
                                        t.timeout - u.moves, t.func, dest_),
                      s, SelectSeq(s.timers[s.olev[src]], mine))

\* It looks for the light in the lists of the level the hero is on.
obj_split_light_source(s, src, dest_) ==
    IF s.lights[s.level][src] = 0 THEN s
    ELSE [s EXCEPT !.lights[s.level][dest_] = @ + s.lights[s.level][src],
                   !.lamplit[dest_] = TRUE]

\* Mutant of splitobj: what is split off stays in the stack as well.
splitobj_Doubles(s, o, num, n) ==
    LET copied == [s EXCEPT !.where[n] = s.where[o], !.olev[n] = s.olev[o],
                            !.age[n] = s.age[o], !.timed[n] = 0,
                            !.lamplit[n] = FALSE, !.quan[n] = num]
        clocked == IF s.timed[o] > 0 THEN obj_split_timers(copied, o, n)
                   ELSE copied
    IN  IF s.lamplit[o] THEN obj_split_light_source(clocked, o, n) ELSE clocked

splitobj(s, o, num, n) ==
    LET copied == [s EXCEPT !.where[n] = s.where[o], !.olev[n] = s.olev[o],
                            !.age[n] = s.age[o], !.timed[n] = 0,
                            !.lamplit[n] = FALSE, !.quan[n] = num,
                            !.quan[o] = @ - num]
        clocked == IF s.timed[o] > 0 THEN obj_split_timers(copied, o, n)
                   ELSE copied
    IN  IF s.lamplit[o] THEN obj_split_light_source(clocked, o, n) ELSE clocked

mergable(s, otmp, obj) ==
    /\ {otmp, obj} \subseteq Candles /\ otmp # obj
    /\ s.lamplit[otmp] = s.lamplit[obj]
    /\ s.age[otmp] \div CloseAge = s.age[obj] \div CloseAge

\* obj is taken off its chain and ends in otmp.
merged(s, otmp, obj) ==
    LET both == s.quan[otmp] + s.quan[obj]
        mixed == (s.age[otmp] * s.quan[otmp] + s.age[obj] * s.quan[obj]) \div both
        joined == [s EXCEPT !.quan[otmp] = both,
                            !.age[otmp] = IF s.lamplit[obj] THEN @ ELSE mixed]
        \* obj_merge_light_sources extinguishes the candles that join
        dark == IF s.lamplit[obj] THEN end_burn(joined, obj, TRUE) ELSE joined
    IN  obfree(dark, obj)

(***************************************************************************)
(* Placing an object, which merges where it can: with one of its Mates, or *)
(* itself when it merges with none.  On the floor only what lies at the    *)
(* same spot merges, and then the newcomer is the one that stays           *)
(* (stackobj); elsewhere it joins what is there.                           *)
(***************************************************************************)
Mates(s, o, place) ==
    LET mates == {n \in Objs : s.where[n] = place /\ mergable(s, n, o)}
    IN  IF place[1] = "FLOOR" \/ mates = {} THEN {o} \union mates ELSE mates

Settle(s, o, place, n) ==
    CASE n = o -> [s EXCEPT !.where[o] = place]
      [] n # o /\ place[1] = "FLOOR" -> merged([s EXCEPT !.where[o] = place], o, n)
      [] n # o /\ place[1] # "FLOOR" -> merged(s, n, o)

place_object(s, l, o, n) == Settle(set_obj_level(s, l, o), o, Floor(l), n)

\* scatter breaks a stack up: one candle at a time in this model.
scatter(s, o) ==
    IF s.quan[o] = 1 \/ ~\E n \in Spares : s.where[n] = Unborn THEN s
    ELSE LET n == CHOOSE n \in Spares : s.where[n] = Unborn
         IN  splitobj(s, o, 1, n)

deliver_object(s, l, o, n) == scatter(place_object(s, l, o, n), o)
-----------------------------------------------------------------------------
(***************************************************************************)
(* The ghost: fuel by the clock.  A merged or split stack is compared with *)
(* what its fields say after the merge or the split.                       *)
(***************************************************************************)
FuelOf(s, o) ==
    LET mine == {t \in UNION {{s.timers[l][i] : i \in 1..Len(s.timers[l])} :
                              l \in Levels} : t.arg = o /\ t.func = "BURN"}
        left == IF mine = {} THEN s.age[o]
                ELSE s.age[o] + (CHOOSE t \in mine : TRUE).timeout - s.moves
    IN  IF left < 0 THEN 0 ELSE left

KeepsFuel(s) ==
    fuel' = [o \in Lights |-> IF s.quan[o] # quan[o] THEN FuelOf(s, o) ELSE fuel[o]]

Do(s) == Becomes(s) /\ KeepsFuel(s)

Due == timers[level] # <<>> /\ Head(timers[level]).timeout <= moves

\* Nothing is interrupted by run_timers, and nothing happens after a crash.
Quiet == ~Due /\ trouble = "none"

Here(o) == where[o] = Floor(level)
With(m, o) == where[o] = Minvent(m)
Rest == UNCHANGED <<moves, level, at, dest>>
-----------------------------------------------------------------------------
StartFuncs(o) ==    \* start_corpse_timeout
    CASE o \in Trolls  -> {"REVIVE"}
      [] o \in Corpses -> {"ROT"}
      [] OTHER         -> {}

Rotting(S) == (Corpses \union Trolls) \intersect S

BeginsWith(S) ==
    /\ where = [o \in Objs |-> IF o \notin S THEN Gone
                               ELSE IF o \in Spares THEN Unborn
                               ELSE IF o \in Sacks THEN Invent ELSE Floor(Start)]
    /\ timed = [o \in Objs |-> IF o \in Rotting(S) THEN 1 ELSE 0]
    /\ LET first(o) == [timeout |-> IF o \in Trolls THEN 1 ELSE RotTime,
                        func |-> CHOOSE f \in StartFuncs(o) : TRUE, arg |-> o]
       IN  timers = [l \in Levels |->
               IF l = Start
               THEN FoldLeft(LAMBDA q, o : insert_timer(q, first(o)), <<>>,
                             SetToSeq(Rotting(S)))
               ELSE <<>>]

Init ==
    /\ moves = 0 /\ level = Start
    /\ at \in [Monsters -> {Start}] /\ dest = [m \in Monsters |-> NoLevel]
    /\ \E S \in Scenes : BeginsWith(S)
    /\ olev = [o \in Objs |-> Start]
    /\ lamplit = [o \in Objs |-> FALSE]
    /\ age = [o \in Objs |-> IF o \in Lights THEN Fuel ELSE 0]
    /\ quan = [o \in Objs |-> IF o \in Spares THEN 0
                              ELSE IF o \in Candles THEN Quantity ELSE 1]
    /\ lights = [l \in Levels |-> [o \in Objs |-> 0]]
    /\ trouble = "none"
    /\ fuel = [o \in Lights |-> Fuel]

(***************************************************************************)
(* What the hero does.                                                     *)
(***************************************************************************)
LightUp(o) ==
    /\ Quiet /\ where[o] = Invent /\ ~lamplit[o] /\ age[o] > 0
    /\ Do(begin_burn(Now, o, FALSE)) /\ Rest

\* use_lamp stacks what has been put out; a darkness scroll does not.
Snuff(o) ==
    /\ Quiet /\ lamplit[o] /\ Rest
    /\ \/ /\ where[o] = Invent
          /\ LET s == [end_burn(Now, o, TRUE) EXCEPT !.where[o] = Free]
             IN  \E n \in Mates(s, o, Invent) : Do(Settle(s, o, Invent, n))
       \/ /\ Here(o)
          /\ Do(end_burn(Now, o, TRUE))

PickUp(o) ==
    /\ Quiet /\ Here(o) /\ Rest
    /\ \E n \in Mates(Now, o, Invent) : Do(Settle(Now, o, Invent, n))

Drop(o) ==
    /\ Quiet /\ where[o] = Invent /\ Rest
    /\ \E n \in Mates(Now, o, Floor(level)) : Do(place_object(Now, level, o, n))

DropOne(o, n) ==
    /\ Quiet /\ where[o] = Invent /\ quan[o] > 1 /\ where[n] = Unborn /\ Rest
    /\ LET s == splitobj(Now, o, 1, n)
       IN  \E p \in Mates(s, n, Floor(level)) : Do(place_object(s, level, n, p))

\* A container is open to the hero in the pack or on the floor.
InReach(c) == where[c] = Invent \/ Here(c)

PutIn(o, c) ==
    /\ Quiet /\ where[o] = Invent /\ o # c /\ InReach(c) /\ Rest
    /\ LET dark == IF lamplit[o] THEN end_burn(Now, o, TRUE) ELSE Now
       IN  \E n \in Mates(dark, o, Contained(c)) :
               Do(Settle(dark, o, Contained(c), n))

TakeOut(o, c) ==
    /\ Quiet /\ where[o] = Contained(c) /\ InReach(c) /\ Rest
    /\ \E n \in Mates(Now, o, Invent) : Do(Settle(Now, o, Invent, n))

\* An object lying on the stairs or a hole is knocked to level l.
Fall(o, l) ==
    /\ Quiet /\ Here(o) /\ l # level /\ Rest
    /\ ~(Careful /\ lamplit[o] /\ quan[o] > 1)
    /\ \E n \in Mates(Now, o, Floor(l)) : Do(deliver_object(Now, l, o, n))

(***************************************************************************)
(* What monsters do on the hero's level.                                   *)
(***************************************************************************)
Takes(m, o) ==
    /\ Quiet /\ at[m] = level /\ (where[o] = Invent \/ Here(o)) /\ Rest
    /\ \E n \in Mates(Now, o, Minvent(m)) : Do(Settle(Now, o, Minvent(m), n))

MonsterDrops(m, o) ==
    /\ Quiet /\ at[m] = level /\ With(m, o) /\ Rest
    /\ \E n \in Mates(Now, o, Floor(level)) : Do(place_object(Now, level, o, n))

\* migrate_to_level leaves the objects it takes along as they are.
Migrates(m, l) ==
    /\ Quiet /\ at[m] = level /\ l # level
    /\ at' = [at EXCEPT ![m] = Limbo] /\ dest' = [dest EXCEPT ![m] = l]
    /\ UNCHANGED <<moves, level, objVars, fuel>>

\* Monster m waits between levels with something timed or lit.
CarriesTimers(m) ==
    /\ at[m] = Limbo
    /\ \E o \in Objs : /\ Outermost(Now, o) = Minvent(m)
                       /\ timed[o] > 0 \/ lamplit[o]

(***************************************************************************)
(* goto_level: F falls along, pets follow, and whoever waits for this      *)
(* level arrives.  The timers that are due on it are run next.             *)
(***************************************************************************)
Leaves(l, pets, F) ==
    LET fallen == [Now EXCEPT !.where = [o \in Objs |->
                                  IF o \in F THEN Moving ELSE @[o]]]
        left == [fallen EXCEPT !.level = l,
                               !.at = [m \in Monsters |->
                                   IF m \in pets THEN Limbo ELSE @[m]]]
        away(o) == ~obj_is_local(left, o)
    IN  transfer_lights(transfer_timers(left, level, l, away), level, l, away)

Arrives(s, l, pets) ==
    LET coming == pets \union {m \in Monsters : at[m] = Limbo /\ dest[m] = l}
        packed == set_levels(s, l, {o \in Objs : s.where[o] = Invent})
        landed == [packed EXCEPT !.at = [m \in Monsters |->
                                     IF m \in coming THEN l ELSE @[m]]]
    IN  set_levels(landed, l, {o \in Objs : \E m \in coming :
                                            landed.where[o] = Minvent(m)})

Enters(s, l) ==
    /\ Do(s)
    /\ level' = l /\ at' = s.at
    /\ dest' = [m \in Monsters |-> IF dest[m] = l THEN NoLevel ELSE dest[m]]
    /\ UNCHANGED moves

GotoLevel(l, pets, F) ==
    /\ Quiet /\ l # level
    /\ ~(Careful /\ \E m \in Monsters : CarriesTimers(m) /\ dest[m] # l)
    /\ LET s == Leaves(l, pets, F)
       IN  \/ F = {} /\ Enters(Arrives(s, l, pets), l)
           \/ \E o \in F : \E n \in Mates(s, o, Floor(l)) :
                 Enters(Arrives(deliver_object(s, l, o, n), l, pets), l)

(***************************************************************************)
(* Time.  moves is incremented and run_timers called at each turn boundary *)
(* and goto_level calls it too: one step here for each timer that is due.  *)
(***************************************************************************)
Tick ==
    /\ Quiet /\ moves < MaxMoves
    /\ moves' = moves + 1
    /\ fuel' = [o \in Lights |-> IF lamplit[o] /\ fuel[o] > 0 THEN fuel[o] - 1
                                 ELSE fuel[o]]
    /\ UNCHANGED <<level, at, dest, objVars>>

run_timers ==
    /\ Due /\ trouble = "none"
    /\ LET t == Head(timers[level])
           s == [Now EXCEPT !.timers[level] = Tail(@), !.timed[t.arg] = @ - 1]
       IN  \/ t.func = "BURN" /\ Do(burn_object(s, t.arg, t.timeout))
           \/ t.func = "ROT" /\ Do(obfree(s, t.arg))
           \/ t.func = "REVIVE" /\ HasLocation(s, t.arg) /\ Do(obfree(s, t.arg))
           \/ t.func = "REVIVE" /\ Do(revive_fails(s, t.arg))
    /\ Rest

(***************************************************************************)
(* The game is saved and loaded.  Each level keeps what stays on it; what  *)
(* follows the hero is saved from the lists of the level the hero is on,   *)
(* and added to them again.  Objects get the level they are loaded with,   *)
(* and those of migrating monsters get none.                               *)
(***************************************************************************)
LocalTimers(l) ==
    LET stays(t) == obj_is_local(Now, t.arg) IN SelectSeq(timers[l], stays)

GlobalTimers(l) ==
    LET goes(t) == ~obj_is_local(Now, t.arg) IN SelectSeq(timers[l], goes)

\* Mutant of restore_timers: those that follow the hero change their order.
restore_timers_Reversed(l) ==
    IF l # level THEN LocalTimers(l)
    ELSE FoldLeft(insert_timer, LocalTimers(l), GlobalTimers(l))

restore_timers(l) ==
    IF l # level THEN LocalTimers(l)
    ELSE FoldLeft(insert_timer, LocalTimers(l), Reverse(GlobalTimers(l)))

restored_olev(o) ==
    LET place == Outermost(Now, o)
    IN  CASE place[1] = "INVENT" -> level
          [] place[1] = "FLOOR" -> place[2]
          [] place[1] = "MINVENT" /\ at[place[2]] # Limbo -> at[place[2]]
          [] place[1] = "MINVENT" /\ at[place[2]] = Limbo -> NoLevel
          [] OTHER -> olev[o]

SaveAndLoad ==
    /\ Quiet
    /\ ~(Careful /\ \E m \in Monsters : CarriesTimers(m))
    /\ Rest
    /\ Do([Now EXCEPT
            !.olev = [o \in Objs |-> restored_olev(o)],
            !.timers = [l \in Levels |-> restore_timers(l)],
            !.lights = [l \in Levels |-> [o \in Objs |->
                IF l = level \/ obj_is_local(Now, o) THEN @[l][o] ELSE 0]]])

Next ==
    \/ \E o \in Lights : LightUp(o) \/ Snuff(o)
    \/ \E o \in Objs : PickUp(o) \/ Drop(o)
    \/ \E o \in Candles, n \in Spares : DropOne(o, n)
    \/ \E o \in Objs \ Sacks, c \in Sacks : PutIn(o, c) \/ TakeOut(o, c)
    \/ \E o \in Objs, l \in Levels : Fall(o, l)
    \/ \E m \in Monsters, o \in Objs : Takes(m, o) \/ MonsterDrops(m, o)
    \/ \E m \in Monsters, l \in Levels : Migrates(m, l)
    \/ \E l \in Levels, pets \in SUBSET {m \in Monsters : at[m] = level} :
          \E F \in {{}} \union {{o} : o \in {p \in Objs : Here(p)}} :
              GotoLevel(l, pets, F)
    \/ Tick
    \/ run_timers
    \/ SaveAndLoad

Spec == Init /\ [][Next]_vars
-----------------------------------------------------------------------------
TimersOf(o) ==  \* <<level, position>> of each timer of o
    {<<l, i>> \in Levels \X (1..4) : i <= Len(timers[l]) /\ timers[l][i].arg = o}

LightsOf(o) == {l \in Levels : lights[l][o] > 0}

\* The level whose lists hold what belongs to o.
ListsOf(o) ==
    LET place == Outermost(Now, o)
    IN  CASE place[1] = "FLOOR" -> place[2]
          [] place[1] = "MINVENT" /\ at[place[2]] # Limbo -> at[place[2]]
          [] OTHER -> level

\* Every variable has a value of its type, queues are ordered and no field
\* goes below zero (struct obj, timer_element).
TypeOK ==
    /\ moves \in 0..MaxMoves /\ level \in Levels
    /\ \A m \in Monsters : at[m] \in Levels \union {Limbo}
    /\ \A o \in Objs :
          /\ olev[o] \in Levels \union {NoLevel}
          /\ Exists(o) => age[o] \in 0..Fuel
          /\ timed[o] \in 0..2 /\ lamplit[o] \in BOOLEAN
          /\ quan[o] \in 0..Quantity
    /\ \A l \in Levels : \A i \in 1..(Len(timers[l]) - 1) :
          timers[l][i].timeout <= timers[l][i + 1].timeout

\* A light burns exactly when it has one light source and one burn timer, and
\* nothing that is gone has a light source (begin_burn, end_burn, splitobj).
LitHasLight ==
    \A o \in Lights :
        LET burning == Exists(o) /\ lamplit[o]
            sources == {l \in LightsOf(o) : lights[l][o] = 1}
        IN  /\ LightsOf(o) = sources
            /\ Cardinality(sources) = IF burning THEN 1 ELSE 0
            /\ Cardinality(TimersOf(o)) = IF burning THEN 1 ELSE 0

\* Timers and lights are in the lists of the level their object is on, or of
\* the hero's level when it stays on none, so that save_timers and run_timers
\* find each of them; the object counts its timers, and nothing that is gone has
\* one (transfer_timers, set_obj_level, start_timer, stop_timer).
InTheRightLists ==
    \A o \in Objs :
        /\ Cardinality(TimersOf(o)) = IF Exists(o) THEN timed[o] ELSE 0
        /\ Exists(o) => /\ \A p \in TimersOf(o) : p[1] = ListsOf(o)
                        /\ LightsOf(o) \subseteq {ListsOf(o)}

\* A light has burnt for as long as it was lit, whatever levels it was taken
\* to, however often it was put out, saved, or left to burn elsewhere
\* (begin_burn, burn_object, cleanup_burn).
FuelIsRight ==
    \A o \in Lights : Exists(o) /\ Quiet => FuelOf(Now, o) = fuel[o]

\* t is before u in the queue.
Before(q, t, u) == \E i, j \in 1..Len(q) : i < j /\ q[i] = t /\ q[j] = u

\* A timer that follows the hero is loaded after those that stay on the level, and
\* so gets before one of theirs that is due at the same time.
Overtaken(t, u) ==
    /\ t.timeout = u.timeout
    /\ obj_is_local(Now, t.arg) /\ ~obj_is_local(Now, u.arg)

\* Loading a saved game gives every light back, and every timer, each before all
\* that it was before, whether they stay on the level or follow the hero; except
\* that of two that are due at the same time the one that follows the hero comes
\* first (save_timers, restore_timers).
LoadingKeepsTimers ==
    [][SaveAndLoad =>
         /\ lights' = lights
         /\ \A l \in Levels :
              /\ Len(timers'[l]) = Len(timers[l])
              /\ ToSet(timers'[l]) = ToSet(timers[l])
              /\ \A i, j \in 1..Len(timers[l]) : i < j =>
                   LET t == timers[l][i]
                       u == timers[l][j]
                   IN  IF Overtaken(t, u) THEN Before(timers'[l], u, t)
                       ELSE Before(timers'[l], t, u)]_vars

\* light.c:113 and timeout.c:1058 report as impossible that an object's light
\* is not in its level's list, or that it is not lit when it burns out.
NothingImpossible == trouble # "impossible"
=============================================================================
