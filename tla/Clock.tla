------------------------------- MODULE Clock -------------------------------
(***************************************************************************)
(* The clock (src/src/uip/clock_arch.c) and a timer on it                  *)
(* (src/src/uip/timer.c).  The interrupt counts in a word of several       *)
(* bytes; the main program reads them one after the other, low byte first, *)
(* with interrupts enabled, and compares the word with the timer in        *)
(* unsigned arithmetic.                                                    *)
(***************************************************************************)
EXTENDS Integers, FiniteSets

CONSTANTS
    ClockBase,  \* values of a byte: 256
    Bytes,      \* sizeof(clock_time_t): 4
    Intervals   \* what timer_set is called with

ClockMod == ClockBase ^ Bytes

ASSUME ClockAssumption ==
    /\ ClockBase \in Nat \ {0, 1} /\ Bytes \in Nat \ {0}
    /\ ClockMod \in Nat /\ ClockMod > 4
    /\ Intervals \subseteq 0 .. ClockMod \div 2

VARIABLES
    time,
    start, interval,    \* the timer
    calling,            \* the call in progress, "none" between two
    read,               \* bytes of time it has read
    seen,               \* their value
    during,             \* observer: the values of time since the read began
    since,              \* observer: ticks since the moment the timer counts from
    clean,              \* observer: the timer's start was read in one piece
    answer              \* observer: what was wrong with the last test

clockVars == <<time, start, interval, calling, read, seen, during, since, clean, answer>>

Right == [early |-> FALSE, late |-> FALSE, clean |-> TRUE]

ClockInit ==
    /\ time = 0 /\ start = 0 /\ interval \in Intervals
    /\ calling = "none" /\ read = 0 /\ seen = 0 /\ during = {}
    /\ since = 0 /\ clean = TRUE /\ answer = Right

\* The interrupt.  Bounds: a timer is looked at before half a turn of the clock
\* (34 years) is over, and a call takes less than two ticks (a second).
ClockTick ==
    /\ since < ClockMod \div 2 + 2 /\ Cardinality(during) < 2
    /\ time' = (time + 1) % ClockMod
    /\ since' = since + 1
    /\ during' = IF calling = "none" THEN {} ELSE during \cup {time'}
    /\ UNCHANGED <<start, interval, calling, read, seen, clean, answer>>

Begin(c) ==
    /\ calling' = c
    /\ read' = 0 /\ seen' = 0 /\ during' = {time}

\* timer_set, timer_restart, timer_expired, timer_tryrestart, timer_tryreset
TimerCall ==
    /\ calling = "none"
    /\ \E c \in {"set", "restart", "expired", "tryrestart", "tryreset"} : Begin(c)
    /\ interval' \in IF calling' = "set" THEN Intervals ELSE {interval}
    /\ UNCHANGED <<time, start, since, clean, answer>>

ReadByte ==
    /\ calling /= "none" /\ read < Bytes
    /\ seen' = seen + ((time \div ClockBase ^ read) % ClockBase) * ClockBase ^ read
    /\ read' = read + 1
    /\ UNCHANGED <<time, start, interval, calling, during, since, clean, answer>>

\* Seeded bug: the comparison does not survive the wrap of the clock.
ExpiredAt(t) == t >= start + interval

\* timer_expired
TimerExpired(t) == (t - start) % ClockMod >= interval

WholeRead == seen \in during

\* Ticks since the moment whose time was read.
Ago == IF WholeRead THEN (time - seen) % ClockMod ELSE Cardinality(during) - 1

Started ==
    /\ start' = seen /\ clean' = WholeRead
    /\ since' = IF WholeRead THEN Ago ELSE 0
    /\ calling' = "none" /\ during' = {}
    /\ UNCHANGED <<read, seen, answer>>

\* What follows a test: timer_restart reads the clock again, timer_reset counts
\* on from where the interval ended.
Tested ==
    /\ answer' = [early |-> TimerExpired(seen) /\ since - Ago < interval,
                  late |-> ~TimerExpired(seen) /\ since - Ago >= interval,
                  clean |-> clean /\ WholeRead]
    /\ IF TimerExpired(seen) /\ calling = "tryrestart"
       THEN Begin("restart") /\ UNCHANGED <<start, since, clean>>
       ELSE /\ calling' = "none" /\ during' = {}
            /\ IF TimerExpired(seen) /\ calling = "tryreset"
               THEN /\ start' = (start + interval) % ClockMod
                    /\ clean' = (clean /\ WholeRead)
                    /\ since' = IF clean' THEN since - interval ELSE 0
               ELSE UNCHANGED <<start, since, clean>>
            /\ UNCHANGED <<read, seen>>

CallReturns ==
    /\ calling /= "none" /\ read = Bytes
    /\ IF calling \in {"set", "restart"} THEN Started ELSE Tested
    /\ UNCHANGED <<time, interval>>

ClockNext == ClockTick \/ TimerCall \/ ReadByte \/ CallReturns

ClockSpec == ClockInit /\ [][ClockNext]_clockVars

-----------------------------------------------------------------------------
(* Properties *)

\* A test tells right whether the interval is over, across the wrap of the
\* clock and with ticks during the call, unless the interrupt came between two
\* bytes of a read and its carry was seen in one of them only: then the time
\* read, or the start that was set, is ahead by up to ClockBase ^ (Bytes - 1) ticks.
TestsRight == answer.clean => ~answer.early /\ ~answer.late

=============================================================================
