----------------------------- MODULE LocalClock -----------------------------
(***************************************************************************)
(* time_str.c: increments and intervals of time, and the date of the       *)
(* evening, while the clock goes on.                                       *)
(*                                                                         *)
(* The fields of a time_str are those of UTC, but time_increment passes    *)
(* them through mktime and localtime, which take them for local time.  The *)
(* C library is modelled with a zone whose clocks are put forward once     *)
(* and back once.  A time_str is the count of seconds that its fields      *)
(* make, and its microsecond.  Scales: a day of DayLength seconds, a       *)
(* second of Million microseconds, a millisecond of Thousand.              *)
(***************************************************************************)
EXTENDS Integers, FiniteSets

CONSTANTS
    DayLength, Million, Thousand,
    Zone,               \* - timezone: local standard time less UTC
    DstStart, DstEnd,   \* time_t at which the clocks change
    DstShift,           \* by how much
    Deltas,             \* the increments, <<seconds, microseconds>>
    MaxTime             \* bound: the last second

VARIABLES
    now,    \* time_current()
    timer   \* a timer of server.c, which expires at timer.time

vars == <<now, timer>>

Time(second, microsecond) == [second |-> second, microsecond |-> microsecond]
Microseconds(time) == time.second * Million + time.microsecond

-----------------------------------------------------------------------------
(* The C library. *)

LocalTime(t) == t + Zone + (IF t \in DstStart .. DstEnd - 1 THEN DstShift ELSE 0)

\* A local time that occurs twice has two readings; one that does not occur
\* is read with either offset.
MkTime(local) ==
    LET exact == {t \in {local - Zone, local - Zone - DstShift} : LocalTime(t) = local}
    IN  IF exact # {} THEN exact ELSE {local - Zone, local - Zone - DstShift}

-----------------------------------------------------------------------------
\* time_increment: what the time may become, with a number of whole seconds
\* and some microseconds.  The carry leaves microsecond = 1000000 alone.
Carry(usec) == IF usec > Million THEN 1 ELSE 0
MutatedTimeIncrement(time, seconds, microseconds) == \* the carry gets lost
    {Time(LocalTime(t + seconds), (time.microsecond + microseconds) % Million) :
        t \in MkTime(time.second)}

TimeIncrement(time, seconds, microseconds) ==
    LET usec == time.microsecond + microseconds
    IN  {Time(LocalTime(t + seconds + Carry(usec)), usec - Carry(usec) * Million) :
            t \in MkTime(time.second)}

\* time_interval, in milliseconds.
Milliseconds(time) ==
    time.second * (Million \div Thousand) + time.microsecond \div Thousand
TimeInterval(t1, t2) == Milliseconds(t2) - Milliseconds(t1)

\* time_str_get_evening_date: the days it may give, by their number.
HalfDay == - (DayLength \div 2)
EveningDate(time) ==
    {e.second \div DayLength :
        e \in UNION {TimeIncrement(l, HalfDay, 0) : l \in TimeIncrement(time, Zone, 0)}}

-----------------------------------------------------------------------------
\* Time goes on.  server_add_timer sets a timer, and server_check_timers
\* deletes it when it has expired.
NoTimer == [set |-> FALSE]
Expired(time) == TimeInterval(time, timer.time) < 0

Init == now = Time(0, 0) /\ timer = NoTimer

Tick ==
    /\ now' = IF now.microsecond + 1 < Million THEN Time(now.second, now.microsecond + 1)
              ELSE Time(now.second + 1, 0)
    /\ now'.second <= MaxTime
    /\ UNCHANGED timer

AddTimer ==
    /\ ~timer.set
    /\ \E delta \in Deltas : \E due \in TimeIncrement(now, delta[1], delta[2]) :
        timer' = [set |-> TRUE, added |-> now, delta |-> delta, time |-> due]
    /\ UNCHANGED now

CheckTimers == timer.set /\ Expired(now) /\ timer' = NoTimer /\ UNCHANGED now

\* The last moment that is looked at.
LastMoment == now = Time(MaxTime, Million - 1) /\ UNCHANGED vars

Next == Tick \/ AddTimer \/ CheckTimers \/ LastMoment
Spec == Init /\ [][Next]_vars

-----------------------------------------------------------------------------
\* Without summer time an increment is what it says, over the ends of seconds
\* and days, forwards and backwards (time_str.c:302).  A timer does not expire
\* before its time has gone by, and is not late by more than the millisecond
\* to which times are compared (server.c:688).  The date of the evening is the
\* local date since the last noon: time_str.c:114, "This date is the same from
\* 12am till 12am next day in LOCAL time".
Elapsed == Microseconds(now) - Microseconds(timer.added)
Delta == timer.delta[1] * Million + timer.delta[2]
TimesAreExact ==
    /\ \A delta \in Deltas : \A time \in TimeIncrement(now, delta[1], delta[2]) :
           Microseconds(time) = Microseconds(now) + delta[1] * Million + delta[2]
    /\ timer.set =>
        /\ Expired(now) => Elapsed > Delta
        /\ Elapsed >= Delta + Thousand => Expired(now)
    /\ EveningDate(now) = {(LocalTime(now.second) - DayLength \div 2) \div DayLength}
=============================================================================
