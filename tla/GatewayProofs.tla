---------------------------- MODULE GatewayProofs ----------------------------
(***************************************************************************)
(* Proofs about the parts that compute with what they are given: the clock *)
(* and its timers, the arguments of a command, the web gateway, the        *)
(* calendar, and the parser.  They hold for every zone and increment, for  *)
(* all commands and names, for pictures of any length, any number of       *)
(* frames, pages and requests, for all years of the Gregorian calendar     *)
(* with four digits, and for lines of any length.                          *)
(* The theorems are at the end.                                            *)
(***************************************************************************)
EXTENDS PartsProofs

-----------------------------------------------------------------------------
(* Functions that are defined by what they are one step before. *)

\* A set of numbers that holds 0 and with each the next one.
LEMMA Induction ==
    ASSUME NEW n \in Nat, NEW T, 0 \in T,
           \A i \in 1 .. n : i - 1 \in T => i \in T
    PROVE  0 .. n \subseteq T
<1> SUFFICES ASSUME ~ (0 .. n \subseteq T) PROVE FALSE
    OBVIOUS
<1> DEFINE U == (0 .. n) \ T
<1>1. U \subseteq Nat /\ U # {}
    OBVIOUS
<1>2. PICK x \in U : \A y \in U : x <= y
    BY <1>1, Smallest
<1>3. x \in 1 .. n
    BY <1>1
<1>4. x - 1 \in T
  <2>1. x - 1 \in 0 .. n /\ ~ (x <= x - 1)
      BY <1>3
  <2>2. QED
      BY <1>2, <2>1
<1>5. QED
    BY <1>3, <1>4

\* A function is defined by its first value and by its steps.
LEMMA Recursion ==
    ASSUME NEW n \in Nat, NEW S, NEW b \in S, NEW g \in [(1 .. n) \X S -> S]
    PROVE  \E f \in [0 .. n -> S] :
             f = [i \in 0 .. n |-> IF i = 0 THEN b ELSE g[<<i, f[i - 1]>>]]
<1> DEFINE Good(k, f) == /\ f \in [0 .. k -> S] /\ f[0] = b
                         /\ \A i \in 1 .. k : f[i] = g[<<i, f[i - 1]>>]
           T == {k \in 0 .. n : \E f : Good(k, f)}
<1>1. 0 \in T
  <2> DEFINE f == [i \in 0 .. 0 |-> b]
  <2>1. f \in [0 .. 0 -> S] /\ f[0] = b
      OBVIOUS
  <2>2. 1 .. 0 = {}
      OBVIOUS
  <2> HIDE DEF f
  <2>3. Good(0, f)
      BY <2>1, <2>2
  <2>4. QED
      BY <2>3
<1>2. ASSUME NEW k \in 1 .. n, k - 1 \in T PROVE k \in T
  <2>1. PICK f : Good(k - 1, f)
      BY <1>2
  <2> DEFINE h == [i \in 0 .. k |-> IF i = k THEN g[<<k, f[k - 1]>>] ELSE f[i]]
  <2>2. k - 1 \in 0 .. k - 1 /\ f[k - 1] \in S
      BY <2>1
  <2>3. g[<<k, f[k - 1]>>] \in S
      BY <2>2
  <2>4. h \in [0 .. k -> S] /\ h[0] = b
      BY <2>1, <2>3
  <2>5. ASSUME NEW i \in 1 .. k PROVE h[i] = g[<<i, h[i - 1]>>]
    <3>1. i - 1 \in 0 .. k /\ i - 1 # k /\ h[i - 1] = f[i - 1]
        OBVIOUS
    <3>2. CASE i = k
        BY <3>1, <3>2
    <3>3. CASE i # k
      <4>1. i \in 1 .. k - 1 /\ i \in 0 .. k
          BY <3>3
      <4>2. h[i] = f[i] /\ f[i] = g[<<i, f[i - 1]>>]
          BY <2>1, <3>3, <4>1
      <4>3. QED
          BY <3>1, <4>2
    <3>4. QED
        BY <3>2, <3>3
  <2> HIDE DEF h
  <2>6. Good(k, h)
      BY <2>4, <2>5
  <2>7. QED
      BY <2>6
<1>3. n \in T
  <2> HIDE DEF T
  <2>1. 0 .. n \subseteq T
      BY <1>1, <1>2, Induction
  <2>2. QED
      BY <2>1
<1>4. PICK f : Good(n, f)
    BY <1>3
<1>5. f = [i \in 0 .. n |-> IF i = 0 THEN b ELSE g[<<i, f[i - 1]>>]]
  <2>1. f = [i \in 0 .. n |-> f[i]]
      BY <1>4
  <2>2. \A i \in 0 .. n : f[i] = IF i = 0 THEN b ELSE g[<<i, f[i - 1]>>]
      BY <1>4
  <2>3. QED
      BY <2>1, <2>2
<1>6. QED
    BY <1>4, <1>5

-----------------------------------------------------------------------------
(* Increments of time and the timers made of them.                         *)

Moments == [second : Int, microsecond : 0..Million]

\* A timer is due at its increment after it was added.
Due(due, added, delta) ==
    Clock!Microseconds(due) = Clock!Microseconds(added) + delta[1] * Million + delta[2]

ClockInv ==
    /\ clock \in [second : Int, microsecond : 0..Million - 1]
    /\ \/ timer = Clock!NoTimer
       \/ /\ timer = [set |-> TRUE, added |-> timer.added, delta |-> timer.delta,
                      time |-> timer.time]
          /\ timer.added \in Moments /\ timer.time \in Moments
          /\ timer.delta \in Deltas /\ Due(timer.time, timer.added, timer.delta)

LEMMA DivBounds ==
    ASSUME NEW u \in Int, NEW t \in Nat \ {0}
    PROVE  u \div t \in Int /\ t * (u \div t) <= u /\ u < t * (u \div t) + t
    OBVIOUS

LEMMA ClockScales ==
    /\ DayLength \in Nat \ {0} /\ Million \in Nat \ {0} /\ Thousand \in Nat \ {0}
    /\ Zone \in Int /\ Deltas \subseteq Int \X (0..Million - 1)
    /\ Million \div Thousand \in Int /\ Million = Thousand * (Million \div Thousand)
<1>1. /\ DayLength \in Nat \ {0} /\ Million \in Nat \ {0} /\ Thousand \in Nat \ {0}
      /\ Zone \in Int /\ Deltas \subseteq Int \X (0..Million - 1)
      /\ Million % Thousand = 0
    BY PartsAssumption
<1>2. Million \div Thousand \in Int /\ Million = Thousand * (Million \div Thousand)
    BY <1>1
<1>3. QED
    BY <1>1, <1>2

\* Without summer time, local time and UTC are apart by the zone.
LEMMA NoSummerTime ==
    ASSUME NEW s \in Int
    PROVE  Clock!LocalTime(s) = s + Zone /\ Clock!MkTime(s) = {s - Zone}
<1>1. \A t \in Int : Clock!LocalTime(t) = t + Zone
    BY ClockScales DEF Clock!LocalTime
<1>2. s - Zone \in Int /\ s - Zone - 1 \in Int /\ (s - Zone) + Zone = s
      /\ (s - Zone - 1) + Zone # s
    BY ClockScales
<1>3. {t \in {s - Zone, s - Zone - 1} : Clock!LocalTime(t) = s} = {s - Zone}
    BY <1>1, <1>2
<1>4. QED
    BY <1>1, <1>3 DEF Clock!MkTime

\* What time_increment computes.
LEMMA OneIncrement ==
    ASSUME NEW m \in Moments, NEW seconds \in Int, NEW u \in 0..Million - 1,
           m.microsecond # Million \/ u = 0
    PROVE  \E r \in Moments :
             /\ Clock!TimeIncrement(m, seconds, u) = {r}
             /\ Clock!Microseconds(r) = Clock!Microseconds(m) + seconds * Million + u
             /\ u = 0 => r.second = m.second + seconds /\ r.microsecond = m.microsecond
<1> DEFINE usec == m.microsecond + u
           c == Clock!Carry(usec)
           r == Clock!Time(m.second - Zone + seconds + c + Zone, usec - c * Million)
<1>1. Million \in Nat \ {0} /\ Zone \in Int /\ m.second \in Int /\ m.microsecond \in 0..Million
    BY ClockScales DEF Moments
<1>2. usec \in 0..2 * Million - 1 /\ c \in {0, 1} /\ (c = 1 <=> usec > Million)
    BY <1>1 DEF Clock!Carry
<1>3. usec - c * Million \in 0..Million
    BY <1>1, <1>2
<1>4. Clock!LocalTime(m.second - Zone + seconds + c) = m.second - Zone + seconds + c + Zone
  <2>1. m.second - Zone + seconds + c \in Int
      BY <1>1, <1>2
  <2>2. QED
      BY <2>1, NoSummerTime
<1>5. Clock!TimeIncrement(m, seconds, u) = {r}
    BY <1>1, <1>4, NoSummerTime DEF Clock!TimeIncrement
<1> HIDE DEF c
<1>6. /\ r.second = m.second + seconds + c /\ r.microsecond = usec - c * Million
      /\ r \in Moments
    BY <1>1, <1>2, <1>3 DEF Clock!Time, Moments
<1>7. Clock!Microseconds(r) = Clock!Microseconds(m) + seconds * Million + u
  <2>1. (m.second + seconds + c) * Million + (usec - c * Million)
          = m.second * Million + m.microsecond + seconds * Million + u
      BY <1>1, <1>2
  <2>2. QED
      BY <1>6, <2>1 DEF Clock!Microseconds
<1>8. u = 0 => c = 0
    BY <1>1, <1>2
<1>9. ASSUME u = 0 PROVE r.second = m.second + seconds /\ r.microsecond = m.microsecond
  <2> HIDE DEF r
  <2>1. c = 0 /\ usec = m.microsecond
      BY <1>1, <1>8, <1>9
  <2>2. QED
      BY <1>1, <1>6, <2>1
<1>10. QED
  <2> HIDE DEF r
  <2>1. QED
      BY <1>5, <1>6, <1>7, <1>9

\* Milliseconds are the microseconds, cut.
LEMMA MillisecondsAreCut ==
    ASSUME NEW m \in Moments
    PROVE  /\ Clock!Microseconds(m) \in Int /\ Clock!Milliseconds(m) \in Int
           /\ Thousand * Clock!Milliseconds(m) <= Clock!Microseconds(m)
           /\ Clock!Microseconds(m) < Thousand * Clock!Milliseconds(m) + Thousand
<1>1. PICK k, q, s, u : /\ k = Million \div Thousand /\ q = m.microsecond \div Thousand
                        /\ s = m.second /\ u = m.microsecond
    OBVIOUS
<1>2. /\ Million \in Nat \ {0} /\ Thousand \in Nat \ {0} /\ k \in Int /\ s \in Int /\ u \in Int
      /\ Million = Thousand * k
    BY <1>1, ClockScales DEF Moments
<1>3. q \in Int /\ Thousand * q <= u /\ u < Thousand * q + Thousand
    BY <1>1, <1>2, DivBounds
<1>4. Clock!Microseconds(m) = s * Million + u /\ Clock!Milliseconds(m) = s * k + q
    BY <1>1 DEF Clock!Microseconds, Clock!Milliseconds
<1>5. s * Million + Thousand * q = Thousand * (s * k + q)
    BY <1>2, <1>3
<1>6. s * Million + u \in Int /\ s * k + q \in Int /\ Thousand * q \in Int /\ s * Million \in Int
    BY <1>2, <1>3
<1>7. QED
  <2>1. PICK a, b, d : a = s * Million /\ b = Thousand * q /\ d = Thousand * (s * k + q)
      OBVIOUS
  <2>2. a \in Int /\ b \in Int /\ d = a + b /\ b <= u /\ u < b + Thousand
      BY <1>3, <1>5, <1>6, <2>1
  <2>3. d <= a + u /\ a + u < d + Thousand
      BY <1>2, <2>2
  <2>4. QED
      BY <1>4, <1>6, <2>1, <2>3

LEMMA ClockInit == Clock!Init => ClockInv
BY ClockScales DEF Clock!Init, Clock!Time, ClockInv

LEMMA ClockMoment == ASSUME ClockInv PROVE clock \in Moments /\ clock.microsecond # Million
BY ClockScales DEF ClockInv, Moments

LEMMA ClockStep == ClockInv /\ [Clock!Next]_Clock!vars => ClockInv'
<1> SUFFICES ASSUME ClockInv, [Clock!Next]_Clock!vars PROVE ClockInv'
    OBVIOUS
<1>1. CASE Clock!Tick
  <2>1. clock' \in [second : Int, microsecond : 0..Million - 1]
      BY <1>1, ClockScales DEF Clock!Tick, Clock!Time, ClockInv
  <2>2. QED
      BY <1>1, <2>1 DEF Clock!Tick, ClockInv
<1>2. CASE Clock!AddTimer
  <2>1. PICK delta \in Deltas : \E due \in Clock!TimeIncrement(clock, delta[1], delta[2]) :
             timer' = [set |-> TRUE, added |-> clock, delta |-> delta, time |-> due]
      BY <1>2 DEF Clock!AddTimer
  <2>2. PICK due \in Clock!TimeIncrement(clock, delta[1], delta[2]) :
             timer' = [set |-> TRUE, added |-> clock, delta |-> delta, time |-> due]
      BY <2>1
  <2>3. delta[1] \in Int /\ delta[2] \in 0..Million - 1
      BY ClockScales
  <2>4. due \in Moments /\ Due(due, clock, delta)
      BY <2>2, <2>3, ClockMoment, OneIncrement DEF Due
  <2>5. clock' = clock
      BY <1>2 DEF Clock!AddTimer
  <2>6. QED
      BY <2>2, <2>4, <2>5, ClockMoment DEF ClockInv
<1>3. CASE Clock!CheckTimers
    BY <1>3 DEF Clock!CheckTimers, ClockInv
<1>4. CASE UNCHANGED Clock!vars
    BY <1>4 DEF Clock!vars, ClockInv
<1>5. QED
    BY <1>1, <1>2, <1>3, <1>4 DEF Clock!Next, Clock!LastMoment

LEMMA ClockInvImplies == ClockInv => Clock!TimesAreExact
<1> SUFFICES ASSUME ClockInv PROVE Clock!TimesAreExact
    OBVIOUS
<1>1. clock \in Moments /\ clock.microsecond # Million /\ Thousand \in Nat \ {0}
    BY ClockMoment, ClockScales
<1>2. ASSUME NEW delta \in Deltas, NEW t \in Clock!TimeIncrement(clock, delta[1], delta[2])
      PROVE  Clock!Microseconds(t) = Clock!Microseconds(clock) + delta[1] * Million + delta[2]
  <2>1. delta[1] \in Int /\ delta[2] \in 0..Million - 1
      BY ClockScales
  <2>2. QED
      BY <1>1, <1>2, <2>1, OneIncrement
<1>3. ASSUME timer.set
      PROVE  /\ Clock!Expired(clock) => Clock!Elapsed > Clock!Delta
             /\ Clock!Elapsed >= Clock!Delta + Thousand => Clock!Expired(clock)
  <2>1. /\ timer.time \in Moments /\ timer.added \in Moments /\ timer.delta \in Deltas
        /\ Due(timer.time, timer.added, timer.delta)
      BY <1>3 DEF ClockInv, Clock!NoTimer
  <2>2. PICK t, d, a, e : /\ t = Clock!Microseconds(clock) /\ d = Clock!Microseconds(timer.time)
                          /\ a = Clock!Microseconds(timer.added) /\ e = Clock!Delta
      OBVIOUS
  <2>3. PICK x, y : x = Clock!Milliseconds(clock) /\ y = Clock!Milliseconds(timer.time)
      OBVIOUS
  <2>4. /\ t \in Int /\ d \in Int /\ a \in Int /\ x \in Int /\ y \in Int
        /\ Thousand * x <= t /\ t < Thousand * x + Thousand
        /\ Thousand * y <= d /\ d < Thousand * y + Thousand
      BY <1>1, <2>1, <2>2, <2>3, MillisecondsAreCut
  <2>5. e \in Int /\ d = a + e
    <3>1. timer.delta[1] \in Int /\ timer.delta[2] \in Int /\ Million \in Int
        BY <2>1, ClockScales
    <3>2. e = timer.delta[1] * Million + timer.delta[2]
        BY <2>2 DEF Clock!Delta
    <3>3. d = a + timer.delta[1] * Million + timer.delta[2]
        BY <2>1, <2>2 DEF Due
    <3>4. QED
        BY <2>4, <3>1, <3>2, <3>3
  <2>6. Clock!Elapsed = t - a
      BY <2>2 DEF Clock!Elapsed
  <2>7. Clock!Expired(clock) <=> y - x < 0
      BY <2>3 DEF Clock!Expired, Clock!TimeInterval
  <2>8. ASSUME y - x < 0 PROVE t - a > e
    <3>1. y + 1 <= x
        BY <2>4, <2>8
    <3>2. Thousand * y + Thousand <= Thousand * x
        BY <1>1, <2>4, <3>1
    <3>3. QED
        BY <1>1, <2>4, <2>5, <3>2
  <2>9. ASSUME t - a >= e + Thousand PROVE y - x < 0
    <3>1. t >= d + Thousand
        BY <1>1, <2>4, <2>5, <2>9
    <3>2. Thousand * y < Thousand * x
        BY <1>1, <2>4, <3>1
    <3>3. y < x
        BY <1>1, <2>4, <3>2
    <3>4. QED
        BY <2>4, <3>3
  <2>10. QED
      BY <2>2, <2>6, <2>7, <2>8, <2>9
<1>4. Clock!EveningDate(clock)
        = {(Clock!LocalTime(clock.second) - DayLength \div 2) \div DayLength}
  <2>1. PICK half : half = Clock!HalfDay
      OBVIOUS
  <2>2. /\ half \in Int /\ half = - (DayLength \div 2) /\ DayLength \div 2 \in Int
        /\ Zone \in Int /\ 0 \in 0..Million - 1
        /\ clock.second \in Int
      BY <1>1, <2>1, ClockScales DEF Clock!HalfDay, Moments
  <2>3. PICK l \in Moments : /\ Clock!TimeIncrement(clock, Zone, 0) = {l}
                             /\ l.second = clock.second + Zone
      BY <1>1, <2>2, OneIncrement
  <2>4. PICK e \in Moments : /\ Clock!TimeIncrement(l, half, 0) = {e}
                             /\ e.second = l.second + half
      BY <2>2, OneIncrement
  <2>5. Clock!EveningDate(clock) = {e.second \div DayLength}
      BY <2>1, <2>3, <2>4 DEF Clock!EveningDate
  <2>6. e.second = Clock!LocalTime(clock.second) - DayLength \div 2
      BY <2>2, <2>3, <2>4, NoSummerTime
  <2>7. QED
      BY <2>5, <2>6
<1>5. QED
    BY <1>2, <1>3, <1>4 DEF Clock!TimesAreExact

-----------------------------------------------------------------------------
(* The parameters of a command and its arguments.                          *)

Arity == 1..Len(patterns)
ArgsType == [Arity -> [token : Nat, pass : {0, 1}]]

ArgsInv == patterns \in PatternLists /\ tokens \in Seq(ParameterNames \cup {None})

Unused(a) == {d \in Arguments!Parameters : \A j \in Arity : a[j].token # d}
Apart(a) == \A j, k \in Arity : j # k /\ a[j].token # 0 => a[j].token # a[k].token
FirstOfName(i) == \A j \in 1..i - 1 : patterns[j] # patterns[i]

\* The first pass has come to argument i: only names were looked at.
FirstPass(a, i) ==
    /\ a \in ArgsType /\ Apart(a)
    /\ \A j \in Arity : a[j].pass = 0 /\ (a[j].token # 0 => a[j].token \in Arguments!Named(j))
    /\ \A j \in Arity : j > i => a[j].token = 0
    /\ \A j \in 1..i : FirstOfName(j) /\ Arguments!Named(j) # {} =>
            /\ a[j].token \in Arguments!Named(j)
            /\ \A d \in Arguments!Named(j) : a[j].token <= d

\* The second one has, from b on: what it took lies before all that is left,
\* and while anything is left no argument was passed by.
Second(a, j) == a[j].token # 0 /\ a[j].pass = 1
SecondPass(b, a, i) ==
    /\ a \in ArgsType /\ Apart(a)
    /\ \A j \in Arity : b[j].token # 0 \/ j > i => a[j] = b[j]
    /\ \A j \in Arity : Second(a, j) => \A d \in Unused(a) : a[j].token < d
    /\ \A j, k \in Arity : j < k /\ Second(a, j) /\ Second(a, k) => a[j].token < a[k].token
    /\ Unused(a) # {} => \A j \in 1..i : a[j].token # 0

LEMMA ArgsTypes ==
    ASSUME ArgsInv
    PROVE  /\ Len(patterns) \in Nat /\ Len(tokens) \in Nat
           /\ Arguments!Parameters \subseteq Nat \ {0}
<1>1. Len(patterns) \in Nat /\ Len(tokens) \in Nat
    BY PartsAssumption, LenProperties DEF ArgsInv
<1>2. Arguments!First \in Nat
    BY DEF Arguments!First
<1>3. QED
    BY <1>1, <1>2 DEF Arguments!Parameters

\* What one turn of the loop does.
LEMMA OneArgument ==
    ASSUME ArgsInv, NEW a \in ArgsType, NEW i \in Arity, NEW pass \in {0, 1}
    PROVE  \E c : /\ c = {d \in Unused(a) : pass = 1 \/ d \in Arguments!Named(i)}
                  /\ \/ (a[i].token # 0 \/ c = {}) /\ Arguments!Assign(pass, a, i) = a
                     \/ /\ a[i].token = 0
                        /\ \E m \in c : /\ \A d \in c : m <= d
                                        /\ Arguments!Assign(pass, a, i)
                                            = [a EXCEPT ![i] = [token |-> m, pass |-> pass]]
<1>1. PICK c : c = {d \in Arguments!Parameters : Arguments!Matches(pass, a, i, d)}
    OBVIOUS
<1>2. c = {d \in Unused(a) : pass = 1 \/ d \in Arguments!Named(i)}
    BY <1>1 DEF Arguments!Matches, Arguments!Named, Unused, ArgsType
<1>3. CASE a[i].token # 0 \/ c = {}
    BY <1>1, <1>2, <1>3 DEF Arguments!Assign
<1>4. CASE a[i].token = 0 /\ c # {}
  <2>1. c \subseteq Nat
      BY <1>1, ArgsTypes
  <2>2. PICK m \in c : \A d \in c : m <= d
      BY <1>4, <2>1, Smallest
  <2>3. \A x \in c : (\A d \in c : x <= d) => x = m
      BY <2>1, <2>2
  <2>4. Arguments!Min(c) = m
      BY <2>2, <2>3 DEF Arguments!Min
  <2>5. Arguments!Assign(pass, a, i) = [a EXCEPT ![i] = [token |-> m, pass |-> pass]]
      BY <1>1, <1>4, <2>4 DEF Arguments!Assign
  <2>6. QED
      BY <1>2, <1>4, <2>2, <2>5
<1>5. QED
    BY <1>3, <1>4

Given(a, i, r) == [a EXCEPT ![i] = r]
LEMMA OneArgumentSet ==
    ASSUME ArgsInv, NEW a \in ArgsType, NEW i \in Arity, a[i].token = 0, Apart(a),
           NEW r \in [token : Nat, pass : {0, 1}], r.token \in Unused(a)
    PROVE  LET z == Given(a, i, r)
           IN  /\ z \in ArgsType /\ z[i] = r /\ \A j \in Arity : j # i => z[j] = a[j]
               /\ Apart(z) /\ Unused(z) = Unused(a) \ {r.token}
<1> DEFINE z == Given(a, i, r)
<1>1. r.token \in Nat \ {0} /\ \A j \in Arity : a[j].token # r.token
    BY ArgsTypes DEF Unused
<1>2. z \in ArgsType /\ z[i] = r /\ \A j \in Arity : j # i => z[j] = a[j]
    BY DEF ArgsType, Given
<1> HIDE DEF z
<1>3. Apart(z)
    BY <1>1, <1>2 DEF Apart
<1>4. Unused(z) = Unused(a) \ {r.token}
  <2>1. ASSUME NEW d \in Unused(z) PROVE d \in Unused(a) /\ d # r.token
    <3>1. d \in Nat \ {0} /\ d \in Arguments!Parameters /\ \A j \in Arity : z[j].token # d
        BY ArgsTypes DEF Unused
    <3>2. d # r.token
        BY <1>2, <3>1
    <3>3. \A j \in Arity : a[j].token # d
        BY <1>2, <3>1
    <3>4. QED
        BY <3>2, <3>1, <3>3 DEF Unused
  <2>2. ASSUME NEW d \in Unused(a), d # r.token PROVE d \in Unused(z)
      BY <1>2, <2>2 DEF Unused
  <2>3. QED
      BY <2>1, <2>2
<1>5. QED
    BY <1>2, <1>3, <1>4 DEF z

LEMMA FirstPassTurn ==
    ASSUME ArgsInv, NEW i \in Arity, NEW a, FirstPass(a, i - 1)
    PROVE  FirstPass(Arguments!Assign(0, a, i), i)
<1>1. PICK z : z = Arguments!Assign(0, a, i)
    OBVIOUS
<1>2. /\ a \in ArgsType /\ Apart(a) /\ a[i].token = 0
      /\ \A j \in Arity : a[j].pass = 0 /\ (a[j].token # 0 => a[j].token \in Arguments!Named(j))
      /\ \A j \in Arity : j > i - 1 => a[j].token = 0
    BY DEF FirstPass, Arity
<1>3. PICK c : /\ c = {d \in Unused(a) : 0 = 1 \/ d \in Arguments!Named(i)}
               /\ \/ c = {} /\ z = a
                  \/ \E m \in c : /\ \A d \in c : m <= d
                                  /\ z = [a EXCEPT ![i] = [token |-> m, pass |-> 0]]
  <2>1. 0 \in {0, 1}
      OBVIOUS
  <2>2. PICK c : /\ c = {d \in Unused(a) : 0 = 1 \/ d \in Arguments!Named(i)}
                 /\ \/ (a[i].token # 0 \/ c = {}) /\ Arguments!Assign(0, a, i) = a
                    \/ /\ a[i].token = 0
                       /\ \E m \in c : /\ \A d \in c : m <= d
                                       /\ Arguments!Assign(0, a, i)
                                           = [a EXCEPT ![i] = [token |-> m, pass |-> 0]]
      BY <1>2, <2>1, OneArgument
  <2>3. QED
      BY <1>1, <1>2, <2>2
<1>4. FirstOfName(i) => c = Arguments!Named(i)
  <2> SUFFICES ASSUME FirstOfName(i), NEW d \in Arguments!Named(i), NEW j \in Arity,
                      a[j].token = d
               PROVE  FALSE
      BY <1>3 DEF Unused, Arguments!Named
  <2>1. d # 0 /\ tokens[d] = patterns[i]
      BY ArgsTypes DEF Arguments!Named
  <2>2. d \in Arguments!Named(j)
      BY <1>2, <2>1
  <2>3. patterns[j] = patterns[i]
      BY <2>1, <2>2 DEF Arguments!Named
  <2>4. j \in 1..i - 1
      BY <1>2, <2>1 DEF Arity
  <2>5. QED
      BY <2>3, <2>4 DEF FirstOfName
<1>5. \A j \in 1..i : j = i \/ j \in 1..i - 1
    BY DEF Arity
<1>6. \A j \in 1..i - 1 : j \in Arity /\ j # i
    BY ArgsTypes DEF Arity
<1>7. \A j \in Arity : j > i => j # i /\ j > i - 1
    BY ArgsTypes DEF Arity
<1>8. CASE c = {} /\ z = a
  <2>1. ASSUME NEW j \in 1..i, FirstOfName(j), Arguments!Named(j) # {} PROVE j \in 1..i - 1
      BY <1>4, <1>5, <1>8, <2>1
  <2>2. QED
      BY <1>1, <1>2, <1>7, <1>8, <2>1 DEF FirstPass
<1>9. ASSUME NEW m \in c, \A d \in c : m <= d,
             z = [a EXCEPT ![i] = [token |-> m, pass |-> 0]]
      PROVE  FirstPass(z, i)
  <2>1. /\ z \in ArgsType /\ z[i].token = m /\ z[i].pass = 0 /\ Apart(z)
        /\ \A j \in Arity : j # i => z[j] = a[j]
    <3>1. PICK r : r = [token |-> m, pass |-> 0]
        OBVIOUS
    <3>2. r.token = m /\ r.pass = 0 /\ m \in Unused(a) /\ m \in Nat
        BY <1>3, <3>1, ArgsTypes DEF Unused
    <3>3. r \in [token : Nat, pass : {0, 1}]
        BY <3>1, <3>2
    <3>4. z = Given(a, i, r)
        BY <1>9, <3>1 DEF Given
    <3>5. QED
        BY <1>2, <3>2, <3>3, <3>4, OneArgumentSet
  <2>2. \A j \in Arity : z[j].pass = 0 /\ (z[j].token # 0 => z[j].token \in Arguments!Named(j))
    <3>1. m \in Arguments!Named(i)
        BY <1>3
    <3>2. QED
        BY <1>2, <2>1, <3>1
  <2>3. \A j \in Arity : j > i => z[j].token = 0
      BY <1>2, <1>7, <2>1
  <2>4. ASSUME NEW j \in 1..i, FirstOfName(j), Arguments!Named(j) # {}
        PROVE  z[j].token \in Arguments!Named(j) /\ \A d \in Arguments!Named(j) : z[j].token <= d
    <3>1. CASE j = i
        BY <1>4, <1>9, <2>1, <2>4, <3>1
    <3>2. CASE j \in 1..i - 1
        BY <1>6, <2>1, <2>4, <3>2 DEF FirstPass
    <3>3. QED
        BY <1>5, <3>1, <3>2
  <2>5. QED
      BY <2>1, <2>2, <2>3, <2>4 DEF FirstPass
<1>10. QED
    BY <1>1, <1>3, <1>8, <1>9

LEMMA SecondPassTurn ==
    ASSUME ArgsInv, NEW i \in Arity, NEW b, \A j \in Arity : b[j].pass = 0,
           NEW a, SecondPass(b, a, i - 1)
    PROVE  SecondPass(b, Arguments!Assign(1, a, i), i)
<1>1. PICK z : z = Arguments!Assign(1, a, i)
    OBVIOUS
<1>2. /\ a \in ArgsType /\ Apart(a)
      /\ \A j \in Arity : b[j].token # 0 \/ j > i - 1 => a[j] = b[j]
      /\ \A j \in Arity : Second(a, j) => \A d \in Unused(a) : a[j].token < d
      /\ \A j, k \in Arity : j < k /\ Second(a, j) /\ Second(a, k) => a[j].token < a[k].token
      /\ Unused(a) # {} => \A j \in 1..i - 1 : a[j].token # 0
    BY DEF SecondPass
<1>3. /\ \A j \in 1..i : j = i \/ (j \in 1..i - 1 /\ j \in Arity /\ j # i)
      /\ \A j \in Arity : j > i => j # i /\ j > i - 1
      /\ \A j \in Arity : j < i \/ j = i \/ j > i
      /\ i > i - 1
    BY ArgsTypes DEF Arity
<1>4. \/ (a[i].token # 0 \/ Unused(a) = {}) /\ z = a
      \/ /\ a[i].token = 0
         /\ \E m \in Unused(a) : /\ \A d \in Unused(a) : m <= d
                                 /\ z = [a EXCEPT ![i] = [token |-> m, pass |-> 1]]
  <2>1. 1 \in {0, 1}
      OBVIOUS
  <2>2. PICK c : /\ c = {d \in Unused(a) : 1 = 1 \/ d \in Arguments!Named(i)}
                 /\ \/ (a[i].token # 0 \/ c = {}) /\ Arguments!Assign(1, a, i) = a
                    \/ /\ a[i].token = 0
                       /\ \E m \in c : /\ \A d \in c : m <= d
                                       /\ Arguments!Assign(1, a, i)
                                           = [a EXCEPT ![i] = [token |-> m, pass |-> 1]]
      BY <1>2, <2>1, OneArgument
  <2>3. c = Unused(a)
      BY <2>2
  <2>4. QED
      BY <1>1, <2>2, <2>3
<1>5. CASE (a[i].token # 0 \/ Unused(a) = {}) /\ z = a
  <2>1. Unused(a) # {} => \A j \in 1..i : a[j].token # 0
      BY <1>2, <1>3, <1>5
  <2>2. QED
      BY <1>1, <1>2, <1>3, <1>5, <2>1 DEF SecondPass
<1>6. ASSUME a[i].token = 0, NEW m \in Unused(a), \A d \in Unused(a) : m <= d,
             z = [a EXCEPT ![i] = [token |-> m, pass |-> 1]]
      PROVE  SecondPass(b, z, i)
  <2>1. /\ z \in ArgsType /\ z[i].token = m /\ z[i].pass = 1 /\ Apart(z) /\ m \in Nat \ {0}
        /\ \A j \in Arity : j # i => z[j] = a[j]
        /\ Unused(z) = Unused(a) \ {m}
    <3>1. PICK r : r = [token |-> m, pass |-> 1]
        OBVIOUS
    <3>2. r.token = m /\ r.pass = 1 /\ m \in Nat \ {0}
        BY <3>1, ArgsTypes DEF Unused
    <3>3. r \in [token : Nat, pass : {0, 1}]
        BY <3>1, <3>2
    <3>4. z = Given(a, i, r)
        BY <1>6, <3>1 DEF Given
    <3>5. r.token \in Unused(a)
        BY <3>2
    <3>6. /\ z \in ArgsType /\ z[i] = r /\ \A j \in Arity : j # i => z[j] = a[j]
          /\ Apart(z) /\ Unused(z) = Unused(a) \ {r.token}
      <4>1. a \in ArgsType /\ Apart(a) /\ a[i].token = 0
          BY <1>2, <1>6
      <4>2. QED
          BY <3>3, <3>4, <3>5, <4>1, OneArgumentSet
    <3>7. QED
        BY <3>2, <3>6
  <2>2. Unused(a) \subseteq Nat
      BY ArgsTypes DEF Unused
  <2>3. \A j \in Arity : b[j].token # 0 \/ j > i => z[j] = b[j]
      BY <1>2, <1>3, <1>6, <2>1
  <2>4. ASSUME NEW j \in Arity, Second(z, j), NEW d \in Unused(z) PROVE z[j].token < d
    <3>1. d \in Unused(a) /\ d # m /\ d \in Nat /\ m <= d
        BY <1>6, <2>1, <2>2
    <3>2. CASE j = i
        BY <2>1, <3>1, <3>2
    <3>3. CASE j # i
        BY <1>2, <2>1, <2>4, <3>1, <3>3 DEF Second
    <3>4. QED
        BY <3>2, <3>3
  <2>5. ASSUME NEW j \in Arity, NEW k \in Arity, j < k, Second(z, j), Second(z, k)
        PROVE  z[j].token < z[k].token
    <3>1. CASE j # i /\ k # i
        BY <1>2, <2>1, <2>5, <3>1 DEF Second
    <3>2. CASE k = i
      <4>1. j # i
          BY <2>5, <3>2 DEF Arity
      <4>2. QED
          BY <1>2, <2>1, <2>5, <3>2, <4>1 DEF Second
    <3>3. CASE j = i
      <4>1. k # i /\ k > i - 1
          BY <2>5, <3>3, ArgsTypes DEF Arity
      <4>2. z[k] = b[k] /\ b[k].pass = 0
          BY <1>2, <2>1, <4>1
      <4>3. QED
          BY <2>5, <4>2 DEF Second
    <3>4. QED
        BY <3>1, <3>2, <3>3
  <2>6. Unused(z) # {} => \A j \in 1..i : z[j].token # 0
      BY <1>2, <1>3, <2>1
  <2>7. QED
      BY <2>1, <2>3, <2>4, <2>5, <2>6 DEF SecondPass
<1>7. QED
    BY <1>1, <1>4, <1>5, <1>6

\* A pass is a loop over the arguments.
LEMMA PassIsLoop ==
    ASSUME ArgsInv, NEW pass \in {0, 1}, NEW args \in ArgsType
    PROVE  \E f : /\ f[0] = args /\ Arguments!Pass(pass, args) = f[Len(patterns)]
                  /\ \A i \in Arity : f[i] = Arguments!Assign(pass, f[i - 1], i)
<1>1. PICK n : n = Len(patterns)
    OBVIOUS
<1> DEFINE S == ArgsType
           g == [p \in (1..n) \X S |-> Arguments!Assign(pass, p[2], p[1])]
           Loop(f) == f = [i \in 0..n |-> IF i = 0 THEN args
                                          ELSE Arguments!Assign(pass, f[i - 1], i)]
<1>2. n \in Nat /\ Arity = 1..n
    BY <1>1, ArgsTypes DEF Arity
<1>3. ASSUME NEW i \in 1..n, NEW a \in S PROVE Arguments!Assign(pass, a, i) \in S
  <2>1. \A m \in Unused(a) : m \in Nat
      BY ArgsTypes DEF Unused
  <2>2. \A m \in Nat : [a EXCEPT ![i] = [token |-> m, pass |-> pass]] \in S
      BY <1>2 DEF ArgsType
  <2>3. QED
      BY <1>2, <2>1, <2>2, OneArgument
<1>4. g \in [(1..n) \X S -> S]
    BY <1>3
<1>5. \A i \in 1..n, a \in S : g[<<i, a>>] = Arguments!Assign(pass, a, i)
    OBVIOUS
<1> HIDE DEF S, g
<1>6. \E f : Loop(f)
  <2>1. \A k \in Nat : \A R : \A b \in R : \A h \in [(1..k) \X R -> R] :
          \E f \in [0..k -> R] :
            f = [i \in 0..k |-> IF i = 0 THEN b ELSE h[<<i, f[i - 1]>>]]
      BY Recursion, Zenon
  <2> DEFINE Loops(f, b, h) == f = [i \in 0..n |-> IF i = 0 THEN b ELSE h[<<i, f[i - 1]>>]]
  <2>2. \A R : \A b \in R : \A h \in [(1..n) \X R -> R] : \E f \in [0..n -> R] : Loops(f, b, h)
      BY <1>2, <2>1
  <2> HIDE DEF Loops
  <2>3. \A b \in S : \A h \in [(1..n) \X S -> S] : \E f \in [0..n -> S] : Loops(f, b, h)
      BY <2>2, Zenon
  <2>4. args \in S
      BY DEF S
  <2>5. PICK f \in [0..n -> S] : Loops(f, args, g)
      BY <1>4, <2>3, <2>4, Zenon
  <2>6. 0 \in 0..n /\ \A i \in 1..n : i \in 0..n /\ i # 0 /\ i - 1 \in 0..n
      BY <1>2
  <2>7. f[0] = args /\ \A i \in 1..n : f[i] = Arguments!Assign(pass, f[i - 1], i)
    <3>1. f[0] = args /\ \A i \in 1..n : f[i] = g[<<i, f[i - 1]>>]
        BY <2>5, <2>6 DEF Loops
    <3>2. \A i \in 1..n : f[i - 1] \in S
        BY <2>6
    <3>3. QED
        BY <1>5, <3>1, <3>2
  <2>8. f = [i \in 0..n |-> f[i]]
      OBVIOUS
  <2>9. \A i \in 0..n : f[i] = IF i = 0 THEN args ELSE Arguments!Assign(pass, f[i - 1], i)
    <3>1. \A i \in 0..n : i = 0 \/ i \in 1..n
        BY <1>2
    <3>2. QED
        BY <2>7, <3>1
  <2>10. QED
      BY <2>8, <2>9
<1>7. PICK f : f = CHOOSE h : Loop(h)
    OBVIOUS
<1>8. Loop(f)
    BY <1>6, <1>7, Zenon
<1>9. Arguments!Pass(pass, args) = f[n]
    BY <1>1, <1>7 DEF Arguments!Pass
<1>10. 0 \in 0..n /\ n \in 0..n /\ \A i \in 1..n : i \in 0..n /\ i # 0
    BY <1>2
<1>11. f[0] = args /\ \A i \in 1..n : f[i] = Arguments!Assign(pass, f[i - 1], i)
    BY <1>8, <1>10
<1>12. QED
    BY <1>1, <1>2, <1>9, <1>11

LEMMA BothPasses ==
    ASSUME ArgsInv
    PROVE  \E b : FirstPass(b, Len(patterns)) /\ SecondPass(b, Arguments!Args, Len(patterns))
<1> DEFINE none == [i \in 1..Len(patterns) |-> [token |-> 0, pass |-> 0]]
<1>1. PICK n : n = Len(patterns)
    OBVIOUS
<1>2. n \in Nat /\ Arity = 1..n
    BY <1>1, ArgsTypes DEF Arity
<1>3. none \in ArgsType /\ \A j \in Arity : none[j] = [token |-> 0, pass |-> 0]
    BY DEF ArgsType, Arity
<1>4. FirstPass(none, 0)
  <2> HIDE DEF none
  <2>1. 1..0 = {}
      OBVIOUS
  <2>2. \A j \in Arity : none[j].token = 0 /\ none[j].pass = 0
      BY <1>3
  <2>3. QED
      BY <1>3, <2>1, <2>2 DEF FirstPass, Apart
<1> HIDE DEF none
<1>5. PICK f : /\ f[0] = none /\ Arguments!Pass(0, none) = f[n]
               /\ \A i \in Arity : f[i] = Arguments!Assign(0, f[i - 1], i)
    BY <1>1, <1>3, PassIsLoop
<1>6. FirstPass(f[n], n)
  <2> DEFINE T == {i \in 0..n : FirstPass(f[i], i)}
  <2>1. 0 \in T
      BY <1>2, <1>4, <1>5
  <2>2. ASSUME NEW i \in 1..n, i - 1 \in T PROVE i \in T
    <3>1. FirstPass(f[i - 1], i - 1)
        BY <2>2
    <3>2. FirstPass(f[i], i)
        BY <1>2, <1>5, <3>1, FirstPassTurn
    <3>3. QED
        BY <1>2, <3>2
  <2> HIDE DEF T
  <2>3. 0..n \subseteq T
      BY <1>2, <2>1, <2>2, Induction
  <2>4. n \in T
      BY <1>2, <2>3
  <2>5. QED
      BY <2>4 DEF T
<1>7. PICK b : b = f[n]
    OBVIOUS
<1>8. /\ b \in ArgsType /\ Apart(b) /\ \A j \in Arity : b[j].pass = 0
    BY <1>6, <1>7 DEF FirstPass
<1>9. PICK h : /\ h[0] = b /\ Arguments!Pass(1, b) = h[n]
               /\ \A i \in Arity : h[i] = Arguments!Assign(1, h[i - 1], i)
    BY <1>1, <1>8, PassIsLoop
<1>10. SecondPass(b, h[0], 0)
  <2>1. 1..0 = {}
      OBVIOUS
  <2>2. \A j \in Arity : ~Second(b, j)
      BY <1>8 DEF Second
  <2>3. QED
      BY <1>8, <1>9, <2>1, <2>2 DEF SecondPass
<1>11. SecondPass(b, h[n], n)
  <2> DEFINE T == {i \in 0..n : SecondPass(b, h[i], i)}
  <2>1. 0 \in T
      BY <1>2, <1>10
  <2>2. ASSUME NEW i \in 1..n, i - 1 \in T PROVE i \in T
    <3>1. SecondPass(b, h[i - 1], i - 1)
        BY <2>2
    <3>2. SecondPass(b, h[i], i)
        BY <1>2, <1>8, <1>9, <3>1, SecondPassTurn
    <3>3. QED
        BY <1>2, <3>2
  <2> HIDE DEF T
  <2>3. 0..n \subseteq T
      BY <1>2, <2>1, <2>2, Induction
  <2>4. n \in T
      BY <1>2, <2>3
  <2>5. QED
      BY <2>4 DEF T
<1>12. Arguments!Args = h[n]
    BY <1>5, <1>7, <1>9 DEF Arguments!Args, none
<1>13. QED
    BY <1>1, <1>6, <1>7, <1>11, <1>12

LEMMA ArgsInvImplies == ArgsInv => Arguments!ParametersFindTheirArguments
<1> SUFFICES ASSUME ArgsInv PROVE Arguments!ParametersFindTheirArguments
    OBVIOUS
<1>1. PICK b : FirstPass(b, Len(patterns)) /\ SecondPass(b, Arguments!Args, Len(patterns))
    BY BothPasses
<1>2. PICK a : a = Arguments!Args
    OBVIOUS
<1>3. DOMAIN patterns = Arity /\ Len(patterns) \in Nat
    BY PartsAssumption, LenProperties DEF ArgsInv, Arity
<1>4. /\ a \in ArgsType /\ Apart(a)
      /\ \A j \in Arity : b[j].token # 0 => a[j] = b[j]
      /\ \A j, k \in Arity : j < k /\ Second(a, j) /\ Second(a, k) => a[j].token < a[k].token
      /\ Unused(a) # {} => \A j \in Arity : a[j].token # 0
    BY <1>1, <1>2 DEF SecondPass, Arity
<1>5. \A i, j \in Arity : i # j /\ a[i].token # 0 => a[i].token # a[j].token
    BY <1>4 DEF Apart
<1>6. ASSUME NEW i \in Arity, Arguments!Named(i) # {}, \A j \in 1..i - 1 : patterns[j] # patterns[i]
      PROVE  a[i] = [token |-> Arguments!Min(Arguments!Named(i)), pass |-> 0]
  <2>1. PICK m : m = b[i].token
      OBVIOUS
  <2>2. /\ m \in Arguments!Named(i) /\ (\A d \in Arguments!Named(i) : m <= d)
        /\ b \in ArgsType /\ b[i].pass = 0
      BY <1>1, <1>6, <2>1 DEF FirstPass, FirstOfName, Arity
  <2>3. Arguments!Named(i) \subseteq Nat \ {0}
      BY ArgsTypes DEF Arguments!Named
  <2>4. \A x \in Arguments!Named(i) : (\A d \in Arguments!Named(i) : x <= d) => x = m
      BY <2>2, <2>3
  <2>5. Arguments!Min(Arguments!Named(i)) = m
      BY <2>2, <2>4 DEF Arguments!Min
  <2>6. b[i] = [token |-> m, pass |-> 0]
      BY <2>1, <2>2 DEF ArgsType
  <2>7. a[i] = b[i]
      BY <1>4, <2>1, <2>2, <2>3
  <2>8. QED
      BY <2>5, <2>6, <2>7
<1>7. \A i, j \in Arguments!Taken(1) : i < j => a[i].token < a[j].token
    BY <1>2, <1>3, <1>4 DEF Arguments!Taken, Second
<1>8. ASSUME NEW d \in Arguments!Parameters, \A i \in Arity : a[i].token # d
      PROVE  \A i \in Arity : a[i].token # 0
    BY <1>4, <1>8 DEF Unused
<1>9. QED
    BY <1>2, <1>3, <1>5, <1>6, <1>7, <1>8 DEF Arguments!ParametersFindTheirArguments

LEMMA ArgsInit == Arguments!Init => ArgsInv
BY EmptySeq DEF Arguments!Init, ArgsInv

LEMMA ArgsStep == ArgsInv /\ [Arguments!Next]_Arguments!vars => ArgsInv'
<1> SUFFICES ASSUME ArgsInv, [Arguments!Next]_Arguments!vars PROVE ArgsInv'
    OBVIOUS
<1>1. ASSUME NEW name \in ParameterNames \cup {None}, Arguments!Token(name) PROVE ArgsInv'
    BY <1>1, AppendProperties DEF Arguments!Token, ArgsInv
<1>2. CASE UNCHANGED Arguments!vars
    BY <1>2 DEF Arguments!vars, ArgsInv
<1>3. QED
    BY <1>1, <1>2 DEF Arguments!Next

-----------------------------------------------------------------------------
(* The web gateway: what is on its way, what was read of it, what is shown. *)

UnitNames ==
    {"status", "current_flux", "current_frame", "current", "current_frame_done",
     "current_frame_timeout", "total_frame", "total", "total_frame_done", "total_frame_timeout"}
UnitType == [name : UnitNames, value : Nat]
Pictures == {"current", "total"}
Header(k) == IF k = "current" THEN "current_frame" ELSE "total_frame"
OfPicture(u) == u.name \in {"current", "total", "current_frame", "total_frame"}
OfFlux(u) == u.name = "current_flux"

\* The flux that comes next behind p is v, where that of the next frame,
\* which is not on its way yet, is the last.
NextFlux(w, n, p, v) ==
    \/ v = n + 1 /\ \A i \in p + 1..Len(w) : ~OfFlux(w[i])
    \/ \E j \in p + 1..Len(w) :
         OfFlux(w[j]) /\ w[j].value = v /\ \A i \in p + 1..j - 1 : ~OfFlux(w[i])

\* With n frames: the pictures are whole and in order, as the fluxes are.
PicturesOK(w, n) ==
    /\ \A i \in 1..Len(w) : OfPicture(w[i]) => w[i].value \in 1..n
    /\ \A i, j \in 1..Len(w) :
         i < j /\ OfPicture(w[i]) /\ OfPicture(w[j]) => w[i].value <= w[j].value
    /\ \A h \in 1..Len(w) : \A k \in Pictures : w[h].name = Header(k) =>
         /\ h + PictureLength <= Len(w)
         /\ \A j \in 1..PictureLength : w[h + j] = Web!Unit(k, w[h].value)
WireOK(w, n) ==
    /\ w \in Seq(UnitType) /\ PicturesOK(w, n)
    /\ \A i \in 1..Len(w) : OfFlux(w[i]) => NextFlux(w, n, i, w[i].value + 1)

\* A picture that was begun is in the buffer and in front of the wire.
Begun(p, w, v) ==
    /\ Len(p.buffer) < PictureLength /\ PictureLength - Len(p.buffer) <= Len(w)
    /\ \A i \in 1..Len(p.buffer) : p.buffer[i] = Web!Unit(p.type, v)
    /\ \A i \in 1..PictureLength - Len(p.buffer) : w[i] = Web!Unit(p.type, v)

ProtocolType ==
    [buffer : Seq(UnitType), is_binary : BOOLEAN, type : {None} \cup Pictures,
     wait_current : BOOLEAN, wait_total : BOOLEAN]
ProtocolOK(p, w) ==
    /\ p \in ProtocolType
    /\ p.is_binary => p.type \in Pictures /\ Begun(p, w, w[1].value)
    /\ ~p.is_binary => p.buffer = <<>>

\* The pictures shown are no newer than those on the wire, and the series
\* goes on with what is there.
ObjectType ==
    [image : {None} \cup Seq(UnitType), total_image : {None} \cup Seq(UnitType),
     series : Seq(Nat)]
ShownOK(picture, k, w, n) ==
    picture # None => \E v \in 1..n :
        /\ picture = Web!Picture(k, v)
        /\ \A i \in 1..Len(w) : OfPicture(w[i]) => v <= w[i].value
ObjectOK(o, w, n) ==
    /\ o \in ObjectType
    /\ ShownOK(o.image, "current", w, n) /\ ShownOK(o.total_image, "total", w, n)
    /\ \A i \in 1..Len(o.series) : o.series[i] = o.series[1] + i - 1
    /\ o.series # <<>> => NextFlux(w, n, 0, o.series[Len(o.series)] + 1)

WebInv ==
    /\ nframes \in Nat /\ (total => nframes > 0) /\ connected \in BOOLEAN
    /\ ~connected => network = <<>> /\ object = Web!NewObject
    /\ connected =>
        /\ WireOK(network, nframes) /\ ProtocolOK(protocol, network)
        /\ ObjectOK(object, network, nframes)

LEMMA TailUnits ==
    ASSUME NEW w \in Seq(UnitType), w # <<>>
    PROVE  /\ Tail(w) \in Seq(UnitType) /\ Len(w) \in Nat \ {0} /\ Len(Tail(w)) = Len(w) - 1
           /\ \A i \in 1..Len(Tail(w)) : i + 1 \in 1..Len(w) /\ Tail(w)[i] = w[i + 1]
           /\ w[1] \in UnitType /\ 1 \in 1..Len(w)
<1>1. /\ Tail(w) \in Seq(UnitType) /\ Len(w) \in Nat \ {0} /\ Len(Tail(w)) = Len(w) - 1
      /\ \A i \in 1..Len(Tail(w)) : Tail(w)[i] = w[i + 1]
    BY HeadTailProperties, LenProperties, EmptySeq
<1>2. w[1] \in UnitType
    BY <1>1, ElementOfSeq
<1>3. QED
    BY <1>1, <1>2

LEMMA FluxTail ==
    ASSUME NEW w \in Seq(UnitType), w # <<>>, NEW n \in Nat, NEW p \in Nat, NEW v \in Nat,
           NextFlux(w, n, p + 1, v)
    PROVE  NextFlux(Tail(w), n, p, v)
<1>1. /\ Len(w) \in Nat \ {0} /\ Len(Tail(w)) = Len(w) - 1
      /\ \A i \in 1..Len(Tail(w)) : i + 1 \in 1..Len(w) /\ Tail(w)[i] = w[i + 1]
    BY TailUnits
<1>2. PICK t : t = Tail(w)
    OBVIOUS
<1>3. CASE v = n + 1 /\ \A i \in p + 2..Len(w) : ~OfFlux(w[i])
  <2>1. ASSUME NEW i \in p + 1..Len(t) PROVE ~OfFlux(t[i])
    <3>1. i \in 1..Len(t) /\ i + 1 \in p + 2..Len(w)
        BY <1>1, <1>2
    <3>2. QED
        BY <1>1, <1>2, <1>3, <3>1
  <2>2. QED
      BY <1>2, <1>3, <2>1 DEF NextFlux
<1>4. ASSUME NEW j \in p + 2..Len(w), OfFlux(w[j]), w[j].value = v,
             \A i \in p + 2..j - 1 : ~OfFlux(w[i])
      PROVE  NextFlux(t, n, p, v)
  <2>1. j - 1 \in p + 1..Len(t) /\ j - 1 \in 1..Len(t) /\ t[j - 1] = w[j]
      BY <1>1, <1>2
  <2>2. ASSUME NEW i \in p + 1..(j - 1) - 1 PROVE ~OfFlux(t[i])
    <3>1. i \in 1..Len(t) /\ i + 1 \in p + 2..j - 1
        BY <1>1, <1>2
    <3>2. QED
        BY <1>1, <1>2, <1>4, <3>1
  <2>3. QED
      BY <1>4, <2>1, <2>2 DEF NextFlux
<1>5. (p + 1) + 1 = p + 2
    OBVIOUS
<1>6. QED
    BY <1>2, <1>3, <1>4, <1>5 DEF NextFlux

\* A unit that tells no flux changes nothing of them, and one that does is the
\* one that came next.
LEMMA FluxSkip ==
    ASSUME NEW w \in Seq(UnitType), w # <<>>, NEW n \in Nat, NEW v \in Nat,
           NextFlux(w, n, 0, v)
    PROVE  IF OfFlux(w[1]) THEN w[1].value = v ELSE NextFlux(w, n, 1, v)
<1>1. Len(w) \in Nat \ {0} /\ 1 \in 1..Len(w)
    BY TailUnits
<1>2. CASE v = n + 1 /\ \A i \in 1..Len(w) : ~OfFlux(w[i])
  <2>1. \A i \in 2..Len(w) : i \in 1..Len(w)
      OBVIOUS
  <2>2. QED
      BY <1>1, <1>2, <2>1 DEF NextFlux
<1>3. ASSUME NEW j \in 1..Len(w), OfFlux(w[j]), w[j].value = v,
             \A i \in 1..j - 1 : ~OfFlux(w[i])
      PROVE  IF OfFlux(w[1]) THEN w[1].value = v ELSE NextFlux(w, n, 1, v)
  <2>1. CASE j = 1
      BY <1>3, <2>1
  <2>2. CASE j # 1
    <3>1. 1 \in 1..j - 1 /\ j \in 2..Len(w) /\ \A i \in 2..j - 1 : i \in 1..j - 1
        BY <2>2
    <3>2. QED
        BY <1>3, <3>1 DEF NextFlux
  <2>3. QED
      BY <2>1, <2>2
<1>4. QED
    BY <1>2, <1>3 DEF NextFlux

LEMMA WireTail ==
    ASSUME NEW n \in Nat, NEW w, WireOK(w, n), w # <<>>
    PROVE  WireOK(Tail(w), n)
<1>1. PICK t : t = Tail(w)
    OBVIOUS
<1>2. /\ w \in Seq(UnitType) /\ t \in Seq(UnitType) /\ Len(w) \in Nat \ {0}
      /\ Len(t) = Len(w) - 1
      /\ \A i \in 1..Len(t) : i + 1 \in 1..Len(w) /\ t[i] = w[i + 1]
    BY <1>1, TailUnits DEF WireOK, PicturesOK
<1>3. \A i \in 1..Len(t) : OfPicture(t[i]) => t[i].value \in 1..n
    BY <1>2 DEF WireOK, PicturesOK
<1>4. ASSUME NEW i \in 1..Len(t), NEW j \in 1..Len(t), i < j, OfPicture(t[i]), OfPicture(t[j])
      PROVE  t[i].value <= t[j].value
  <2>1. i + 1 < j + 1
      BY <1>4
  <2>2. QED
      BY <1>2, <1>4, <2>1 DEF WireOK, PicturesOK
<1>5. ASSUME NEW h \in 1..Len(t), NEW k \in Pictures, t[h].name = Header(k)
      PROVE  /\ h + PictureLength <= Len(t)
             /\ \A j \in 1..PictureLength : t[h + j] = Web!Unit(k, t[h].value)
  <2>1. /\ (h + 1) + PictureLength <= Len(w)
        /\ \A j \in 1..PictureLength : w[(h + 1) + j] = Web!Unit(k, t[h].value)
    <3>1. PICK g : g = h + 1
        OBVIOUS
    <3>2. g \in 1..Len(w) /\ w[g] = t[h] /\ w[g].name = Header(k)
        BY <1>2, <1>5, <3>1
    <3>3. /\ g + PictureLength <= Len(w)
          /\ \A j \in 1..PictureLength : w[g + j] = Web!Unit(k, w[g].value)
        BY <3>2 DEF WireOK, PicturesOK
    <3>4. QED
        BY <3>1, <3>2, <3>3
  <2>2. PictureLength \in Nat
      BY PartsAssumption
  <2>3. h + PictureLength <= Len(t)
      BY <1>2, <2>1, <2>2
  <2>4. ASSUME NEW j \in 1..PictureLength PROVE t[h + j] = Web!Unit(k, t[h].value)
    <3>1. h + j \in 1..Len(t) /\ (h + j) + 1 = (h + 1) + j
        BY <1>2, <2>2, <2>3
    <3>2. t[h + j] = w[(h + 1) + j]
        BY <1>2, <3>1
    <3>3. QED
        BY <2>1, <3>2
  <2>5. QED
      BY <2>3, <2>4
<1>6. ASSUME NEW i \in 1..Len(t), OfFlux(t[i]) PROVE NextFlux(t, n, i, t[i].value + 1)
  <2>1. NextFlux(w, n, i + 1, t[i].value + 1)
      BY <1>2, <1>6 DEF WireOK, PicturesOK
  <2>2. t[i].value + 1 \in Nat
    <3>1. t[i] \in UnitType
        BY <1>2, ElementOfSeq
    <3>2. QED
        BY <3>1 DEF UnitType
  <2>3. w # <<>> /\ i \in Nat
      OBVIOUS
  <2>4. QED
      BY <1>1, <1>2, <2>1, <2>2, <2>3, FluxTail
<1>7. QED
    BY <1>1, <1>2, <1>3, <1>4, <1>5, <1>6 DEF WireOK, PicturesOK

\* One unit is read: what is shown.
LEMMA ShownTail ==
    ASSUME NEW n \in Nat, NEW w \in Seq(UnitType), w # <<>>, NEW picture, NEW k,
           ShownOK(picture, k, w, n)
    PROVE  ShownOK(picture, k, Tail(w), n)
<1>1. \A i \in 1..Len(Tail(w)) : i + 1 \in 1..Len(w) /\ Tail(w)[i] = w[i + 1]
    BY TailUnits
<1>2. QED
    BY <1>1 DEF ShownOK

\* The series, when the unit tells no flux.
LEMMA SeriesTail ==
    ASSUME NEW n \in Nat, NEW w \in Seq(UnitType), w # <<>>, NEW o \in ObjectType,
           o.series # <<>> => NextFlux(w, n, 0, o.series[Len(o.series)] + 1),
           ~OfFlux(w[1]), o.series # <<>>
    PROVE  NextFlux(Tail(w), n, 0, o.series[Len(o.series)] + 1)
<1>1. PICK v : v = o.series[Len(o.series)] + 1
    OBVIOUS
<1>2. v \in Nat
  <2>1. o.series \in Seq(Nat)
      BY DEF ObjectType
  <2>2. Len(o.series) \in 1..Len(o.series)
      BY <2>1, LenProperties, EmptySeq
  <2>3. o.series[Len(o.series)] \in Nat
      BY <2>1, <2>2, ElementOfSeq
  <2>4. QED
      BY <1>1, <2>3
<1>3. NextFlux(w, n, 1, v)
    BY <1>1, <1>2, FluxSkip
<1>4. 0 + 1 = 1 /\ 0 \in Nat
    OBVIOUS
<1>5. NextFlux(Tail(w), n, 0, v)
    BY <1>2, <1>3, <1>4, FluxTail
<1>6. QED
    BY <1>1, <1>5

LEMMA ObjectTail ==
    ASSUME NEW n \in Nat, NEW w \in Seq(UnitType), w # <<>>, NEW o, ObjectOK(o, w, n),
           ~OfFlux(w[1])
    PROVE  ObjectOK(o, Tail(w), n)
BY ShownTail, SeriesTail DEF ObjectOK

\* A unit of the open picture is read.
LEMMA BinaryUnit ==
    ASSUME NEW n \in Nat, NEW w, WireOK(w, n), w # <<>>, NEW p, ProtocolOK(p, w), p.is_binary,
           NEW o, ObjectOK(o, w, n), NEW s, s = Web!Received([p |-> p, o |-> o], w[1])
    PROVE  ProtocolOK(s.p, Tail(w)) /\ ObjectOK(s.o, Tail(w), n)
<1>1. PICK t : t = Tail(w)
    OBVIOUS
<1>2. PICK v : v = w[1].value
    OBVIOUS
<1>3. PICK b : b = Append(p.buffer, w[1])
    OBVIOUS
<1>4. /\ w \in Seq(UnitType) /\ t \in Seq(UnitType) /\ Len(w) \in Nat \ {0}
      /\ Len(t) = Len(w) - 1 /\ w[1] \in UnitType /\ 1 \in 1..Len(w)
      /\ \A i \in 1..Len(t) : i + 1 \in 1..Len(w) /\ t[i] = w[i + 1]
    BY <1>1, TailUnits DEF WireOK, PicturesOK
<1>5. PICK l : l = Len(p.buffer)
    OBVIOUS
<1>6. /\ p \in ProtocolType /\ p.buffer \in Seq(UnitType) /\ l \in Nat
      /\ p.type \in Pictures /\ PictureLength \in Nat \ {0}
      /\ l < PictureLength /\ PictureLength - l <= Len(w)
      /\ \A i \in 1..l : p.buffer[i] = Web!Unit(p.type, v)
      /\ \A i \in 1..PictureLength - l : w[i] = Web!Unit(p.type, v)
    BY <1>2, <1>5, PartsAssumption, LenProperties DEF ProtocolOK, ProtocolType, Begun
<1>7. w[1] = Web!Unit(p.type, v) /\ v \in Nat
  <2>1. 1 \in 1..PictureLength - l
      BY <1>6
  <2>2. QED
      BY <1>2, <1>4, <1>6, <2>1 DEF UnitType
<1>8. /\ b \in Seq(UnitType) /\ Len(b) = l + 1
      /\ \A i \in 1..l + 1 : b[i] = Web!Unit(p.type, v)
  <2>1. /\ b \in Seq(UnitType) /\ Len(b) = l + 1 /\ b[l + 1] = w[1]
        /\ \A i \in 1..l : b[i] = p.buffer[i]
      BY <1>3, <1>4, <1>5, <1>6, AppendProperties
  <2>2. \A i \in 1..l + 1 : i \in 1..l \/ i = l + 1
      BY <1>6
  <2>3. QED
      BY <1>6, <1>7, <2>1, <2>2
<1>9. w[1].name = p.type
    BY <1>7 DEF Web!Unit
<1>10. OfPicture(w[1]) /\ ~OfFlux(w[1]) /\ v \in 1..n
  <2>1. OfPicture(w[1]) /\ ~OfFlux(w[1])
      BY <1>6, <1>9 DEF OfPicture, OfFlux, Pictures
  <2>2. QED
      BY <1>2, <1>4, <2>1 DEF WireOK, PicturesOK
<1>11. ObjectOK(o, t, n)
    BY <1>1, <1>4, <1>10, ObjectTail
<1>12. CASE l + 1 # PictureLength
  <2>1. s = [p |-> [p EXCEPT !.buffer = b], o |-> o]
      BY <1>3, <1>8, <1>12 DEF Web!Received, Web!Complete
  <2>2. /\ s.o = o /\ s.p \in ProtocolType /\ s.p.is_binary /\ s.p.buffer = b /\ s.p.type = p.type
      BY <1>6, <1>8, <2>1 DEF ProtocolType
  <2>3. l + 1 < PictureLength /\ PictureLength - (l + 1) <= Len(t)
      BY <1>4, <1>6, <1>12
  <2>4. \A i \in 1..PictureLength - (l + 1) : t[i] = Web!Unit(p.type, v)
    <3> TAKE i \in 1..PictureLength - (l + 1)
    <3>1. i \in 1..Len(t) /\ i + 1 \in 1..PictureLength - l
        BY <1>4, <1>6, <2>3
    <3>2. QED
        BY <1>4, <1>6, <3>1
  <2>5. t[1].value = v
    <3>1. 1 \in 1..PictureLength - (l + 1)
        BY <1>6, <2>3
    <3>2. t[1] = Web!Unit(p.type, v)
        BY <2>4, <3>1
    <3>3. QED
        BY <3>2 DEF Web!Unit
  <2>6. Begun(s.p, t, t[1].value)
      BY <1>8, <2>2, <2>3, <2>4, <2>5 DEF Begun
  <2>7. QED
      BY <1>1, <1>6, <1>11, <2>2, <2>6 DEF ProtocolOK
<1>13. CASE l + 1 = PictureLength
  <2>1. s = [Web!ProcessBinary([p |-> p, o |-> o], b) EXCEPT !.p.buffer = <<>>,
                                                             !.p.is_binary = FALSE]
      BY <1>3, <1>8, <1>13 DEF Web!Received, Web!Complete
  <2>2. b = Web!Picture(p.type, v)
    <3>1. b = [i \in 1..PictureLength |-> b[i]]
        BY <1>8, <1>13, LenProperties
    <3>2. QED
        BY <1>8, <1>13, <3>1 DEF Web!Picture
  <2>3. \A k : ShownOK(b, k, t, n) \/ k # p.type
    <3> SUFFICES ASSUME NEW i \in 1..Len(t), OfPicture(t[i]) PROVE v <= t[i].value
        BY <1>10, <2>2 DEF ShownOK
    <3>1. 1 < i + 1 /\ i + 1 \in 1..Len(w) /\ t[i] = w[i + 1]
        BY <1>4
    <3>2. w[1].value <= w[i + 1].value
        BY <1>4, <1>10, <3>1 DEF WireOK, PicturesOK
    <3>3. QED
        BY <1>2, <3>1, <3>2
  <2>4. /\ s.p = [p EXCEPT !.buffer = <<>>, !.is_binary = FALSE]
        /\ s.o = IF p.type = "current" THEN [o EXCEPT !.image = b]
                 ELSE [o EXCEPT !.total_image = b]
    <3>1. PICK r : r = Web!ProcessBinary([p |-> p, o |-> o], b)
        OBVIOUS
    <3>2. r = [p |-> p, o |-> IF p.type = "current" THEN [o EXCEPT !.image = b]
                              ELSE [o EXCEPT !.total_image = b]]
      <4>1. CASE p.type = "current"
          BY <3>1, <4>1 DEF Web!ProcessBinary
      <4>2. CASE p.type # "current"
          BY <3>1, <4>2 DEF Web!ProcessBinary
      <4>3. QED
          BY <4>1, <4>2
    <3>3. s = [r EXCEPT !.p.buffer = <<>>, !.p.is_binary = FALSE]
        BY <2>1, <3>1
    <3>4. PICK q : q = r.o
        OBVIOUS
    <3>5. r = [p |-> p, o |-> q] /\ q = IF p.type = "current" THEN [o EXCEPT !.image = b]
                                        ELSE [o EXCEPT !.total_image = b]
        BY <3>2, <3>4
    <3>6. s.p = [p EXCEPT !.buffer = <<>>, !.is_binary = FALSE] /\ s.o = q
        BY <3>3, <3>5
    <3>7. QED
        BY <3>5, <3>6
  <2>5. ProtocolOK(s.p, t)
    <3>1. PICK z : z = [p EXCEPT !.buffer = <<>>, !.is_binary = FALSE]
        OBVIOUS
    <3>2. s.p = z
        BY <2>4, <3>1
    <3>3. z \in ProtocolType
        BY <1>6, <3>1, EmptySeq DEF ProtocolType
    <3>4. ~z.is_binary /\ z.buffer = <<>>
        BY <1>6, <3>1 DEF ProtocolType
    <3>5. QED
        BY <3>2, <3>3, <3>4 DEF ProtocolOK
  <2>6. CASE p.type = "current"
    <3>1. /\ s.o.image = b /\ s.o.total_image = o.total_image /\ s.o.series = o.series
          /\ s.o \in ObjectType
        BY <1>8, <1>11, <2>4, <2>6 DEF ObjectOK, ObjectType
    <3>2. QED
        BY <1>1, <1>11, <2>3, <2>5, <2>6, <3>1 DEF ObjectOK
  <2>7. CASE p.type = "total"
    <3>1. /\ s.o.total_image = b /\ s.o.image = o.image /\ s.o.series = o.series
          /\ s.o \in ObjectType
        BY <1>8, <1>11, <2>4, <2>7 DEF ObjectOK, ObjectType
    <3>2. QED
        BY <1>1, <1>11, <2>3, <2>5, <2>7, <3>1 DEF ObjectOK
  <2>8. QED
      BY <1>6, <2>6, <2>7 DEF Pictures
<1>14. QED
    BY <1>12, <1>13

\* What processMessage does to the fields.
LEMMA MessageFields ==
    ASSUME NEW p \in ProtocolType, NEW o \in ObjectType, NEW m \in UnitType,
           NEW s, s = Web!ProcessMessage([p |-> p, o |-> o], m)
    PROVE  /\ s.p \in ProtocolType /\ s.p.buffer = p.buffer
           /\ IF m.name = "current_frame" THEN s.p.is_binary /\ s.p.type = "current"
              ELSE IF m.name = "total_frame" THEN s.p.is_binary /\ s.p.type = "total"
              ELSE s.p.is_binary = p.is_binary /\ s.p.type = p.type
           /\ s.o \in ObjectType /\ s.o.image = o.image /\ s.o.total_image = o.total_image
           /\ IF OfFlux(m)
              THEN s.o.series = Append(IF Len(o.series) > MaxSeries THEN <<>> ELSE o.series,
                                       m.value)
              ELSE s.o.series = o.series \/ s.o.series = <<>>
<1>1. CASE m.name = "current_frame"
  <2>1. /\ s.p = [p EXCEPT !.wait_current = FALSE, !.is_binary = TRUE, !.type = "current"]
        /\ s.o = o
      BY <1>1 DEF Web!ProcessMessage
  <2>2. QED
      BY <1>1, <2>1 DEF ProtocolType, Pictures, OfFlux
<1>2. CASE m.name = "total_frame"
  <2>1. /\ s.p = [p EXCEPT !.wait_total = FALSE, !.is_binary = TRUE, !.type = "total"]
        /\ s.o = o
      BY <1>2 DEF Web!ProcessMessage
  <2>2. QED
      BY <1>2, <2>1 DEF ProtocolType, Pictures, OfFlux
<1>3. CASE m.name = "current_frame_timeout"
  <2>1. s.p = [p EXCEPT !.wait_current = FALSE] /\ s.o = o
      BY <1>3 DEF Web!ProcessMessage
  <2>2. QED
      BY <1>3, <2>1 DEF ProtocolType, OfFlux
<1>4. CASE m.name = "total_frame_timeout"
  <2>1. s.p = [p EXCEPT !.wait_total = FALSE] /\ s.o = o
      BY <1>4 DEF Web!ProcessMessage
  <2>2. QED
      BY <1>4, <2>1 DEF ProtocolType, OfFlux
<1>5. CASE m.name = "status"
  <2>1. s.p = p /\ s.o = [o EXCEPT !.series = IF m.value = 0 THEN <<>> ELSE o.series]
      BY <1>5 DEF Web!ProcessMessage
  <2>2. s.o \in ObjectType
      BY <2>1, EmptySeq DEF ObjectType
  <2>3. QED
      BY <1>5, <2>1, <2>2 DEF ObjectType, OfFlux
<1>6. CASE m.name = "current_flux"
  <2>1. PICK q : q = Append(IF Len(o.series) > MaxSeries THEN <<>> ELSE o.series, m.value)
      OBVIOUS
  <2>2. s.p = p /\ s.o = [o EXCEPT !.series = q]
      BY <1>6, <2>1 DEF Web!ProcessMessage
  <2>3. q \in Seq(Nat)
    <3>1. o.series \in Seq(Nat) /\ <<>> \in Seq(Nat) /\ m.value \in Nat
        BY EmptySeq DEF ObjectType, UnitType
    <3>2. QED
        BY <2>1, <3>1, AppendProperties
  <2>4. s.o \in ObjectType
      BY <2>2, <2>3 DEF ObjectType
  <2>5. QED
      BY <1>6, <2>1, <2>2, <2>4 DEF ObjectType, OfFlux
<1>7. CASE m.name \notin {"current_frame", "total_frame", "current_frame_timeout",
                          "total_frame_timeout", "status", "current_flux"}
  <2>1. s = [p |-> p, o |-> o]
      BY <1>7 DEF Web!ProcessMessage
  <2>2. QED
      BY <1>7, <2>1 DEF OfFlux
<1>8. QED
    BY <1>1, <1>2, <1>3, <1>4, <1>5, <1>6, <1>7

\* The series goes on with the flux that is read, or begins with it.
LEMMA SeriesGoesOn ==
    ASSUME NEW n \in Nat, NEW w, WireOK(w, n), w # <<>>, OfFlux(w[1]),
           NEW q \in Seq(Nat), \A i \in 1..Len(q) : q[i] = q[1] + i - 1,
           q # <<>> => NextFlux(w, n, 0, q[Len(q)] + 1),
           NEW r, r = Append(q, w[1].value)
    PROVE  /\ r # <<>> /\ NextFlux(Tail(w), n, 0, r[Len(r)] + 1)
           /\ \A i \in 1..Len(r) : r[i] = r[1] + i - 1
<1>1. w \in Seq(UnitType) /\ w[1] \in UnitType /\ 1 \in 1..Len(w)
    BY TailUnits DEF WireOK, PicturesOK
<1>2. PICK v : v = w[1].value
    OBVIOUS
<1>3. v \in Nat /\ Len(q) \in Nat
    BY <1>1, <1>2, LenProperties DEF UnitType
<1>4. /\ r \in Seq(Nat) /\ Len(r) = Len(q) + 1 /\ r[Len(q) + 1] = v
      /\ \A i \in 1..Len(q) : r[i] = q[i]
    BY <1>2, <1>3, AppendProperties
<1>5. r # <<>>
    BY <1>3, <1>4, EmptySeq
<1>6. NextFlux(w, n, 1, v + 1)
    BY <1>1, <1>2 DEF WireOK, PicturesOK
<1>7. NextFlux(Tail(w), n, 0, v + 1)
  <2>1. 0 + 1 = 1 /\ v + 1 \in Nat /\ 0 \in Nat
      BY <1>3
  <2>2. QED
      BY <1>1, <1>6, <2>1, FluxTail
<1>8. \A i \in 1..Len(r) : i \in 1..Len(q) \/ i = Len(q) + 1
    BY <1>3, <1>4
<1>9. CASE q = <<>>
  <2>1. Len(q) = 0
      BY <1>9, EmptySeq
  <2>2. QED
      BY <1>3, <1>4, <1>5, <1>7, <1>8, <2>1
<1>10. CASE q # <<>>
  <2>1. Len(q) \in 1..Len(q) /\ 1 \in 1..Len(q)
      BY <1>3, <1>10, EmptySeq
  <2>2. q[Len(q)] \in Nat /\ q[1] \in Nat
      BY <2>1, ElementOfSeq
  <2>3. v = q[Len(q)] + 1
    <3>1. q[Len(q)] + 1 \in Nat
        BY <2>2
    <3>2. QED
        BY <1>1, <1>2, <1>10, <3>1, FluxSkip
  <2>4. v = q[1] + Len(q)
    <3>1. q[Len(q)] = q[1] + Len(q) - 1
        BY <2>1
    <3>2. QED
        BY <1>3, <2>2, <2>3, <3>1
  <2>5. r[1] = q[1]
      BY <1>4, <2>1
  <2>6. ASSUME NEW i \in 1..Len(r) PROVE r[i] = r[1] + i - 1
    <3>1. CASE i \in 1..Len(q)
        BY <1>4, <2>5, <3>1
    <3>2. CASE i = Len(q) + 1
        BY <1>3, <1>4, <2>2, <2>4, <2>5, <3>2
    <3>3. QED
        BY <1>8, <3>1, <3>2
  <2>7. QED
      BY <1>4, <1>5, <1>7, <2>6
<1>11. QED
    BY <1>9, <1>10

\* A line is read.
LEMMA LineUnit ==
    ASSUME NEW n \in Nat, NEW w, WireOK(w, n), w # <<>>, NEW p, ProtocolOK(p, w), ~p.is_binary,
           NEW o, ObjectOK(o, w, n), NEW s, s = Web!Received([p |-> p, o |-> o], w[1])
    PROVE  ProtocolOK(s.p, Tail(w)) /\ ObjectOK(s.o, Tail(w), n)
<1>1. PICK t : t = Tail(w)
    OBVIOUS
<1>2. PICK m : m = w[1]
    OBVIOUS
<1>3. /\ w \in Seq(UnitType) /\ t \in Seq(UnitType) /\ Len(w) \in Nat \ {0}
      /\ Len(t) = Len(w) - 1 /\ m \in UnitType /\ 1 \in 1..Len(w)
      /\ \A i \in 1..Len(t) : i + 1 \in 1..Len(w) /\ t[i] = w[i + 1]
    BY <1>1, <1>2, TailUnits DEF WireOK, PicturesOK
<1>4. p \in ProtocolType /\ p.buffer = <<>> /\ o \in ObjectType
    BY DEF ProtocolOK, ObjectOK
<1>5. s = Web!ProcessMessage([p |-> p, o |-> o], m)
    BY <1>2 DEF Web!Received
<1>6. /\ s.p \in ProtocolType /\ s.p.buffer = <<>>
      /\ IF m.name = "current_frame" THEN s.p.is_binary /\ s.p.type = "current"
         ELSE IF m.name = "total_frame" THEN s.p.is_binary /\ s.p.type = "total"
         ELSE s.p.is_binary = p.is_binary /\ s.p.type = p.type
      /\ s.o \in ObjectType /\ s.o.image = o.image /\ s.o.total_image = o.total_image
      /\ IF OfFlux(m)
         THEN s.o.series = Append(IF Len(o.series) > MaxSeries THEN <<>> ELSE o.series, m.value)
         ELSE s.o.series = o.series \/ s.o.series = <<>>
    BY <1>3, <1>4, <1>5, MessageFields
<1>7. ASSUME NEW k \in Pictures, m.name = Header(k), s.p.is_binary, s.p.type = k
      PROVE  ProtocolOK(s.p, t)
  <2>1. /\ 1 + PictureLength <= Len(w)
        /\ \A j \in 1..PictureLength : w[1 + j] = Web!Unit(k, m.value)
      BY <1>2, <1>3, <1>7 DEF WireOK, PicturesOK
  <2>2. PictureLength \in Nat \ {0} /\ Len(<<>>) = 0
      BY PartsAssumption, EmptySeq
  <2>3. PictureLength - 0 <= Len(t) /\ 0 < PictureLength /\ PictureLength - 0 = PictureLength
      BY <1>3, <2>1, <2>2
  <2>4. \A i \in 1..PictureLength : t[i] = Web!Unit(k, m.value)
    <3> TAKE i \in 1..PictureLength
    <3>1. i \in 1..Len(t) /\ i + 1 = 1 + i
        BY <1>3, <2>2, <2>3
    <3>2. QED
        BY <1>3, <2>1, <3>1
  <2>5. t[1].value = m.value
    <3>1. 1 \in 1..PictureLength
        BY <2>2
    <3>2. t[1] = Web!Unit(k, m.value)
        BY <2>4, <3>1
    <3>3. QED
        BY <3>2 DEF Web!Unit
  <2>6. 1..0 = {}
      OBVIOUS
  <2>7. Begun(s.p, t, t[1].value)
      BY <1>6, <1>7, <2>2, <2>3, <2>4, <2>5, <2>6 DEF Begun
  <2>8. QED
      BY <1>6, <1>7, <2>7 DEF ProtocolOK
<1>8. ProtocolOK(s.p, t)
  <2>1. CASE m.name = "current_frame"
    <3>1. "current" \in Pictures /\ Header("current") = "current_frame"
        BY DEF Pictures, Header
    <3>2. QED
        BY <1>6, <1>7, <2>1, <3>1
  <2>2. CASE m.name = "total_frame"
    <3>1. "total" \in Pictures /\ Header("total") = "total_frame"
        BY DEF Pictures, Header
    <3>2. QED
        BY <1>6, <1>7, <2>2, <3>1
  <2>3. CASE m.name \notin {"current_frame", "total_frame"}
      BY <1>6, <2>3 DEF ProtocolOK
  <2>4. QED
      BY <2>1, <2>2, <2>3
<1>9. ShownOK(s.o.image, "current", t, n) /\ ShownOK(s.o.total_image, "total", t, n)
    BY <1>1, <1>3, <1>6, ShownTail DEF ObjectOK
<1>10. ASSUME NEW q, q = s.o.series
       PROVE  /\ \A i \in 1..Len(q) : q[i] = q[1] + i - 1
              /\ q # <<>> => NextFlux(t, n, 0, q[Len(q)] + 1)
  <2>1. 1..Len(<<>>) = {}
    <3>1. Len(<<>>) = 0
        BY EmptySeq
    <3>2. QED
        BY <3>1
  <2>2. CASE ~OfFlux(m) /\ q = o.series
    <3>1. ObjectOK(o, t, n)
        BY <1>1, <1>2, <1>3, <2>2, ObjectTail
    <3>2. QED
        BY <2>2, <3>1 DEF ObjectOK
  <2>3. CASE q = <<>>
      BY <2>1, <2>3
  <2>4. CASE OfFlux(m)
    <3>1. PICK q0 : q0 = IF Len(o.series) > MaxSeries THEN <<>> ELSE o.series
        OBVIOUS
    <3>2. /\ q0 \in Seq(Nat) /\ \A i \in 1..Len(q0) : q0[i] = q0[1] + i - 1
          /\ q0 # <<>> => NextFlux(w, n, 0, q0[Len(q0)] + 1)
      <4>1. CASE q0 = <<>>
          BY <2>1, <4>1, EmptySeq
      <4>2. CASE q0 = o.series
          BY <4>2 DEF ObjectOK, ObjectType
      <4>3. QED
          BY <3>1, <4>1, <4>2
    <3>3. q = Append(q0, w[1].value)
        BY <1>2, <1>6, <1>10, <2>4, <3>1
    <3>4. QED
      <4>1. OfFlux(w[1])
          BY <1>2, <2>4
      <4>2. \A r : r = Append(q0, w[1].value) =>
              /\ r # <<>> /\ NextFlux(Tail(w), n, 0, r[Len(r)] + 1)
              /\ \A i \in 1..Len(r) : r[i] = r[1] + i - 1
          BY <3>2, <4>1, SeriesGoesOn
      <4>3. QED
          BY <1>1, <3>3, <4>2
  <2>5. QED
      BY <1>6, <1>10, <2>2, <2>3, <2>4
<1>11. QED
    BY <1>1, <1>6, <1>8, <1>9, <1>10 DEF ObjectOK

LEMMA UnitRead ==
    ASSUME NEW n \in Nat, NEW w, WireOK(w, n), w # <<>>, NEW p, ProtocolOK(p, w),
           NEW o, ObjectOK(o, w, n), NEW s, s = Web!Received([p |-> p, o |-> o], w[1])
    PROVE  ProtocolOK(s.p, Tail(w)) /\ ObjectOK(s.o, Tail(w), n)
BY BinaryUnit, LineUnit

\* All that is known of both is kept when a unit is read.
BothType == [p : ProtocolType, o : ObjectType]
LEMMA ReceivedType ==
    ASSUME NEW s \in BothType, NEW u \in UnitType
    PROVE  Web!Received(s, u) \in BothType
<1>1. PICK p, o : p = s.p /\ o = s.o
    OBVIOUS
<1>2. s = [p |-> p, o |-> o] /\ p \in ProtocolType /\ o \in ObjectType
    BY <1>1 DEF BothType
<1>3. CASE ~p.is_binary
  <2>1. PICK r : r = Web!ProcessMessage([p |-> p, o |-> o], u)
      OBVIOUS
  <2>2. r.p \in ProtocolType /\ r.o \in ObjectType
      BY <1>2, <2>1, MessageFields
  <2>3. r = [p |-> r.p, o |-> r.o]
      BY <1>2, <2>1 DEF Web!ProcessMessage
  <2>4. QED
      BY <1>2, <1>3, <2>1, <2>2, <2>3 DEF Web!Received, BothType
<1>4. CASE p.is_binary
  <2>1. PICK b : b = Append(p.buffer, u)
      OBVIOUS
  <2>2. b \in Seq(UnitType)
      BY <1>2, <2>1, AppendProperties DEF ProtocolType
  <2>3. [p EXCEPT !.buffer = b] \in ProtocolType
      BY <1>2, <2>2 DEF ProtocolType
  <2>4. [p EXCEPT !.buffer = <<>>, !.is_binary = FALSE] \in ProtocolType
      BY <1>2, EmptySeq DEF ProtocolType
  <2>5. [o EXCEPT !.image = b] \in ObjectType /\ [o EXCEPT !.total_image = b] \in ObjectType
      BY <1>2, <2>2 DEF ObjectType
  <2>6. \/ Web!Received(s, u) = [p |-> [p EXCEPT !.buffer = b], o |-> o]
        \/ Web!Received(s, u) = [p |-> [p EXCEPT !.buffer = <<>>, !.is_binary = FALSE],
                                 o |-> [o EXCEPT !.image = b]]
        \/ Web!Received(s, u) = [p |-> [p EXCEPT !.buffer = <<>>, !.is_binary = FALSE],
                                 o |-> [o EXCEPT !.total_image = b]]
      BY <1>2, <1>4, <2>1 DEF Web!Received, Web!ProcessBinary
  <2>7. QED
      BY <1>2, <2>3, <2>4, <2>5, <2>6 DEF BothType
<1>5. QED
    BY <1>3, <1>4

LEMMA AfterUnitsIs ==
    ASSUME protocol \in ProtocolType, object \in ObjectType, network \in Seq(UnitType)
    PROVE  /\ Web!AfterUnits[0] = [p |-> protocol, o |-> object]
           /\ \A i \in 1..Len(network) :
                /\ Web!AfterUnits[i] = Web!Received(Web!AfterUnits[i - 1], network[i])
                /\ Web!AfterUnits[i] \in BothType
<1>1. PICK n : n = Len(network)
    OBVIOUS
<1>2. n \in Nat /\ \A i \in 1..n : network[i] \in UnitType
    BY <1>1, LenProperties, ElementOfSeq
<1>3. PICK first : first = [p |-> protocol, o |-> object]
    OBVIOUS
<1> DEFINE S == BothType
           g == [q \in (1..n) \X S |-> Web!Received(q[2], network[q[1]])]
           Loop(f) == f = [i \in 0..n |-> IF i = 0 THEN [p |-> protocol, o |-> object]
                                          ELSE Web!Received(f[i - 1], network[i])]
<1>4. g \in [(1..n) \X S -> S]
    BY <1>2, ReceivedType
<1>5. \A i \in 1..n, a \in S : g[<<i, a>>] = Web!Received(a, network[i])
    OBVIOUS
<1>6. first \in S
    BY <1>3 DEF BothType
<1> HIDE DEF S, g
<1>7. \E f : Loop(f)
  <2>1. \A k \in Nat : \A R : \A b \in R : \A h \in [(1..k) \X R -> R] :
          \E f \in [0..k -> R] :
            f = [i \in 0..k |-> IF i = 0 THEN b ELSE h[<<i, f[i - 1]>>]]
      BY Recursion, Zenon
  <2> DEFINE Loops(f, b, h) == f = [i \in 0..n |-> IF i = 0 THEN b ELSE h[<<i, f[i - 1]>>]]
  <2>2. \A R : \A b \in R : \A h \in [(1..n) \X R -> R] : \E f \in [0..n -> R] : Loops(f, b, h)
      BY <1>2, <2>1
  <2> HIDE DEF Loops
  <2>3. \A b \in S : \A h \in [(1..n) \X S -> S] : \E f \in [0..n -> S] : Loops(f, b, h)
      BY <2>2, Zenon
  <2>4. PICK f \in [0..n -> S] : Loops(f, first, g)
      BY <1>4, <1>6, <2>3, Zenon
  <2>5. 0 \in 0..n /\ \A i \in 1..n : i \in 0..n /\ i # 0 /\ i - 1 \in 0..n
      BY <1>2
  <2>6. f[0] = first /\ \A i \in 1..n : f[i] = Web!Received(f[i - 1], network[i])
    <3>1. f[0] = first /\ \A i \in 1..n : f[i] = g[<<i, f[i - 1]>>]
        BY <2>4, <2>5 DEF Loops
    <3>2. \A i \in 1..n : f[i - 1] \in S
        BY <2>5
    <3>3. QED
        BY <1>5, <3>1, <3>2
  <2>7. f = [i \in 0..n |-> f[i]]
      OBVIOUS
  <2>8. \A i \in 0..n : f[i] = IF i = 0 THEN [p |-> protocol, o |-> object]
                               ELSE Web!Received(f[i - 1], network[i])
    <3>1. \A i \in 0..n : i = 0 \/ i \in 1..n
        BY <1>2
    <3>2. QED
        BY <1>3, <2>6, <3>1
  <2>9. QED
      BY <2>7, <2>8
<1>8. Web!AfterUnits = CHOOSE h : Loop(h)
    BY <1>1 DEF Web!AfterUnits
<1>9. PICK f : f = Web!AfterUnits
    OBVIOUS
<1>10. Loop(f)
    BY <1>7, <1>8, <1>9, Zenon
<1>11. 0 \in 0..n /\ n \in 0..n /\ \A i \in 1..n : i \in 0..n /\ i # 0
    BY <1>2
<1>12. f[0] = first /\ \A i \in 1..n : f[i] = Web!Received(f[i - 1], network[i])
    BY <1>3, <1>10, <1>11
<1>13. \A i \in 1..n : f[i] \in BothType
  <2> DEFINE T == {i \in 0..n : f[i] \in BothType}
  <2>1. 0 \in T
      BY <1>6, <1>11, <1>12 DEF S
  <2>2. ASSUME NEW i \in 1..n, i - 1 \in T PROVE i \in T
    <3>1. f[i - 1] \in BothType /\ network[i] \in UnitType
        BY <1>2, <2>2
    <3>2. f[i] \in BothType
        BY <1>12, <3>1, ReceivedType
    <3>3. QED
        BY <1>11, <3>2
  <2> HIDE DEF T
  <2>3. 0..n \subseteq T
      BY <1>2, <2>1, <2>2, Induction
  <2>4. \A i \in 1..n : i \in T
      BY <1>11, <2>3
  <2>5. QED
      BY <2>4 DEF T
<1>14. QED
    BY <1>1, <1>3, <1>9, <1>12, <1>13

\* What is left of the wire after i units.
Left(w, i) == SubSeq(w, i + 1, Len(w))
LEMMA LeftIs ==
    ASSUME NEW w \in Seq(UnitType)
    PROVE  /\ Left(w, 0) = w
           /\ \A i \in 1..Len(w) : /\ Left(w, i - 1) # <<>> /\ Left(w, i - 1)[1] = w[i]
                                   /\ Left(w, i) = Tail(Left(w, i - 1))
<1>1. PICK n : n = Len(w)
    OBVIOUS
<1>2. n \in Nat
    BY <1>1, LenProperties
<1>3. \A i \in 0..n : /\ Left(w, i) \in Seq(UnitType) /\ Len(Left(w, i)) = n - i
                      /\ \A j \in 1..n - i : Left(w, i)[j] = w[i + j]
  <2> TAKE i \in 0..n
  <2>1. i + 1 \in 1..n + 1 /\ n \in (i + 1) - 1..n
      BY <1>2
  <2>2. /\ SubSeq(w, i + 1, n) \in Seq(UnitType) /\ Len(SubSeq(w, i + 1, n)) = n - (i + 1) + 1
        /\ \A j \in 1..n - (i + 1) + 1 : SubSeq(w, i + 1, n)[j] = w[(i + 1) + j - 1]
      BY <1>1, <2>1, SubSeqProperties
  <2>3. n - (i + 1) + 1 = n - i /\ \A j \in 1..n - i : (i + 1) + j - 1 = i + j
      BY <1>2
  <2>4. QED
      BY <1>1, <2>2, <2>3 DEF Left
<1>4. Left(w, 0) = w
  <2>1. PICK l : l = Left(w, 0)
      OBVIOUS
  <2>2. l \in Seq(UnitType) /\ Len(l) = Len(w) /\ \A j \in 1..Len(w) : l[j] = w[j]
    <3>1. 0 \in 0..n /\ n - 0 = n /\ \A j \in 1..n : 0 + j = j
        BY <1>2
    <3>2. QED
        BY <1>1, <1>3, <2>1, <3>1
  <2>3. QED
      BY <2>1, <2>2, SeqEqual
<1>5. ASSUME NEW i \in 1..n
      PROVE  /\ Left(w, i - 1) # <<>> /\ Left(w, i - 1)[1] = w[i]
             /\ Left(w, i) = Tail(Left(w, i - 1))
  <2>1. PICK l, m : l = Left(w, i - 1) /\ m = Left(w, i)
      OBVIOUS
  <2>2. i \in 0..n /\ i - 1 \in 0..n /\ 1 \in 1..n - (i - 1) /\ (i - 1) + 1 = i
      BY <1>2
  <2>3. /\ l \in Seq(UnitType) /\ Len(l) = n - (i - 1)
        /\ \A j \in 1..n - (i - 1) : l[j] = w[(i - 1) + j]
        /\ m \in Seq(UnitType) /\ Len(m) = n - i /\ \A j \in 1..n - i : m[j] = w[i + j]
      BY <1>3, <2>1, <2>2
  <2>4. l # <<>> /\ l[1] = w[i]
      BY <1>2, <2>2, <2>3, EmptySeq
  <2>5. /\ Tail(l) \in Seq(UnitType) /\ Len(Tail(l)) = Len(l) - 1
        /\ \A j \in 1..Len(Tail(l)) : Tail(l)[j] = l[j + 1]
      BY <2>3, <2>4, TailUnits
  <2>6. Len(Tail(l)) = Len(m)
      BY <1>2, <2>3, <2>5
  <2>7. ASSUME NEW j \in 1..Len(m) PROVE Tail(l)[j] = m[j]
    <3>1. j + 1 \in 1..n - (i - 1) /\ (i - 1) + (j + 1) = i + j /\ j \in 1..n - i
        BY <1>2, <2>3
    <3>2. QED
        BY <2>3, <2>5, <2>6, <2>7, <3>1
  <2>8. Tail(l) = m
      BY <2>3, <2>5, <2>6, <2>7, SeqEqual
  <2>9. QED
      BY <2>1, <2>4, <2>8
<1>6. QED
    BY <1>1, <1>4, <1>5

LEMMA WebDataReceived == ASSUME WebInv, Web!DataReceived PROVE WebInv'
<1>1. /\ connected /\ network # <<>> /\ nframes \in Nat /\ WireOK(network, nframes)
      /\ ProtocolOK(protocol, network) /\ ObjectOK(object, network, nframes)
    BY DEF WebInv, Web!DataReceived
<1>2. PICK n : n \in 1..Len(network) /\ /\ protocol' = Web!AfterUnits[n].p
                                        /\ object' = Web!AfterUnits[n].o
                                        /\ network' = SubSeq(network, n + 1, Len(network))
    BY DEF Web!DataReceived
<1>3. network \in Seq(UnitType) /\ Len(network) \in Nat
    BY <1>1, LenProperties DEF WireOK, PicturesOK
<1>4. PICK f : f = Web!AfterUnits
    OBVIOUS
<1>5. /\ f[0] = [p |-> protocol, o |-> object]
      /\ \A i \in 1..Len(network) : f[i] = Web!Received(f[i - 1], network[i]) /\ f[i] \in BothType
    BY <1>1, <1>3, <1>4, AfterUnitsIs DEF ProtocolOK, ObjectOK
<1> DEFINE OK(i) == /\ WireOK(Left(network, i), nframes) /\ f[i] = [p |-> f[i].p, o |-> f[i].o]
                    /\ ProtocolOK(f[i].p, Left(network, i))
                    /\ ObjectOK(f[i].o, Left(network, i), nframes)
           T == {i \in 0..Len(network) : OK(i)}
<1>6. 0 \in T
  <2>1. Left(network, 0) = network /\ f[0].p = protocol /\ f[0].o = object
      BY <1>3, <1>5, LeftIs
  <2>2. QED
      BY <1>1, <1>3, <1>5, <2>1
<1>7. ASSUME NEW i \in 1..Len(network), i - 1 \in T PROVE i \in T
  <2>1. PICK w, t, p, o : /\ w = Left(network, i - 1) /\ t = Left(network, i)
                          /\ p = f[i - 1].p /\ o = f[i - 1].o
      OBVIOUS
  <2>2. w # <<>> /\ w[1] = network[i] /\ t = Tail(w)
      BY <1>3, <2>1, LeftIs
  <2>3. WireOK(w, nframes) /\ ProtocolOK(p, w) /\ ObjectOK(o, w, nframes) /\ f[i - 1] = [p |-> p, o |-> o]
      BY <1>7, <2>1
  <2>4. f[i] = Web!Received([p |-> p, o |-> o], w[1]) /\ f[i] \in BothType
      BY <1>5, <2>2, <2>3
  <2>5. WireOK(t, nframes)
      BY <1>1, <2>2, <2>3, WireTail
  <2>6. ProtocolOK(f[i].p, t) /\ ObjectOK(f[i].o, t, nframes)
      BY <1>1, <2>2, <2>3, <2>4, UnitRead
  <2>7. f[i] = [p |-> f[i].p, o |-> f[i].o]
      BY <2>4 DEF BothType
  <2>8. i \in 0..Len(network)
      OBVIOUS
  <2>9. QED
      BY <2>1, <2>5, <2>6, <2>7, <2>8
<1> HIDE DEF T
<1>8. 0..Len(network) \subseteq T
    BY <1>3, <1>6, <1>7, Induction
<1>9. OK(n)
  <2>1. n \in T
      BY <1>2, <1>3, <1>8
  <2>2. QED
      BY <2>1 DEF T
<1>10. WireOK(network', nframes) /\ ProtocolOK(protocol', network') /\ ObjectOK(object', network', nframes)
    BY <1>2, <1>4, <1>9 DEF Left
<1>11. nframes' = nframes /\ total' = total /\ connected' = connected
    BY DEF Web!DataReceived, Web!daemon
<1>12. WireOK(network, nframes)' /\ ProtocolOK(protocol, network)' /\ ObjectOK(object, network, nframes)'
    BY <1>10, <1>11 DEF WireOK, PicturesOK, ProtocolOK, ObjectOK, NextFlux, Begun, ShownOK
<1>13. QED
    BY <1>1, <1>11, <1>12 DEF WebInv

\* The wire gets longer: x is put behind w.
LEMMA Behind ==
    ASSUME NEW w \in Seq(UnitType), NEW x \in Seq(UnitType)
    PROVE  /\ w \o x \in Seq(UnitType) /\ Len(w) \in Nat /\ Len(x) \in Nat
           /\ Len(w \o x) = Len(w) + Len(x)
           /\ \A i \in 1..Len(w \o x) :
                \/ i \in 1..Len(w) /\ (w \o x)[i] = w[i]
                \/ i - Len(w) \in 1..Len(x) /\ (w \o x)[i] = x[i - Len(w)]
           /\ \A i \in 1..Len(w) : (w \o x)[i] = w[i] /\ i \in 1..Len(w \o x)
<1>1. /\ w \o x \in Seq(UnitType) /\ Len(w) \in Nat /\ Len(x) \in Nat
      /\ Len(w \o x) = Len(w) + Len(x)
      /\ \A i \in 1..Len(w) + Len(x) : (w \o x)[i] = IF i <= Len(w) THEN w[i]
                                                     ELSE x[i - Len(w)]
    BY ConcatProperties, LenProperties
<1>2. PICK y : y = w \o x
    OBVIOUS
<1>3. \A i \in 1..Len(y) : \/ i \in 1..Len(w) /\ y[i] = w[i]
                           \/ i - Len(w) \in 1..Len(x) /\ y[i] = x[i - Len(w)]
    BY <1>1, <1>2
<1>4. \A i \in 1..Len(w) : y[i] = w[i] /\ i \in 1..Len(y)
    BY <1>1, <1>2
<1>5. QED
    BY <1>1, <1>2, <1>3, <1>4

\* A picture that was begun, and those that are shown, do not mind.
LEMMA ProtocolBehind ==
    ASSUME NEW w \in Seq(UnitType), NEW x \in Seq(UnitType), NEW p, ProtocolOK(p, w)
    PROVE  ProtocolOK(p, w \o x)
<1>1. PICK y : y = w \o x
    OBVIOUS
<1>2. /\ Len(w) \in Nat /\ Len(y) >= Len(w) /\ Len(y) \in Nat
      /\ \A i \in 1..Len(w) : y[i] = w[i]
    BY <1>1, Behind
<1>3. CASE p.is_binary
  <2>1. PICK l : l = PictureLength - Len(p.buffer)
      OBVIOUS
  <2>2. p.type \in Pictures /\ Begun(p, w, w[1].value) /\ p \in ProtocolType
      BY <1>3 DEF ProtocolOK
  <2>3. l \in Nat \ {0} /\ l <= Len(w)
      BY <2>1, <2>2, PartsAssumption, LenProperties DEF Begun, ProtocolType
  <2>4. 1 \in 1..Len(w) /\ \A i \in 1..l : i \in 1..Len(w)
      BY <1>2, <2>3
  <2>5. l <= Len(y) /\ \A i \in 1..l : y[i] = w[i]
      BY <1>2, <2>3, <2>4
  <2>6. y[1] = w[1]
      BY <1>2, <2>4
  <2>7. Begun(p, y, y[1].value)
      BY <2>1, <2>2, <2>5, <2>6 DEF Begun
  <2>8. QED
      BY <1>1, <1>3, <2>2, <2>7 DEF ProtocolOK
<1>4. CASE ~p.is_binary
    BY <1>1, <1>4 DEF ProtocolOK
<1>5. QED
    BY <1>3, <1>4

LEMMA ShownBehind ==
    ASSUME NEW w \in Seq(UnitType), NEW x \in Seq(UnitType), NEW n \in Nat, NEW m \in Nat,
           n <= m, NEW picture, NEW k, ShownOK(picture, k, w, n),
           \A i \in 1..Len(x) : OfPicture(x[i]) => x[i].value \in Nat /\ n <= x[i].value
    PROVE  ShownOK(picture, k, w \o x, m)
<1> SUFFICES ASSUME picture # None
             PROVE  \E v \in 1..m : /\ picture = Web!Picture(k, v)
                                    /\ \A i \in 1..Len(w \o x) :
                                         OfPicture((w \o x)[i]) => v <= (w \o x)[i].value
    BY DEF ShownOK
<1>1. PICK v \in 1..n : /\ picture = Web!Picture(k, v)
                        /\ \A i \in 1..Len(w) : OfPicture(w[i]) => v <= w[i].value
    BY DEF ShownOK
<1>2. ASSUME NEW i \in 1..Len(w \o x), OfPicture((w \o x)[i]) PROVE v <= (w \o x)[i].value
  <2>1. CASE i \in 1..Len(w) /\ (w \o x)[i] = w[i]
      BY <1>1, <1>2, <2>1
  <2>2. CASE i - Len(w) \in 1..Len(x) /\ (w \o x)[i] = x[i - Len(w)]
    <3>1. PICK z : z = x[i - Len(w)].value
        OBVIOUS
    <3>2. z \in Nat /\ n <= z /\ (w \o x)[i].value = z
        BY <1>2, <2>2, <3>1
    <3>3. QED
        BY <3>2
  <2>3. QED
      BY <2>1, <2>2, Behind
<1>3. v \in 1..m
    OBVIOUS
<1>4. QED
    BY <1>1, <1>2, <1>3

\* The next flux, when no flux comes in, and when that of the next frame does.
LEMMA FluxBehind ==
    ASSUME NEW w \in Seq(UnitType), NEW x \in Seq(UnitType), NEW n \in Nat, NEW p \in Nat,
           p <= Len(w), NEW v \in Nat, NextFlux(w, n, p, v)
    PROVE  /\ (\A i \in 1..Len(x) : ~OfFlux(x[i])) => NextFlux(w \o x, n, p, v)
           /\ x = <<Web!Unit("current_flux", n + 1)>> => NextFlux(w \o x, n + 1, p, v)
<1>1. PICK y : y = w \o x
    OBVIOUS
<1>2. /\ y \in Seq(UnitType) /\ Len(w) \in Nat /\ Len(x) \in Nat
      /\ Len(y) = Len(w) + Len(x)
      /\ \A i \in 1..Len(y) : \/ i \in 1..Len(w) /\ y[i] = w[i]
                              \/ i - Len(w) \in 1..Len(x) /\ y[i] = x[i - Len(w)]
      /\ \A i \in 1..Len(w) : y[i] = w[i] /\ i \in 1..Len(y)
    BY <1>1, Behind
<1>3. ASSUME NEW m, NEW j \in p + 1..Len(w), OfFlux(w[j]), w[j].value = v,
             \A i \in p + 1..j - 1 : ~OfFlux(w[i])
      PROVE  NextFlux(y, m, p, v)
  <2>1. j \in 1..Len(w) /\ j \in p + 1..Len(y)
      BY <1>2
  <2>2. y[j] = w[j]
      BY <1>2, <2>1
  <2>3. ASSUME NEW i \in p + 1..j - 1 PROVE ~OfFlux(y[i])
    <3>1. i \in 1..Len(w)
        BY <2>1
    <3>2. QED
        BY <1>2, <1>3, <3>1
  <2>4. QED
      BY <1>3, <2>1, <2>2, <2>3 DEF NextFlux
<1>4. CASE v = n + 1 /\ \A i \in p + 1..Len(w) : ~OfFlux(w[i])
  <2>1. ASSUME \A i \in 1..Len(x) : ~OfFlux(x[i]) PROVE NextFlux(y, n, p, v)
    <3>1. ASSUME NEW i \in p + 1..Len(y) PROVE ~OfFlux(y[i])
      <4>1. i \in 1..Len(y)
          OBVIOUS
      <4>2. CASE i \in 1..Len(w) /\ y[i] = w[i]
        <5>1. i \in p + 1..Len(w)
            BY <4>2
        <5>2. QED
            BY <1>4, <4>2, <5>1
      <4>3. QED
          BY <1>2, <2>1, <4>1, <4>2
    <3>2. QED
        BY <1>4, <3>1 DEF NextFlux
  <2>2. ASSUME x = <<Web!Unit("current_flux", n + 1)>> PROVE NextFlux(y, n + 1, p, v)
    <3>1. Len(x) = 1 /\ x[1] = Web!Unit("current_flux", n + 1)
        BY <2>2
    <3>2. PICK j : j = Len(y)
        OBVIOUS
    <3>3. j \in 1..Len(y) /\ j = Len(w) + 1 /\ j \in p + 1..Len(y) /\ ~(j \in 1..Len(w))
      <4>1. Len(y) = Len(w) + 1 /\ Len(w) \in Nat
          BY <1>2, <3>1
      <4>2. QED
          BY <3>2, <4>1
    <3>4. y[j] = x[1]
      <4>1. y[j] = x[j - Len(w)] /\ j - Len(w) = 1
          BY <1>2, <3>3
      <4>2. QED
          BY <4>1
    <3>5. OfFlux(y[j]) /\ y[j].value = v
        BY <1>4, <3>1, <3>4 DEF OfFlux, Web!Unit
    <3>6. ASSUME NEW i \in p + 1..j - 1 PROVE ~OfFlux(y[i])
      <4>1. i \in p + 1..Len(w) /\ i \in 1..Len(w)
          BY <1>2, <3>3
      <4>2. QED
          BY <1>2, <1>4, <4>1
    <3>7. QED
        BY <3>3, <3>5, <3>6 DEF NextFlux
  <2>3. QED
      BY <1>1, <2>1, <2>2
<1>5. QED
    BY <1>1, <1>3, <1>4 DEF NextFlux

\* What the daemon adds: whole pictures of the frame it has, or a flux.
Whole(x, n) ==
    /\ \A i \in 1..Len(x) : OfPicture(x[i]) => x[i].value = n /\ n > 0
    /\ \A h \in 1..Len(x) : \A k \in Pictures : x[h].name = Header(k) =>
         /\ h + PictureLength <= Len(x)
         /\ \A j \in 1..PictureLength : x[h + j] = Web!Unit(k, x[h].value)

LEMMA PicturesBehind ==
    ASSUME NEW n \in Nat, NEW m \in Nat, n <= m, NEW w, WireOK(w, n),
           NEW x \in Seq(UnitType), Whole(x, m)
    PROVE  PicturesOK(w \o x, m)
<1>1. PICK y : y = w \o x
    OBVIOUS
<1>2. /\ y \in Seq(UnitType) /\ w \in Seq(UnitType) /\ Len(w) \in Nat /\ Len(x) \in Nat
      /\ Len(y) = Len(w) + Len(x)
      /\ \A i \in 1..Len(y) : \/ i \in 1..Len(w) /\ y[i] = w[i]
                              \/ i - Len(w) \in 1..Len(x) /\ y[i] = x[i - Len(w)]
      /\ \A i \in 1..Len(w) : y[i] = w[i] /\ i \in 1..Len(y)
    BY <1>1, Behind DEF WireOK, PicturesOK
<1>3. PictureLength \in Nat
    BY PartsAssumption
<1>4. ASSUME NEW i \in 1..Len(y), OfPicture(y[i])
      PROVE  y[i].value \in 1..m /\ (~(i \in 1..Len(w)) => y[i].value = m)
  <2>1. CASE i \in 1..Len(w) /\ y[i] = w[i]
    <3>1. y[i].value \in 1..n
        BY <1>4, <2>1 DEF WireOK, PicturesOK
    <3>2. QED
        BY <2>1, <3>1
  <2>2. CASE i - Len(w) \in 1..Len(x) /\ y[i] = x[i - Len(w)]
    <3>1. y[i].value = m /\ m > 0
        BY <1>4, <2>2 DEF Whole
    <3>2. QED
        BY <3>1
  <2>3. QED
      BY <1>2, <2>1, <2>2
<1>5. ASSUME NEW i \in 1..Len(y), NEW j \in 1..Len(y), i < j, OfPicture(y[i]), OfPicture(y[j])
      PROVE  y[i].value <= y[j].value
  <2>1. CASE j \in 1..Len(w)
    <3>1. i \in 1..Len(w)
        BY <1>5, <2>1
    <3>2. QED
        BY <1>2, <1>5, <2>1, <3>1 DEF WireOK, PicturesOK
  <2>2. CASE ~(j \in 1..Len(w))
    <3>1. y[i].value \in 1..m /\ y[j].value = m
        BY <1>4, <1>5, <2>2
    <3>2. QED
        BY <3>1
  <2>3. QED
      BY <2>1, <2>2
<1>6. ASSUME NEW h \in 1..Len(y), NEW k \in Pictures, y[h].name = Header(k)
      PROVE  /\ h + PictureLength <= Len(y)
             /\ \A j \in 1..PictureLength : y[h + j] = Web!Unit(k, y[h].value)
  <2>1. CASE h \in 1..Len(w) /\ y[h] = w[h]
    <3>1. /\ h + PictureLength <= Len(w)
          /\ \A j \in 1..PictureLength : w[h + j] = Web!Unit(k, w[h].value)
        BY <1>6, <2>1 DEF WireOK, PicturesOK
    <3>2. h + PictureLength <= Len(y)
        BY <1>2, <1>3, <2>1, <3>1
    <3>3. ASSUME NEW j \in 1..PictureLength PROVE y[h + j] = Web!Unit(k, y[h].value)
      <4>1. h + j \in 1..Len(w)
          BY <1>2, <1>3, <2>1, <3>1
      <4>2. QED
          BY <1>2, <2>1, <3>1, <4>1
    <3>4. QED
        BY <3>2, <3>3
  <2>2. CASE h - Len(w) \in 1..Len(x) /\ y[h] = x[h - Len(w)]
    <3>1. PICK g : g = h - Len(w)
        OBVIOUS
    <3>2. /\ g + PictureLength <= Len(x) /\ g \in 1..Len(x)
          /\ \A j \in 1..PictureLength : x[g + j] = Web!Unit(k, y[h].value)
        BY <1>6, <2>2, <3>1 DEF Whole
    <3>3. h + PictureLength <= Len(y)
        BY <1>2, <1>3, <3>1, <3>2
    <3>4. ASSUME NEW j \in 1..PictureLength PROVE y[h + j] = Web!Unit(k, y[h].value)
      <4>1. /\ h + j \in 1..Len(y) /\ ~(h + j \in 1..Len(w))
            /\ (h + j) - Len(w) = g + j
          BY <1>2, <1>3, <3>1, <3>2, <3>3
      <4>2. y[h + j] = x[g + j]
          BY <1>2, <4>1
      <4>3. QED
          BY <3>2, <4>2
    <3>5. QED
        BY <3>3, <3>4
  <2>3. QED
      BY <1>2, <2>1, <2>2
<1>7. QED
    BY <1>1, <1>4, <1>5, <1>6 DEF PicturesOK

\* The daemon answers.
LEMMA AnswerBehind ==
    ASSUME NEW n \in Nat, NEW w, WireOK(w, n), NEW x \in Seq(UnitType), Whole(x, n),
           \A i \in 1..Len(x) : ~OfFlux(x[i])
    PROVE  WireOK(w \o x, n)
<1>1. PICK y : y = w \o x
    OBVIOUS
<1>2. /\ y \in Seq(UnitType) /\ w \in Seq(UnitType)
      /\ \A i \in 1..Len(y) : \/ i \in 1..Len(w) /\ y[i] = w[i]
                              \/ i - Len(w) \in 1..Len(x) /\ y[i] = x[i - Len(w)]
    BY <1>1, Behind DEF WireOK, PicturesOK
<1>3. ASSUME NEW i \in 1..Len(y), OfFlux(y[i]) PROVE NextFlux(y, n, i, y[i].value + 1)
  <2>1. i \in 1..Len(w) /\ y[i] = w[i]
      BY <1>2, <1>3
  <2>2. NextFlux(w, n, i, w[i].value + 1)
      BY <1>3, <2>1 DEF WireOK, PicturesOK
  <2>3. w[i].value + 1 \in Nat
    <3>1. w[i] \in UnitType
        BY <1>2, <2>1, ElementOfSeq
    <3>2. QED
        BY <3>1 DEF UnitType
  <2>4. i \in Nat /\ i <= Len(w)
      BY <2>1
  <2>5. QED
      BY <1>1, <1>2, <2>1, <2>2, <2>3, <2>4, FluxBehind
<1>4. n <= n
    OBVIOUS
<1>5. QED
  <2>1. PicturesOK(y, n)
      BY <1>1, <1>4, PicturesBehind
  <2>2. QED
      BY <1>1, <1>2, <1>3, <2>1 DEF WireOK, PicturesOK

\* Or a frame has been taken.
LEMMA FluxOfNewFrame ==
    ASSUME NEW n \in Nat, NEW w, WireOK(w, n), NEW x, x = <<Web!Unit("current_flux", n + 1)>>
    PROVE  /\ x \in Seq(UnitType) /\ Whole(x, n + 1) /\ WireOK(w \o x, n + 1)
           /\ \A i \in 1..Len(x) : ~OfPicture(x[i])
<1>1. PICK u : u = Web!Unit("current_flux", n + 1)
    OBVIOUS
<1>2. /\ u \in UnitType /\ OfFlux(u) /\ ~OfPicture(u) /\ u.value = n + 1 /\ n + 1 \in Nat
      /\ \A k \in Pictures : u.name # Header(k)
  <2>0. n + 1 \in Nat
      OBVIOUS
  <2>1. u.name = "current_flux" /\ u.value = n + 1 /\ u \in UnitType
      BY <1>1, <2>0 DEF Web!Unit, UnitType, UnitNames
  <2>2. \A k \in Pictures : Header(k) \in {"current_frame", "total_frame"}
      BY DEF Header
  <2>3. QED
      BY <2>0, <2>1, <2>2 DEF OfFlux, OfPicture
<1>3. x \in Seq(UnitType) /\ Len(x) = 1 /\ x[1] = u
    BY <1>1, <1>2
<1>4. \A i \in 1..Len(x) : x[i] = u
    BY <1>3
<1>5. Whole(x, n + 1) /\ \A i \in 1..Len(x) : ~OfPicture(x[i])
    BY <1>2, <1>4 DEF Whole
<1>6. PICK y : y = w \o x
    OBVIOUS
<1>7. /\ y \in Seq(UnitType) /\ w \in Seq(UnitType) /\ Len(w) \in Nat
      /\ Len(y) = Len(w) + 1
      /\ \A i \in 1..Len(y) : \/ i \in 1..Len(w) /\ y[i] = w[i]
                              \/ i - Len(w) \in 1..Len(x) /\ y[i] = x[i - Len(w)]
    BY <1>3, <1>6, Behind DEF WireOK, PicturesOK
<1>8. ASSUME NEW i \in 1..Len(y), OfFlux(y[i]) PROVE NextFlux(y, n + 1, i, y[i].value + 1)
  <2>1. CASE i \in 1..Len(w) /\ y[i] = w[i]
    <3>1. NextFlux(w, n, i, w[i].value + 1)
        BY <1>8, <2>1 DEF WireOK, PicturesOK
    <3>2. w[i].value + 1 \in Nat
      <4>1. w[i] \in UnitType
          BY <1>7, <2>1, ElementOfSeq
      <4>2. QED
          BY <4>1 DEF UnitType
    <3>3. i \in Nat /\ i <= Len(w)
        BY <2>1
    <3>4. QED
        BY <1>3, <1>6, <1>7, <2>1, <3>1, <3>2, <3>3, FluxBehind
  <2>2. CASE i - Len(w) \in 1..Len(x) /\ y[i] = x[i - Len(w)]
    <3>1. i = Len(y) /\ y[i].value = n + 1
        BY <1>2, <1>3, <1>4, <1>7, <2>2
    <3>2. i + 1..Len(y) = {}
        BY <1>7, <3>1
    <3>3. QED
        BY <3>1, <3>2 DEF NextFlux
  <2>3. QED
      BY <1>7, <2>1, <2>2
<1>9. n <= n + 1 /\ n + 1 \in Nat
    OBVIOUS
<1>10. WireOK(y, n + 1)
  <2>1. PicturesOK(y, n + 1)
      BY <1>3, <1>5, <1>6, <1>9, PicturesBehind
  <2>2. QED
      BY <1>7, <1>8, <2>1 DEF WireOK, PicturesOK
<1>11. QED
    BY <1>3, <1>5, <1>6, <1>10

\* Either way, what is shown goes on.
LEMMA SeriesLast ==
    ASSUME NEW o \in ObjectType, o.series # <<>>
    PROVE  o.series[Len(o.series)] + 1 \in Nat
<1>1. o.series \in Seq(Nat)
    BY DEF ObjectType
<1>2. Len(o.series) \in 1..Len(o.series)
    BY <1>1, LenProperties, EmptySeq
<1>3. o.series[Len(o.series)] \in Nat
    BY <1>1, <1>2, ElementOfSeq
<1>4. QED
    BY <1>3

LEMMA ObjectBehind ==
    ASSUME NEW n \in Nat, NEW w \in Seq(UnitType), NEW o, ObjectOK(o, w, n),
           NEW x \in Seq(UnitType)
    PROVE  /\ Whole(x, n) /\ (\A i \in 1..Len(x) : ~OfFlux(x[i])) => ObjectOK(o, w \o x, n)
           /\ x = <<Web!Unit("current_flux", n + 1)>> /\ (\A i \in 1..Len(x) : ~OfPicture(x[i]))
                => ObjectOK(o, w \o x, n + 1)
<1>1. o \in ObjectType /\ 0 \in Nat /\ 0 <= Len(w) /\ n <= n /\ n <= n + 1 /\ n + 1 \in Nat
    BY LenProperties DEF ObjectOK
<1>2. ASSUME Whole(x, n), \A i \in 1..Len(x) : ~OfFlux(x[i]) PROVE ObjectOK(o, w \o x, n)
  <2>1. \A i \in 1..Len(x) : OfPicture(x[i]) => x[i].value \in Nat /\ n <= x[i].value
      BY <1>2 DEF Whole
  <2>2. ShownOK(o.image, "current", w \o x, n) /\ ShownOK(o.total_image, "total", w \o x, n)
      BY <1>1, <2>1, ShownBehind DEF ObjectOK
  <2>3. ASSUME o.series # <<>> PROVE NextFlux(w \o x, n, 0, o.series[Len(o.series)] + 1)
    <3>1. NextFlux(w, n, 0, o.series[Len(o.series)] + 1)
        BY <2>3 DEF ObjectOK
    <3>2. QED
        BY <1>1, <1>2, <2>3, <3>1, SeriesLast, FluxBehind
  <2>4. QED
      BY <2>2, <2>3 DEF ObjectOK
<1>3. ASSUME x = <<Web!Unit("current_flux", n + 1)>>, \A i \in 1..Len(x) : ~OfPicture(x[i])
      PROVE  ObjectOK(o, w \o x, n + 1)
  <2>1. /\ ShownOK(o.image, "current", w \o x, n + 1)
        /\ ShownOK(o.total_image, "total", w \o x, n + 1)
      BY <1>1, <1>3, ShownBehind DEF ObjectOK
  <2>2. ASSUME o.series # <<>> PROVE NextFlux(w \o x, n + 1, 0, o.series[Len(o.series)] + 1)
    <3>1. NextFlux(w, n, 0, o.series[Len(o.series)] + 1)
        BY <2>2 DEF ObjectOK
    <3>2. QED
        BY <1>1, <1>3, <2>2, <3>1, SeriesLast, FluxBehind
  <2>3. QED
      BY <2>1, <2>2 DEF ObjectOK
<1>4. QED
    BY <1>2, <1>3

\* The answer to a request: whole pictures and no flux.
LEMMA OneLine ==
    ASSUME NEW n \in Nat, NEW name \in UnitNames, NEW v \in Nat,
           name \notin {"current", "total", "current_frame", "total_frame", "current_flux"}
    PROVE  /\ <<Web!Unit(name, v)>> \in Seq(UnitType) /\ Whole(<<Web!Unit(name, v)>>, n)
           /\ \A i \in 1..Len(<<Web!Unit(name, v)>>) : ~OfFlux(<<Web!Unit(name, v)>>[i])
<1>1. PICK u : u = Web!Unit(name, v)
    OBVIOUS
<1>2. u \in UnitType /\ u.name = name
    BY <1>1 DEF Web!Unit, UnitType
<1>3. PICK x : x = <<u>>
    OBVIOUS
<1>4. x \in Seq(UnitType) /\ Len(x) = 1 /\ x[1] = u
    BY <1>2, <1>3
<1>5. \A i \in 1..Len(x) : x[i] = u
    BY <1>4
<1>6. \A k \in Pictures : Header(k) \in {"current_frame", "total_frame"}
    BY DEF Header
<1>7. ~OfPicture(u) /\ ~OfFlux(u) /\ \A k \in Pictures : u.name # Header(k)
    BY <1>2, <1>6 DEF OfPicture, OfFlux
<1>8. Whole(x, n)
    BY <1>5, <1>7 DEF Whole
<1>9. QED
    BY <1>1, <1>3, <1>4, <1>5, <1>7, <1>8

LEMMA OnePicture ==
    ASSUME NEW n \in Nat \ {0}, NEW k \in Pictures, NEW done \in {"current_frame_done", "total_frame_done"},
           NEW x, x = <<Web!Unit(Header(k), n)>> \o Web!Picture(k, n) \o <<Web!Unit(done, 0)>>
    PROVE  /\ x \in Seq(UnitType) /\ Whole(x, n) /\ \A i \in 1..Len(x) : ~OfFlux(x[i])
<1>1. PICK h, u, d : h = Web!Unit(Header(k), n) /\ u = Web!Unit(k, n) /\ d = Web!Unit(done, 0)
    OBVIOUS
<1>2. PictureLength \in Nat \ {0} /\ n \in Nat /\ 0 \in Nat /\ n > 0
    BY PartsAssumption
<1>3. k \in {"current", "total"} /\ Header(k) \in {"current_frame", "total_frame"}
    BY DEF Pictures, Header
<1>4. h \in UnitType /\ u \in UnitType /\ d \in UnitType
    BY <1>1, <1>2, <1>3 DEF Web!Unit, UnitType, UnitNames
<1>5. /\ h.name = Header(k) /\ u.name = k /\ d.name = done
      /\ h.value = n /\ u.value = n
    BY <1>1 DEF Web!Unit
<1>6. PICK b : b = Web!Picture(k, n)
    OBVIOUS
<1>7. b \in Seq(UnitType) /\ Len(b) = PictureLength /\ \A i \in 1..PictureLength : b[i] = u
  <2>1. b = [i \in 1..PictureLength |-> u]
      BY <1>1, <1>6 DEF Web!Picture
  <2>2. QED
      BY <1>2, <1>4, <2>1
<1>8. PICK y : y = <<h>> \o b
    OBVIOUS
<1>9. /\ <<h>> \in Seq(UnitType) /\ Len(<<h>>) = 1 /\ <<h>>[1] = h
      /\ <<d>> \in Seq(UnitType) /\ Len(<<d>>) = 1 /\ <<d>>[1] = d
    BY <1>4
<1>10. /\ y \in Seq(UnitType) /\ Len(y) = 1 + PictureLength /\ y[1] = h
       /\ \A i \in 2..PictureLength + 1 : y[i] = u
  <2>1. /\ y \in Seq(UnitType) /\ Len(y) = 1 + PictureLength
        /\ \A i \in 1..Len(y) : \/ i \in 1..1 /\ y[i] = <<h>>[i]
                                \/ i - 1 \in 1..PictureLength /\ y[i] = b[i - 1]
    <3>1. PICK z : z = <<h>>
        OBVIOUS
    <3>2. /\ z \o b \in Seq(UnitType) /\ Len(z \o b) = Len(z) + Len(b)
          /\ \A i \in 1..Len(z \o b) :
               \/ i \in 1..Len(z) /\ (z \o b)[i] = z[i]
               \/ i - Len(z) \in 1..Len(b) /\ (z \o b)[i] = b[i - Len(z)]
        BY <1>7, <1>9, <3>1, Behind
    <3>3. Len(z) = 1 /\ Len(b) = PictureLength /\ y = z \o b
        BY <1>7, <1>8, <1>9, <3>1
    <3>4. QED
        BY <3>1, <3>2, <3>3
  <2>2. 1 \in 1..Len(y) /\ ~(1 - 1 \in 1..PictureLength)
      BY <1>2, <2>1
  <2>3. y[1] = h
      BY <1>9, <2>1, <2>2
  <2>4. \A i \in 2..PictureLength + 1 : i \in 1..Len(y) /\ ~(i \in 1..1)
      BY <1>2, <2>1
  <2>5. \A i \in 2..PictureLength + 1 : y[i] = u
      BY <1>7, <2>1, <2>4
  <2>6. QED
      BY <2>1, <2>3, <2>5
<1>11. /\ x \in Seq(UnitType) /\ Len(x) = PictureLength + 2 /\ x[1] = h
       /\ \A i \in 2..PictureLength + 1 : x[i] = u
       /\ x[PictureLength + 2] = d
  <2>1. x = y \o <<d>>
      BY <1>1, <1>6, <1>8
  <2>2. PICK l : l = 1 + PictureLength
      OBVIOUS
  <2>3. l \in Nat /\ l > 1
      BY <1>2, <2>2
  <2>4. /\ x \in Seq(UnitType) /\ Len(x) = l + 1
        /\ \A i \in 1..Len(x) : \/ i \in 1..l /\ x[i] = y[i]
                                \/ i - l \in 1..1 /\ x[i] = <<d>>[i - l]
    <3>1. PICK z : z = <<d>>
        OBVIOUS
    <3>2. /\ y \in Seq(UnitType) /\ z \in Seq(UnitType) /\ Len(y) = l /\ Len(z) = 1
          /\ x = y \o z
        BY <1>9, <1>10, <2>1, <2>2, <3>1
    <3>3. /\ y \o z \in Seq(UnitType) /\ Len(y \o z) = Len(y) + Len(z)
          /\ \A i \in 1..Len(y \o z) :
               \/ i \in 1..Len(y) /\ (y \o z)[i] = y[i]
               \/ i - Len(y) \in 1..Len(z) /\ (y \o z)[i] = z[i - Len(y)]
        BY <3>2, Behind
    <3>4. QED
        BY <3>1, <3>2, <3>3
  <2>5. \A i \in 1..l : i \in 1..Len(x) /\ ~(i - l \in 1..1)
      BY <2>3, <2>4
  <2>6. \A i \in 1..l : x[i] = y[i]
      BY <2>4, <2>5
  <2>7. l + 1 \in 1..Len(x) /\ ~(l + 1 \in 1..l) /\ (l + 1) - l = 1
      BY <2>3, <2>4
  <2>8. x[l + 1] = <<d>>[(l + 1) - l]
      BY <2>4, <2>7
  <2>9. x[l + 1] = d
      BY <1>9, <2>7, <2>8
  <2>10. /\ 1 \in 1..l /\ PictureLength + 2 = l + 1
         /\ \A i \in 2..PictureLength + 1 : i \in 1..l
      BY <1>2, <2>2
  <2>11. QED
      BY <1>10, <2>4, <2>6, <2>9, <2>10
<1>12. \A i \in 1..Len(x) : i = 1 \/ i \in 2..PictureLength + 1 \/ i = PictureLength + 2
    BY <1>2, <1>11
<1>13. OfPicture(h) /\ OfPicture(u) /\ ~OfPicture(d) /\ ~OfFlux(h) /\ ~OfFlux(u) /\ ~OfFlux(d)
    BY <1>3, <1>5 DEF OfPicture, OfFlux
<1>14. \A i \in 1..Len(x) : (OfPicture(x[i]) => x[i].value = n) /\ ~OfFlux(x[i])
    BY <1>5, <1>11, <1>12, <1>13
<1>15. ASSUME NEW i \in 1..Len(x), NEW j \in Pictures, x[i].name = Header(j)
       PROVE  /\ i + PictureLength <= Len(x)
              /\ \A l \in 1..PictureLength : x[i + l] = Web!Unit(j, x[i].value)
  <2>1. Header(j) \in {"current_frame", "total_frame"} /\ (Header(j) = Header(k) => j = k)
      BY DEF Header, Pictures
  <2>2. i = 1
      BY <1>3, <1>5, <1>11, <1>12, <1>15, <2>1
  <2>3. j = k /\ x[i].value = n
      BY <1>5, <1>11, <1>15, <2>1, <2>2
  <2>4. \A l \in 1..PictureLength : 1 + l \in 2..PictureLength + 1
      BY <1>2
  <2>5. \A l \in 1..PictureLength : x[1 + l] = u
      BY <1>11, <2>4
  <2>6. 1 + PictureLength <= Len(x)
      BY <1>2, <1>11
  <2>7. QED
      BY <1>1, <2>2, <2>3, <2>5, <2>6
<1>16. Whole(x, n)
    BY <1>2, <1>14, <1>15 DEF Whole
<1>17. QED
    BY <1>11, <1>14, <1>16

LEMMA AnswerIs ==
    ASSUME WebInv, NEW request
    PROVE  /\ Web!Answer(request) \in Seq(UnitType) /\ Whole(Web!Answer(request), nframes)
           /\ \A i \in 1..Len(Web!Answer(request)) : ~OfFlux(Web!Answer(request)[i])
<1>1. nframes \in Nat /\ (total => nframes \in Nat \ {0})
    BY DEF WebInv
<1>2. PICK x : x = Web!Answer(request)
    OBVIOUS
<1>3. CASE request = "get_status"
  <2>1. PICK v : v = IF acquisition THEN 1 ELSE 0
      OBVIOUS
  <2>2. x = <<Web!Unit("status", v)>> /\ v \in Nat /\ "status" \in UnitNames
      BY <1>2, <1>3, <2>1 DEF Web!Answer, UnitNames
  <2>3. QED
      BY <1>1, <1>2, <2>2, OneLine
<1>4. CASE request = "get_current_frame" /\ (nframes = 0 \/ ~acquisition)
  <2>1. x = <<Web!Unit("current_frame_timeout", 0)>> /\ 0 \in Nat /\ "current_frame_timeout" \in UnitNames
      BY <1>2, <1>4 DEF Web!Answer, UnitNames
  <2>2. QED
      BY <1>1, <1>2, <2>1, OneLine
<1>5. CASE request = "get_current_frame" /\ ~(nframes = 0 \/ ~acquisition)
  <2>1. /\ x = <<Web!Unit(Header("current"), nframes)>> \o Web!Picture("current", nframes)
                 \o <<Web!Unit("current_frame_done", 0)>>
        /\ nframes \in Nat \ {0} /\ "current" \in Pictures
      BY <1>1, <1>2, <1>5 DEF Web!Answer, Header, Pictures
  <2>2. QED
      BY <1>2, <2>1, OnePicture
<1>6. CASE request = "get_total_frame" /\ (~total \/ ~acquisition)
  <2>1. x = <<Web!Unit("total_frame_timeout", 0)>> /\ 0 \in Nat /\ "total_frame_timeout" \in UnitNames
      BY <1>2, <1>6 DEF Web!Answer, UnitNames
  <2>2. QED
      BY <1>1, <1>2, <2>1, OneLine
<1>7. CASE request = "get_total_frame" /\ ~(~total \/ ~acquisition)
  <2>1. /\ x = <<Web!Unit(Header("total"), nframes)>> \o Web!Picture("total", nframes)
                 \o <<Web!Unit("total_frame_done", 0)>>
        /\ nframes \in Nat \ {0} /\ "total" \in Pictures
      BY <1>1, <1>2, <1>7 DEF Web!Answer, Header, Pictures
  <2>2. QED
      BY <1>2, <2>1, OnePicture
<1>8. CASE request \notin {"get_status", "get_current_frame", "get_total_frame"}
  <2>1. x = <<>>
      BY <1>2, <1>8 DEF Web!Answer
  <2>2. x \in Seq(UnitType) /\ 1..Len(x) = {}
    <3>1. Len(x) = 0 /\ x \in Seq(UnitType)
        BY <2>1, EmptySeq
    <3>2. QED
        BY <3>1
  <2>3. QED
      BY <1>2, <2>2 DEF Whole
<1>9. QED
    BY <1>3, <1>4, <1>5, <1>6, <1>7, <1>8

LEMMA NewConnection ==
    ASSUME NEW n \in Nat
    PROVE  /\ WireOK(<<>>, n) /\ ProtocolOK(Web!Waiting(Web!NewProtocol), <<>>)
           /\ ObjectOK(Web!NewObject, <<>>, n)
<1>1. <<>> \in Seq(UnitType) /\ <<>> \in Seq(Nat) /\ Len(<<>>) = 0
    BY EmptySeq
<1>2. 1..Len(<<>>) = {}
    BY <1>1
<1>3. WireOK(<<>>, n)
    BY <1>1, <1>2 DEF WireOK, PicturesOK
<1>4. PICK p : p = Web!NewProtocol
    OBVIOUS
<1>5. ProtocolOK(Web!Waiting(p), <<>>)
  <2>1. p \in ProtocolType /\ ~p.is_binary /\ p.buffer = <<>>
      BY <1>1, <1>4 DEF Web!NewProtocol, ProtocolType
  <2>2. PICK z : z = [p EXCEPT !.wait_current = TRUE, !.wait_total = TRUE]
      OBVIOUS
  <2>3. z \in ProtocolType /\ z.is_binary = p.is_binary /\ z.buffer = p.buffer
      BY <2>1, <2>2 DEF ProtocolType
  <2>4. QED
      BY <2>1, <2>2, <2>3 DEF ProtocolOK, Web!Waiting
<1>6. ObjectOK(Web!NewObject, <<>>, n)
    BY <1>1, <1>2 DEF ObjectOK, ObjectType, ShownOK, Web!NewObject
<1>7. QED
    BY <1>3, <1>4, <1>5, <1>6

\* The formulas are of their arguments only.
LEMMA SamePages ==
    ASSUME WebInv, UNCHANGED <<nframes, connected, network, object>>, total' => total,
           connected => ProtocolOK(protocol', network)
    PROVE  WebInv'
<1>1. CASE connected
  <2>1. WireOK(network, nframes)' /\ ProtocolOK(protocol, network)' /\ ObjectOK(object, network, nframes)'
      BY <1>1 DEF WebInv, WireOK, PicturesOK, ProtocolOK, ObjectOK, NextFlux, Begun, ShownOK
  <2>2. QED
      BY <1>1, <2>1 DEF WebInv
<1>2. CASE ~connected
    BY <1>2 DEF WebInv, Web!NewObject
<1>3. QED
    BY <1>1, <1>2

LEMMA WebInit == Web!Init => WebInv
<1> SUFFICES ASSUME Web!Init PROVE WebInv
    OBVIOUS
<1>1. /\ nframes = 0 /\ total = FALSE /\ connected = FALSE /\ network = <<>>
      /\ object = Web!NewObject
    BY DEF Web!Init
<1>2. nframes \in Nat /\ connected \in BOOLEAN
    BY <1>1
<1>3. QED
    BY <1>1, <1>2 DEF WebInv

LEMMA WebConnect == ASSUME WebInv, Web!Connect PROVE WebInv'
<1>1. /\ ~connected /\ connected' /\ nframes' = nframes /\ total' = total /\ network' = <<>>
      /\ protocol' = Web!Waiting(Web!NewProtocol) /\ object' = Web!NewObject /\ nframes \in Nat
    BY DEF Web!Connect, Web!daemon, WebInv
<1>2. WireOK(network', nframes') /\ ProtocolOK(protocol', network') /\ ObjectOK(object', network', nframes')
    BY <1>1, NewConnection
<1>3. WireOK(network, nframes)' /\ ProtocolOK(protocol, network)' /\ ObjectOK(object, network, nframes)'
    BY <1>2 DEF WireOK, PicturesOK, ProtocolOK, ObjectOK, NextFlux, Begun, ShownOK
<1>4. connected' \in BOOLEAN
    BY DEF Web!Connect
<1>5. QED
    BY <1>1, <1>3, <1>4 DEF WebInv

LEMMA WebLose == ASSUME WebInv, Web!Lose PROVE WebInv'
BY DEF Web!Lose, Web!daemon, WebInv, Web!NewObject

LEMMA WebRequestStatus == ASSUME WebInv, Web!RequestStatus PROVE WebInv'
<1>1. /\ connected /\ protocol' = [protocol EXCEPT !.wait_current = TRUE, !.wait_total = TRUE]
      /\ UNCHANGED <<nframes, total, connected, network, object>>
    BY DEF Web!RequestStatus, Web!daemon, Web!Waiting
<1>2. ProtocolOK(protocol, network)
    BY <1>1 DEF WebInv
<1>3. /\ protocol' \in ProtocolType /\ protocol'.is_binary = protocol.is_binary
      /\ protocol'.buffer = protocol.buffer /\ protocol'.type = protocol.type
    BY <1>1, <1>2 DEF ProtocolOK, ProtocolType
<1>4. ProtocolOK(protocol', network)
    BY <1>2, <1>3 DEF ProtocolOK, Begun
<1>5. QED
    BY <1>1, <1>4, SamePages

LEMMA WebNewFrame == ASSUME WebInv, Web!NewFrame PROVE WebInv'
<1>1. /\ nframes' = nframes + 1 /\ total' /\ nframes \in Nat /\ connected \in BOOLEAN
      /\ network' = IF connected THEN Append(network, Web!Unit("current_flux", nframes + 1))
                    ELSE network
      /\ UNCHANGED <<connected, protocol, object>>
    BY DEF Web!NewFrame, WebInv
<1>2. nframes' \in Nat /\ nframes' > 0
    BY <1>1
<1>3. CASE connected
  <2>1. PICK x : x = <<Web!Unit("current_flux", nframes + 1)>>
      OBVIOUS
  <2>2. /\ WireOK(network, nframes) /\ ProtocolOK(protocol, network)
        /\ ObjectOK(object, network, nframes) /\ network \in Seq(UnitType)
      BY <1>3 DEF WebInv, WireOK
  <2>3. /\ x \in Seq(UnitType) /\ WireOK(network \o x, nframes + 1)
        /\ \A i \in 1..Len(x) : ~OfPicture(x[i])
      BY <1>1, <2>1, <2>2, FluxOfNewFrame
  <2>4. network' = network \o x
    <3>1. PICK u : u = Web!Unit("current_flux", nframes + 1)
        OBVIOUS
    <3>2. u \in UnitType
        BY <1>1, <3>1 DEF Web!Unit, UnitType, UnitNames
    <3>3. Append(network, u) = network \o <<u>>
        BY <2>2, <3>2, AppendIsConcat
    <3>4. QED
        BY <1>1, <1>3, <2>1, <3>1, <3>3
  <2>5. /\ WireOK(network', nframes') /\ ProtocolOK(protocol', network')
        /\ ObjectOK(object', network', nframes')
      BY <1>1, <2>1, <2>2, <2>3, <2>4, ProtocolBehind, ObjectBehind
  <2>6. WireOK(network, nframes)' /\ ProtocolOK(protocol, network)' /\ ObjectOK(object, network, nframes)'
      BY <2>5 DEF WireOK, PicturesOK, ProtocolOK, ObjectOK, NextFlux, Begun, ShownOK
  <2>7. QED
      BY <1>1, <1>2, <1>3, <2>6 DEF WebInv
<1>4. CASE ~connected
    BY <1>1, <1>2, <1>4 DEF WebInv, Web!NewObject
<1>5. QED
    BY <1>3, <1>4

LEMMA WebProcessCommand == ASSUME WebInv, Web!ProcessCommand PROVE WebInv'
<1>1. PICK x : x = Web!Answer(Head(requests))
    OBVIOUS
<1>2. /\ connected /\ network' = network \o x /\ (total' => total)
      /\ UNCHANGED <<nframes, connected, protocol, object>>
    BY <1>1 DEF Web!ProcessCommand
<1>3. /\ WireOK(network, nframes) /\ ProtocolOK(protocol, network) /\ nframes \in Nat
      /\ ObjectOK(object, network, nframes) /\ network \in Seq(UnitType)
    BY <1>2 DEF WebInv, WireOK
<1>4. x \in Seq(UnitType) /\ Whole(x, nframes) /\ \A i \in 1..Len(x) : ~OfFlux(x[i])
    BY <1>1, AnswerIs
<1>5. /\ WireOK(network', nframes') /\ ProtocolOK(protocol', network')
      /\ ObjectOK(object', network', nframes')
    BY <1>2, <1>3, <1>4, AnswerBehind, ProtocolBehind, ObjectBehind
<1>6. WireOK(network, nframes)' /\ ProtocolOK(protocol, network)' /\ ObjectOK(object, network, nframes)'
    BY <1>5 DEF WireOK, PicturesOK, ProtocolOK, ObjectOK, NextFlux, Begun, ShownOK
<1>7. connected' = connected /\ nframes' = nframes
    BY <1>2
<1>8. QED
    BY <1>2, <1>6, <1>7 DEF WebInv

LEMMA WebStep == WebInv /\ [Web!Next]_Web!vars => WebInv'
<1> SUFFICES ASSUME WebInv, [Web!Next]_Web!vars PROVE WebInv'
    OBVIOUS
<1>1. connected => ProtocolOK(protocol, network)
    BY DEF WebInv
<1>2. ASSUME NEW c, Web!Command(c) PROVE WebInv'
  <2>1. UNCHANGED <<nframes, total, connected, network, object, protocol>>
      BY <1>2 DEF Web!Command, Web!daemon
  <2>2. QED
      BY <1>1, <2>1, SamePages
<1>3. CASE UNCHANGED Web!vars
  <2>1. UNCHANGED <<nframes, total, connected, network, object, protocol>>
      BY <1>3 DEF Web!vars, Web!daemon
  <2>2. QED
      BY <1>1, <2>1, SamePages
<1>4. QED
    BY <1>2, <1>3, WebConnect, WebLose, WebRequestStatus, WebDataReceived, WebNewFrame,
       WebProcessCommand DEF Web!Next

LEMMA WebInvImplies == WebInv => Web!PagesAreTrue
<1> SUFFICES ASSUME WebInv PROVE Web!PagesAreTrue
    OBVIOUS
<1>1. CASE ~connected
  <2>1. object.image = None /\ object.total_image = None /\ object.series = <<>>
      BY <1>1 DEF WebInv, Web!NewObject
  <2>2. DOMAIN object.series = {}
      BY <2>1
  <2>3. QED
      BY <2>1, <2>2 DEF Web!PagesAreTrue, Web!Page
<1>2. CASE connected
  <2>1. /\ network \in Seq(UnitType) /\ object \in ObjectType
        /\ ShownOK(object.image, "current", network, nframes)
        /\ ShownOK(object.total_image, "total", network, nframes)
        /\ \A i \in 1..Len(object.series) : object.series[i] = object.series[1] + i - 1
      BY <1>2 DEF WebInv, WireOK, ObjectOK
  <2>2. DOMAIN network = 1..Len(network) /\ DOMAIN object.series = 1..Len(object.series)
      BY <2>1, LenProperties DEF ObjectType
  <2>3. ASSUME NEW k \in Pictures, NEW picture, ShownOK(picture, k, network, nframes),
               picture # None
        PROVE  \E n \in 1..nframes : /\ picture = Web!Picture(k, n)
                                     /\ \A i \in Web!InWire(k) : n <= network[i].value
    <3>1. PICK n \in 1..nframes : /\ picture = Web!Picture(k, n)
                                  /\ \A i \in 1..Len(network) :
                                       OfPicture(network[i]) => n <= network[i].value
        BY <2>3 DEF ShownOK
    <3>2. \A i \in Web!InWire(k) : i \in 1..Len(network) /\ OfPicture(network[i])
        BY <2>2 DEF Web!InWire, OfPicture, Pictures
    <3>3. QED
        BY <3>1, <3>2
  <2>4. "current" \in Pictures /\ "total" \in Pictures
      BY DEF Pictures
  <2>5. QED
      BY <2>1, <2>2, <2>3, <2>4 DEF Web!PagesAreTrue, Web!Page
<1>3. QED
    BY <1>1, <1>2 DEF WebInv

-----------------------------------------------------------------------------
(* The dates of the calendar.  Years are counted from March, as they are in *)
(* time_str_get_JD, so that the day by which leap years differ is the last. *)

Dates ==
    {d \in [year : Nat, month : Nat, day : Nat] :
        1583 <= d.year /\ 1 <= d.month /\ d.month <= 12 /\ 1 <= d.day /\ d.day <= Cal!DaysIn(d)}
CalendarInv == date \in Dates /\ date.year <= LastYear /\ hour \in {0, 13}

\* The days of the months in front of it, for a month that is counted from
\* March, as it is in time_str_get_JD.
MonthDays(month) == (306001 * (month + 1)) \div 10000

LEMMA DateFields ==
    ASSUME NEW d \in Dates
    PROVE  /\ d.year \in Nat /\ d.month \in Nat /\ d.day \in Nat
           /\ 1583 <= d.year /\ 1 <= d.month /\ d.month <= 12 /\ 1 <= d.day
           /\ d.day <= Cal!DaysIn(d) /\ d = Cal!Date(d.year, d.month, d.day)
BY DEF Dates, Cal!Date

LEMMA FieldsOfDate ==
    ASSUME NEW y, NEW m, NEW n
    PROVE  /\ Cal!Date(y, m, n).year = y /\ Cal!Date(y, m, n).month = m
           /\ Cal!Date(y, m, n).day = n
BY DEF Cal!Date

\* The lengths of the months.
LEMMA MonthLengths ==
    /\ Cal!days_in_months[1] = 31 /\ Cal!days_in_months[2] = 28 /\ Cal!days_in_months[3] = 31
    /\ Cal!days_in_months[4] = 30 /\ Cal!days_in_months[5] = 31 /\ Cal!days_in_months[6] = 30
    /\ Cal!days_in_months[7] = 31 /\ Cal!days_in_months[8] = 31 /\ Cal!days_in_months[9] = 30
    /\ Cal!days_in_months[10] = 31 /\ Cal!days_in_months[11] = 30
    /\ Cal!days_in_months[12] = 31
BY DEF Cal!days_in_months

LEMMA DaysOf ==
    ASSUME NEW d \in Dates
    PROVE  Cal!DaysIn(d) = IF d.month = 2 THEN IF Cal!IsLeap(d.year) THEN 29 ELSE 28
                           ELSE IF d.month \in {4, 6, 9, 11} THEN 30 ELSE 31
<1>1. d.month \in Nat /\ 1 <= d.month /\ d.month <= 12
    BY DateFields
<1>2. QED
    BY <1>1, MonthLengths DEF Cal!DaysIn

\* The number of a day, with the years and the months counted from March.
FromMarch(year, month, day) ==
    365 * year + year \div 4 - year \div 100 + year \div 400 + MonthDays(month) + day + 1720997

LEMMA JulianDay ==
    ASSUME NEW d \in Dates
    PROVE  Cal!TimeStrGetJD(d) = IF d.month <= 2 THEN FromMarch(d.year - 1, d.month + 12, d.day)
                                 ELSE FromMarch(d.year, d.month, d.day)
<1>1. /\ d.year \in Nat /\ d.month \in Nat /\ d.day \in Nat
      /\ 1583 <= d.year /\ 1 <= d.month /\ d.month <= 12 /\ 1 <= d.day
    BY DateFields
<1>2. ~(10000 * d.year + 100 * d.month + d.day <= 15821004)
    BY <1>1
<1>3. CASE d.month <= 2
  <2>1. PICK y, m : y = d.year - 1 /\ m = d.month + 12
      OBVIOUS
  <2>2. /\ y \in Int /\ y \div 400 \in Int /\ y \div 100 \in Int /\ y \div 4 \in Int
        /\ MonthDays(m) \in Int
      BY <1>1, <2>1 DEF MonthDays
  <2>3. Cal!TimeStrGetJD(d) = 365 * y - 679004 + (y \div 400 - y \div 100 + y \div 4)
                                + MonthDays(m) + d.day + 2400001
      BY <1>2, <1>3, <2>1 DEF Cal!TimeStrGetJD, Cal!Shifted, MonthDays
  <2>4. QED
      BY <1>1, <1>3, <2>1, <2>2, <2>3 DEF FromMarch
<1>4. CASE ~(d.month <= 2)
  <2>1. PICK y, m : y = d.year /\ m = d.month
      OBVIOUS
  <2>2. /\ y \in Int /\ y \div 400 \in Int /\ y \div 100 \in Int /\ y \div 4 \in Int
        /\ MonthDays(m) \in Int
      BY <1>1, <2>1 DEF MonthDays
  <2>3. Cal!TimeStrGetJD(d) = 365 * y - 679004 + (y \div 400 - y \div 100 + y \div 4)
                                + MonthDays(m) + d.day + 2400001
      BY <1>2, <1>4, <2>1 DEF Cal!TimeStrGetJD, Cal!Shifted, MonthDays
  <2>4. QED
      BY <1>1, <1>4, <2>1, <2>2, <2>3 DEF FromMarch
<1>5. QED
    BY <1>3, <1>4

\* The months by day of a year that begins in March, without which day of
\* them it is.
LEMMA MonthsFromMarch ==
    /\ MonthDays(3) = 122 /\ MonthDays(4) = 153 /\ MonthDays(5) = 183 /\ MonthDays(6) = 214
    /\ MonthDays(7) = 244 /\ MonthDays(8) = 275 /\ MonthDays(9) = 306 /\ MonthDays(10) = 336
    /\ MonthDays(11) = 367 /\ MonthDays(12) = 397 /\ MonthDays(13) = 428
    /\ MonthDays(14) = 459
BY DEF MonthDays

\* A date in a year that begins in March: its year, month and day there.
Marched(y, m, n) ==
    /\ y \in Nat /\ m \in Nat /\ n \in Nat
    /\ 1582 <= y /\ 3 <= m /\ m <= 14 /\ 1 <= n
    /\ n <= CASE m \in {4, 6, 9, 11} -> 30
              [] m = 14 -> (IF Cal!IsLeap(y + 1) THEN 29 ELSE 28)
              [] OTHER -> 31

LEMMA MarchedDates ==
    ASSUME NEW d \in Dates
    PROVE  IF d.month <= 2 THEN Marched(d.year - 1, d.month + 12, d.day)
                           ELSE Marched(d.year, d.month, d.day)
<1>1. /\ d.year \in Nat /\ d.month \in Nat /\ d.day \in Nat
      /\ 1583 <= d.year /\ 1 <= d.month /\ d.month <= 12 /\ 1 <= d.day
      /\ d.day <= Cal!DaysIn(d) /\ (d.year - 1) + 1 = d.year
    BY DateFields
<1>2. QED
    BY <1>1, DaysOf DEF Marched

\* The day of such a year.
LEMMA DayOfYear ==
    ASSUME NEW y, NEW m, NEW n, Marched(y, m, n)
    PROVE  /\ MonthDays(m) \in Int /\ 0 <= MonthDays(m) + n - 123 /\ MonthDays(m) + n - 123 <= 365
           /\ MonthDays(m) + n - 123 = 365 => Cal!IsLeap(y + 1)
<1>1. y \in Nat /\ m \in Nat /\ n \in Nat /\ 1582 <= y /\ 3 <= m /\ m <= 14 /\ 1 <= n
    BY DEF Marched
<1>2. MonthDays(m) \in Int
    BY <1>1, MonthsFromMarch
<1>3. CASE m = 14
    BY <1>1, <1>3, MonthsFromMarch DEF Marched
<1>4. CASE m # 14
    BY <1>1, <1>4, MonthsFromMarch DEF Marched
<1>5. QED
    BY <1>2, <1>3, <1>4

\* Years in a century, four years, and what is left of them.
LEMMA YearParts ==
    ASSUME NEW y \in Nat
    PROVE  \E c \in Nat, r \in Nat, c4 \in Nat, e \in Nat, r4 \in Nat, f \in Nat :
             /\ r <= 99 /\ e <= 3 /\ f <= 3
             /\ y = 100 * c + r /\ c = 4 * c4 + e /\ r = 4 * r4 + f
             /\ y \div 100 = c /\ y \div 400 = c4 /\ y \div 4 = 25 * c + r4
             /\ r \div 4 = r4 /\ c \div 4 = c4
             /\ Cal!IsLeap(y + 1) <=> f = 3 /\ (r # 99 \/ e = 3)
<1>1. PICK c, r, c4, e, r4, f :
        /\ c = y \div 100 /\ r = y % 100 /\ c4 = c \div 4 /\ e = c % 4
        /\ r4 = r \div 4 /\ f = r % 4
    OBVIOUS
<1>2. c \in Nat /\ r \in Nat /\ r <= 99 /\ y = 100 * c + r
    BY <1>1
<1>3. c4 \in Nat /\ e \in Nat /\ e <= 3 /\ c = 4 * c4 + e
    BY <1>1, <1>2
<1>4. r4 \in Nat /\ f \in Nat /\ f <= 3 /\ r = 4 * r4 + f
    BY <1>1, <1>2
<1>5. y \div 400 = c4 /\ y \div 4 = 25 * c + r4
    BY <1>2, <1>3, <1>4
<1>6. (y + 1) % 4 = 0 <=> f = 3
    BY <1>2, <1>3, <1>4
<1>7. (y + 1) % 100 = 0 <=> r = 99
    BY <1>2
<1>8. r = 99 => ((y + 1) % 400 = 0 <=> e = 3)
    BY <1>2, <1>3
<1>9. r # 99 => (y + 1) % 400 # 0
    BY <1>2, <1>3
<1>10. Cal!IsLeap(y + 1) <=> f = 3 /\ (r # 99 \/ e = 3)
    BY <1>6, <1>7, <1>8, <1>9 DEF Cal!IsLeap
<1>11. QED
    BY <1>1, <1>2, <1>3, <1>4, <1>5, <1>10
\* A quotient is known by its bounds.
LEMMA QuotientIs ==
    ASSUME NEW u \in Int, NEW t \in Nat \ {0}, NEW q \in Int, t * q <= u, u < t * q + t
    PROVE  u \div t = q
OBVIOUS

\* The number of a day, from the century and the year in it.
LEMMA DayInCentury ==
    ASSUME NEW c \in Nat, NEW r \in Nat, NEW c4 \in Nat, NEW e \in Nat, NEW r4 \in Nat,
           NEW f \in Nat, NEW t \in Nat, NEW jd \in Int,
           r <= 99, e <= 3, f <= 3, t <= 365, c = 4 * c4 + e, r = 4 * r4 + f,
           t = 365 => f = 3 /\ (r # 99 \/ e = 3),
           jd = 365 * (100 * c + r) + (25 * c + r4) - c + c4 + t + 123 + 1720997
    PROVE  LET k1 == jd + 68569
               n == (4 * k1) \div 146097
               k2 == k1 - (146097 * n + 3) \div 4
               m == (4000 * (k2 + 1)) \div 1461001
           IN  n = c + 49 /\ m = r /\ k2 - (1461 * m) \div 4 + 31 = t + 31
<1>1. PICK k1 : k1 = jd + 68569
    OBVIOUS
<1>2. PICK s : s = 365 * r + r4 + t
    OBVIOUS
<1>3. s \in Nat /\ s <= 36524 /\ (s = 36524 => e = 3)
    BY <1>2
<1>4. k1 \in Int /\ k1 = 36524 * c + c4 + s + 1789689
    BY <1>1, <1>2
<1>5. (4 * k1) \div 146097 = c + 49
  <2>1. 146097 * (c + 49) <= 4 * k1 /\ 4 * k1 < 146097 * (c + 49) + 146097
      BY <1>3, <1>4
  <2>2. QED
      BY <1>4, <2>1, QuotientIs
<1>6. (146097 * (c + 49) + 3) \div 4 = 36524 * c + c4 + 1789689
    BY QuotientIs
<1>7. k1 - (146097 * (c + 49) + 3) \div 4 = s
    BY <1>3, <1>4, <1>6
<1>8. (4000 * (s + 1)) \div 1461001 = r
  <2>1. 1461001 * r <= 4000 * (s + 1) /\ 4000 * (s + 1) < 1461001 * r + 1461001
      BY <1>2
  <2>2. QED
      BY <1>3, <2>1, QuotientIs
<1>9. (1461 * r) \div 4 = 365 * r + r4
    BY QuotientIs
<1>10. s - (1461 * r) \div 4 + 31 = t + 31
    BY <1>2, <1>3, <1>9
<1>11. QED
    BY <1>1, <1>5, <1>7, <1>8, <1>10

\* The month and the day of a day of a year that begins in March.
LEMMA MonthOfDay ==
    ASSUME NEW y, NEW m, NEW n, Marched(y, m, n)
    PROVE  LET k3 == MonthDays(m) + n - 123 + 31
               month == (80 * k3) \div 2447
           IN  /\ month = m - 2 /\ k3 - (2447 * month) \div 80 = n
               /\ month \div 11 = IF m > 12 THEN 1 ELSE 0
<1>1. PICK k3 : k3 = MonthDays(m) + n - 123 + 31
    OBVIOUS
<1>2. y \in Nat /\ m \in Nat /\ n \in Nat /\ 1582 <= y /\ 3 <= m /\ m <= 14 /\ 1 <= n
    BY DEF Marched
<1>3. /\ m \in {4, 6, 9, 11} => n <= 30
      /\ m = 14 => n <= 29
      /\ n <= 31
    BY <1>2 DEF Marched
<1>4. k3 \in Int
    BY <1>1, <1>2, MonthsFromMarch
<1>5. 2447 * (m - 2) <= 80 * k3 /\ 80 * k3 < 2447 * (m - 2) + 2447
    BY <1>1, <1>2, <1>3, MonthsFromMarch
<1>6. (80 * k3) \div 2447 = m - 2
    BY <1>2, <1>4, <1>5, QuotientIs
<1>7. (2447 * (m - 2)) \div 80 = MonthDays(m) - 123 + 31
    BY <1>2, MonthsFromMarch
<1>8. k3 - (2447 * (m - 2)) \div 80 = n
    BY <1>1, <1>2, <1>7, MonthsFromMarch
<1>9. (m - 2) \div 11 = IF m > 12 THEN 1 ELSE 0
    BY <1>2
<1>10. QED
    BY <1>1, <1>6, <1>8, <1>9

\* time_str_from_JD from each of its values on.
FromMonth(n, m, k3, month) ==
    Cal!Date(100 * (n - 49) + m + month \div 11, month + 2 - 12 * (month \div 11),
             k3 - (2447 * month) \div 80)
FromK3(n, m, k3) == FromMonth(n, m, k3, (80 * k3) \div 2447)
FromM(n, k2, m) == FromK3(n, m, k2 - (1461 * m) \div 4 + 31)
FromK2(n, k2) == FromM(n, k2, (4000 * (k2 + 1)) \div 1461001)
FromN(k1, n) == FromK2(n, k1 - (146097 * n + 3) \div 4)
FromK1(k1) == FromN(k1, (4 * k1) \div 146097)

LEMMA FromJDSteps ==
    ASSUME NEW jd
    PROVE  Cal!TimeStrFromJD(jd) = FromK1(jd + 68569)
BY DEF Cal!TimeStrFromJD, FromK1, FromN, FromK2, FromM, FromK3, FromMonth

\* time_str_from_JD gives back the date.
LEMMA FromMarchAndBack ==
    ASSUME NEW y, NEW m, NEW n, Marched(y, m, n)
    PROVE  Cal!TimeStrFromJD(FromMarch(y, m, n))
             = IF m > 12 THEN Cal!Date(y + 1, m - 12, n) ELSE Cal!Date(y, m, n)
<1>1. y \in Nat /\ m \in Nat /\ n \in Nat /\ 1582 <= y /\ 3 <= m /\ m <= 14 /\ 1 <= n
    BY DEF Marched
<1>2. PICK t : t = MonthDays(m) + n - 123
    OBVIOUS
<1>3. t \in Nat /\ t <= 365 /\ (t = 365 => Cal!IsLeap(y + 1)) /\ MonthDays(m) + n = t + 123
    BY <1>1, <1>2, DayOfYear
<1>4. PICK c \in Nat, r \in Nat, c4 \in Nat, e \in Nat, r4 \in Nat, f \in Nat :
             /\ r <= 99 /\ e <= 3 /\ f <= 3
             /\ y = 100 * c + r /\ c = 4 * c4 + e /\ r = 4 * r4 + f
             /\ y \div 100 = c /\ y \div 400 = c4 /\ y \div 4 = 25 * c + r4
             /\ r \div 4 = r4 /\ c \div 4 = c4
             /\ Cal!IsLeap(y + 1) <=> f = 3 /\ (r # 99 \/ e = 3)
    BY <1>1, YearParts
<1>5. PICK jd : jd = FromMarch(y, m, n)
    OBVIOUS
<1>6. jd = 365 * (100 * c + r) + (25 * c + r4) - c + c4 + t + 123 + 1720997
    BY <1>1, <1>3, <1>4, <1>5, DayOfYear DEF FromMarch
<1>7. PICK k1 : k1 = jd + 68569
    OBVIOUS
<1>8. PICK k2 : k2 = k1 - (146097 * (c + 49) + 3) \div 4
    OBVIOUS
<1>9. PICK n4, k3, month, k4 : n4 = c + 49 /\ k3 = t + 31 /\ month = m - 2 /\ k4 = (m - 2) \div 11
    OBVIOUS
<1>10. /\ (4 * k1) \div 146097 = c + 49 /\ (4000 * (k2 + 1)) \div 1461001 = r
       /\ k2 - (1461 * r) \div 4 + 31 = t + 31
  <2>1. jd \in Int
      BY <1>6
  <2>2. t = 365 => f = 3 /\ (r # 99 \/ e = 3)
      BY <1>3, <1>4
  <2>3. QED
      BY <1>3, <1>4, <1>6, <1>7, <1>8, <2>1, <2>2, DayInCentury
<1>11. /\ (80 * (t + 31)) \div 2447 = m - 2 /\ t + 31 - (2447 * (m - 2)) \div 80 = n
       /\ (m - 2) \div 11 = IF m > 12 THEN 1 ELSE 0
    BY <1>2, MonthOfDay
<1>12. /\ (4 * k1) \div 146097 = n4 /\ (4000 * (k2 + 1)) \div 1461001 = r
       /\ k2 = k1 - (146097 * n4 + 3) \div 4 /\ k2 - (1461 * r) \div 4 + 31 = k3
       /\ (80 * k3) \div 2447 = month /\ k3 - (2447 * month) \div 80 = n /\ month \div 11 = k4
  <2>1. c + 49 = n4 /\ t + 31 = k3 /\ m - 2 = month
      BY <1>9
  <2>2. (4 * k1) \div 146097 = n4 /\ (4000 * (k2 + 1)) \div 1461001 = r
      BY <1>10, <2>1
  <2>3. k2 = k1 - (146097 * n4 + 3) \div 4
      BY <1>8, <2>1
  <2>4. k2 - (1461 * r) \div 4 + 31 = k3
      BY <1>10, <2>1
  <2>5. (80 * k3) \div 2447 = month
      BY <1>11, <2>1
  <2>6. k3 - (2447 * month) \div 80 = n
    <3>1. (2447 * (m - 2)) \div 80 = (2447 * month) \div 80
        BY <2>1
    <3>2. (2447 * month) \div 80 \in Int
        BY <1>1, <2>1
    <3>3. QED
        BY <1>1, <1>3, <1>11, <2>1, <3>1, <3>2
  <2>7. month \div 11 = k4
      BY <1>9, <2>1
  <2>8. QED
      BY <2>2, <2>3, <2>4, <2>5, <2>6, <2>7
<1>13. Cal!TimeStrFromJD(jd) = Cal!Date(100 * (n4 - 49) + r + k4, month + 2 - 12 * k4, n)
  <2>1. Cal!TimeStrFromJD(jd) = FromK1(k1)
      BY <1>7, FromJDSteps
  <2>2. FromK1(k1) = FromN(k1, n4)
      BY <1>12 DEF FromK1
  <2>3. FromN(k1, n4) = FromK2(n4, k2)
      BY <1>12 DEF FromN
  <2>4. FromK2(n4, k2) = FromM(n4, k2, r)
      BY <1>12 DEF FromK2
  <2>5. FromM(n4, k2, r) = FromK3(n4, r, k3)
      BY <1>12 DEF FromM
  <2>6. FromK3(n4, r, k3) = FromMonth(n4, r, k3, month)
      BY <1>12 DEF FromK3
  <2>7. FromMonth(n4, r, k3, month)
          = Cal!Date(100 * (n4 - 49) + r + k4, month + 2 - 12 * k4, n)
      BY <1>12 DEF FromMonth
  <2>8. QED
      BY <2>1, <2>2, <2>3, <2>4, <2>5, <2>6, <2>7
<1>14. CASE m > 12
  <2>1. 100 * (n4 - 49) + r + k4 = y + 1 /\ month + 2 - 12 * k4 = m - 12
      BY <1>1, <1>4, <1>9, <1>11, <1>14
  <2>2. QED
      BY <1>5, <1>13, <1>14, <2>1
<1>15. CASE ~(m > 12)
  <2>1. 100 * (n4 - 49) + r + k4 = y /\ month + 2 - 12 * k4 = m
      BY <1>1, <1>4, <1>9, <1>11, <1>15
  <2>2. QED
      BY <1>5, <1>13, <1>15, <2>1
<1>16. QED
    BY <1>14, <1>15

LEMMA JulianDayAndBack ==
    ASSUME NEW d \in Dates
    PROVE  Cal!TimeStrFromJD(Cal!TimeStrGetJD(d)) = d
<1>1. /\ d.year \in Nat /\ d.month \in Nat /\ d.day \in Nat /\ 1 <= d.month
      /\ d = Cal!Date(d.year, d.month, d.day)
    BY DateFields
<1>2. CASE d.month <= 2
  <2>1. /\ d.month + 12 > 12 /\ d.month + 12 - 12 = d.month /\ d.year - 1 + 1 = d.year
      BY <1>1
  <2>2. Marched(d.year - 1, d.month + 12, d.day)
      BY <1>2, MarchedDates
  <2>3. Cal!TimeStrGetJD(d) = FromMarch(d.year - 1, d.month + 12, d.day)
      BY <1>2, JulianDay
  <2>4. QED
      BY <1>1, <2>1, <2>2, <2>3, FromMarchAndBack
<1>3. CASE ~(d.month <= 2)
  <2>1. Marched(d.year, d.month, d.day) /\ Cal!TimeStrGetJD(d) = FromMarch(d.year, d.month, d.day)
      BY <1>3, MarchedDates, JulianDay
  <2>2. ~(d.month > 12)
      BY <1>1, DateFields
  <2>3. QED
      BY <1>1, <2>1, <2>2, FromMarchAndBack
<1>4. QED
    BY <1>2, <1>3
\* The number of a frame gives back the date and the hour.
LEMMA UuidAndBack ==
    ASSUME NEW d \in Dates, NEW h \in Nat, d.year <= 9999, h <= 99
    PROVE  Cal!TimeStrFromUuid(Cal!TimeStrGetUuid(d, h)) = <<d, h>>
<1>1. /\ d.year \in Nat /\ d.month \in Nat /\ d.day \in Nat /\ d.month <= 12 /\ d.day <= 31
      /\ d = Cal!Date(d.year, d.month, d.day)
    BY DateFields, DaysOf
<1>2. PICK u : u = (d.year * 100 + d.month) * 100 + d.day
    OBVIOUS
<1>3. u \in Nat /\ u % 100 = d.day
    BY <1>1, <1>2
<1>4. (u \div 100) = d.year * 100 + d.month /\ u \div 10000 = d.year
    BY <1>1, <1>2
<1>5. (u \div 10000) % 10000 = d.year /\ (u \div 100) % 100 = d.month
    BY <1>1, <1>4
<1>6. ((h * 10000000) \div 10000000) % 100 = h
    OBVIOUS
<1>7. Cal!TimeStrGetUuid(d, h) = <<u, h * 10000000>>
    BY <1>2 DEF Cal!TimeStrGetUuid
<1>8. <<u, h * 10000000>>[1] = u /\ <<u, h * 10000000>>[2] = h * 10000000
    OBVIOUS
<1>9. QED
    BY <1>1, <1>3, <1>5, <1>6, <1>7, <1>8 DEF Cal!TimeStrFromUuid

\* A text is read from either end.
LEMMA TextAndBack ==
    ASSUME NEW d \in Dates
    PROVE  /\ Cal!TimeStrSetDate(Cal!TimeStrGetDate(d)) = d
           /\ Cal!TimeStrSetDate(<<d.day, d.month, d.year>>) = d
<1>1. /\ d.year \in Nat /\ d.month \in Nat /\ d.day \in Nat /\ 1583 <= d.year /\ d.day <= 31
      /\ d = Cal!Date(d.year, d.month, d.day)
    BY DateFields, DaysOf
<1>2. QED
    BY <1>1 DEF Cal!TimeStrSetDate, Cal!TimeStrGetDate

\* The date after a date.
LEMMA DayAfterCases ==
    ASSUME NEW d \in Dates
    PROVE  \/ d.day < Cal!DaysIn(d) /\ Cal!DayAfter(d) = Cal!Date(d.year, d.month, d.day + 1)
           \/ /\ d.day = Cal!DaysIn(d) /\ d.month < 12
              /\ Cal!DayAfter(d) = Cal!Date(d.year, d.month + 1, 1)
           \/ d.day = Cal!DaysIn(d) /\ d.month = 12 /\ Cal!DayAfter(d) = Cal!Date(d.year + 1, 1, 1)
<1>1. /\ d.month \in Nat /\ d.month <= 12 /\ d.day \in Nat /\ d.day <= Cal!DaysIn(d)
      /\ Cal!DaysIn(d) \in Nat
    BY DateFields, DaysOf
<1>2. QED
    BY <1>1 DEF Cal!DayAfter

LEMMA DatesOf ==
    ASSUME NEW y \in Nat, NEW m \in Nat, NEW n \in Nat, 1583 <= y, 1 <= m, m <= 12, 1 <= n,
           n <= 28 \/ n <= Cal!DaysIn(Cal!Date(y, m, n))
    PROVE  Cal!Date(y, m, n) \in Dates
<1>1. PICK d : d = Cal!Date(y, m, n)
    OBVIOUS
<1>2. d.year = y /\ d.month = m /\ d.day = n /\ d \in [year : Nat, month : Nat, day : Nat]
    BY <1>1 DEF Cal!Date
<1>3. 28 <= Cal!DaysIn(d) /\ Cal!DaysIn(d) \in Nat
    BY <1>2, MonthLengths DEF Cal!DaysIn
<1>4. QED
    BY <1>1, <1>2, <1>3 DEF Dates

LEMMA DayAfterIsDate ==
    ASSUME NEW d \in Dates
    PROVE  Cal!DayAfter(d) \in Dates
<1>1. /\ d.year \in Nat /\ d.month \in Nat /\ d.day \in Nat
      /\ 1583 <= d.year /\ 1 <= d.month /\ d.month <= 12 /\ 1 <= d.day
      /\ Cal!DaysIn(d) \in Nat
    BY DateFields, DaysOf
<1>2. CASE d.day < Cal!DaysIn(d) /\ Cal!DayAfter(d) = Cal!Date(d.year, d.month, d.day + 1)
  <2>1. Cal!DaysIn(Cal!Date(d.year, d.month, d.day + 1)) = Cal!DaysIn(d)
      BY FieldsOfDate DEF Cal!DaysIn
  <2>2. QED
      BY <1>1, <1>2, <2>1, DatesOf
<1>3. CASE d.month < 12 /\ Cal!DayAfter(d) = Cal!Date(d.year, d.month + 1, 1)
    BY <1>1, <1>3, DatesOf
<1>4. CASE Cal!DayAfter(d) = Cal!Date(d.year + 1, 1, 1)
    BY <1>1, <1>4, DatesOf
<1>5. QED
    BY <1>2, <1>3, <1>4, DayAfterCases

\* A year has one day more in it when it is a leap year.
LEMMA LeapDays ==
    ASSUME NEW y \in Nat, 1583 <= y
    PROVE  y \div 4 - y \div 100 + y \div 400
             = (y - 1) \div 4 - (y - 1) \div 100 + (y - 1) \div 400
                 + IF Cal!IsLeap(y) THEN 1 ELSE 0
<1>1. y \div 4 = (y - 1) \div 4 + IF y % 4 = 0 THEN 1 ELSE 0
    OBVIOUS
<1>2. y \div 100 = (y - 1) \div 100 + IF y % 100 = 0 THEN 1 ELSE 0
    OBVIOUS
<1>3. y \div 400 = (y - 1) \div 400 + IF y % 400 = 0 THEN 1 ELSE 0
    OBVIOUS
<1>4. (y % 400 = 0 => y % 100 = 0) /\ (y % 100 = 0 => y % 4 = 0)
    OBVIOUS
<1>5. QED
    BY <1>1, <1>2, <1>3, <1>4 DEF Cal!IsLeap

\* The number of the last day of February and that of the first of March.
LEMMA EndOfFebruary ==
    ASSUME NEW y \in Nat, NEW n \in Nat, 1583 <= y, n = IF Cal!IsLeap(y) THEN 29 ELSE 28
    PROVE  FromMarch(y, 3, 1) = FromMarch(y - 1, 14, n) + 1
<1>1. PICK q, p : q = y \div 4 - y \div 100 + y \div 400
                  /\ p = (y - 1) \div 4 - (y - 1) \div 100 + (y - 1) \div 400
    OBVIOUS
<1>2. q \in Int /\ p \in Int /\ q = p + n - 28
    BY <1>1, LeapDays
<1>3. FromMarch(y, 3, 1) = 365 * y + q + 122 + 1 + 1720997
    BY <1>1, MonthsFromMarch DEF FromMarch
<1>4. FromMarch(y - 1, 14, n) = 365 * (y - 1) + p + 459 + n + 1720997
    BY <1>1, MonthsFromMarch DEF FromMarch
<1>5. QED
    BY <1>2, <1>3, <1>4

\* In a year that begins in March, the number grows with the day and, at the
\* end of a month, with the month.
MonthEnds(m, n) == n = IF m \in {4, 6, 9, 11} THEN 30 ELSE 31

LEMMA WithinMonth ==
    ASSUME NEW y \in Int, NEW m \in Nat, NEW n \in Nat, NEW j \in Nat, 3 <= m, m <= 14, j = n + 1
    PROVE  FromMarch(y, m, j) = FromMarch(y, m, n) + 1
<1>1. PICK q : q = 365 * y + y \div 4 - y \div 100 + y \div 400
    OBVIOUS
<1>2. q \in Int /\ MonthDays(m) \in Int
    BY <1>1, MonthsFromMarch
<1>3. FromMarch(y, m, j) = q + MonthDays(m) + j + 1720997
      /\ FromMarch(y, m, n) = q + MonthDays(m) + n + 1720997
    BY <1>1 DEF FromMarch
<1>4. QED
    BY <1>2, <1>3

LEMMA EndOfMonth ==
    ASSUME NEW y \in Int, NEW m \in Nat, NEW k \in Nat, NEW n \in Nat, 3 <= m, m <= 13, k = m + 1,
           MonthEnds(m, n)
    PROVE  FromMarch(y, k, 1) = FromMarch(y, m, n) + 1
<1>1. PICK q : q = 365 * y + y \div 4 - y \div 100 + y \div 400
    OBVIOUS
<1>2. q \in Int /\ MonthDays(m) \in Int
    BY <1>1, MonthsFromMarch
<1>3. FromMarch(y, k, 1) = q + MonthDays(k) + 1 + 1720997
      /\ FromMarch(y, m, n) = q + MonthDays(m) + n + 1720997
    BY <1>1 DEF FromMarch
<1>4. MonthDays(k) = MonthDays(m) + n
    BY MonthsFromMarch DEF MonthEnds
<1>5. QED
    BY <1>2, <1>3, <1>4

\* The number of a day counts the days.
LEMMA DaysAreCounted ==
    ASSUME NEW d \in Dates
    PROVE  Cal!TimeStrGetJD(Cal!DayAfter(d)) = Cal!TimeStrGetJD(d) + 1
<1>1. PICK a : a = Cal!DayAfter(d)
    OBVIOUS
<1>2. a \in Dates
    BY <1>1, DayAfterIsDate
<1>3. /\ d.year \in Nat /\ d.month \in Nat /\ d.day \in Nat
      /\ 1583 <= d.year /\ 1 <= d.month /\ d.month <= 12 /\ 1 <= d.day
    BY DateFields
<1>4. /\ d.month <= 2 => Cal!TimeStrGetJD(d) = FromMarch(d.year - 1, d.month + 12, d.day)
      /\ d.month > 2 => Cal!TimeStrGetJD(d) = FromMarch(d.year, d.month, d.day)
      /\ a.month <= 2 => Cal!TimeStrGetJD(a) = FromMarch(a.year - 1, a.month + 12, a.day)
      /\ ~(a.month <= 2) => Cal!TimeStrGetJD(a) = FromMarch(a.year, a.month, a.day)
    BY <1>2, <1>3, JulianDay
<1>5. CASE a = Cal!Date(d.year, d.month, d.day + 1)
  <2>1. a.year = d.year /\ a.month = d.month /\ a.day = d.day + 1
      BY <1>5, FieldsOfDate
  <2>2. CASE d.month <= 2
    <3>1. PICK y, m : y = d.year - 1 /\ m = d.month + 12
        OBVIOUS
    <3>2. FromMarch(y, m, d.day + 1) = FromMarch(y, m, d.day) + 1
        BY <1>3, <2>2, <3>1, WithinMonth
    <3>3. QED
        BY <1>1, <1>3, <1>4, <2>1, <2>2, <3>1, <3>2
  <2>3. CASE d.month > 2
    <3>1. FromMarch(d.year, d.month, d.day + 1) = FromMarch(d.year, d.month, d.day) + 1
        BY <1>3, <2>3, WithinMonth
    <3>2. QED
        BY <1>1, <1>3, <1>4, <2>1, <2>3, <3>1
  <2>4. QED
      BY <1>3, <2>2, <2>3
<1>6. CASE d.day = Cal!DaysIn(d) /\ d.month < 12 /\ a = Cal!Date(d.year, d.month + 1, 1)
  <2>1. a.year = d.year /\ a.month = d.month + 1 /\ a.day = 1
      BY <1>6, FieldsOfDate
  <2>2. CASE d.month = 1
    <3>1. MonthEnds(13, d.day) /\ d.year - 1 \in Int
        BY <1>3, <1>6, <2>2, DaysOf DEF MonthEnds
    <3>2. FromMarch(d.year - 1, 14, 1) = FromMarch(d.year - 1, 13, d.day) + 1
        BY <1>3, <3>1, EndOfMonth
    <3>3. QED
        BY <1>1, <1>3, <1>4, <2>1, <2>2, <3>2
  <2>3. CASE d.month = 2
    <3>1. d.day = IF Cal!IsLeap(d.year) THEN 29 ELSE 28
        BY <1>6, <2>3, DaysOf
    <3>2. FromMarch(d.year, 3, 1) = FromMarch(d.year - 1, 14, d.day) + 1
        BY <1>3, <3>1, EndOfFebruary
    <3>3. QED
        BY <1>1, <1>3, <1>4, <2>1, <2>3, <3>2
  <2>4. CASE d.month > 2
    <3>1. MonthEnds(d.month, d.day)
        BY <1>3, <1>6, <2>4, DaysOf DEF MonthEnds
    <3>2. FromMarch(d.year, d.month + 1, 1) = FromMarch(d.year, d.month, d.day) + 1
        BY <1>3, <1>6, <2>4, <3>1, EndOfMonth
    <3>3. QED
        BY <1>1, <1>3, <1>4, <2>1, <2>4, <3>2
  <2>5. QED
      BY <1>3, <2>2, <2>3, <2>4
<1>7. CASE d.day = Cal!DaysIn(d) /\ d.month = 12 /\ a = Cal!Date(d.year + 1, 1, 1)
  <2>1. a.year = d.year + 1 /\ a.month = 1 /\ a.day = 1 /\ a.year - 1 = d.year
      BY <1>3, <1>7, FieldsOfDate
  <2>2. MonthEnds(12, d.day)
      BY <1>7, DaysOf DEF MonthEnds
  <2>3. FromMarch(d.year, 13, 1) = FromMarch(d.year, 12, d.day) + 1
      BY <1>3, <2>2, EndOfMonth
  <2>4. QED
      BY <1>1, <1>3, <1>4, <1>7, <2>1, <2>3
<1>8. QED
    BY <1>1, <1>5, <1>6, <1>7, DayAfterCases

\* The numbers of frames grow with time.
LEMMA UuidsGrow ==
    ASSUME NEW d \in Dates
    PROVE  /\ Cal!Before(Cal!TimeStrGetUuid(d, 0), Cal!TimeStrGetUuid(d, 13))
           /\ Cal!Before(Cal!TimeStrGetUuid(d, 13), Cal!TimeStrGetUuid(Cal!DayAfter(d), 0))
<1>1. PICK a : a = Cal!DayAfter(d)
    OBVIOUS
<1>2. /\ d.year \in Nat /\ d.month \in Nat /\ d.day \in Nat
      /\ 1 <= d.month /\ d.month <= 12 /\ 1 <= d.day /\ d.day <= 31
    BY DateFields, DaysOf
<1>3. \/ a.year = d.year /\ a.month = d.month /\ a.day = d.day + 1
      \/ a.year = d.year /\ a.month = d.month + 1 /\ a.day = 1
      \/ a.year = d.year + 1 /\ a.month = 1 /\ a.day = 1
    BY <1>1, DayAfterCases, FieldsOfDate
<1>4. (d.year * 100 + d.month) * 100 + d.day < (a.year * 100 + a.month) * 100 + a.day
    BY <1>2, <1>3
<1>5. QED
    BY <1>1, <1>2, <1>4 DEF Cal!Before, Cal!TimeStrGetUuid

\* The end of the night, before noon and after it.
LEMMA MorningIsToday ==
    ASSUME NEW d \in Dates
    PROVE  Cal!MorningTime(d, 0) = <<d, MorningHour>>
<1>1. /\ d.year \in Nat /\ d.month \in Nat /\ d.day \in Nat /\ 1 <= d.month /\ d.month <= 12
      /\ d.day <= Cal!DaysIn(d) /\ d = Cal!Date(d.year, d.month, d.day)
    BY DateFields
<1>2. CASE d.day <= Cal!days_in_months[d.month]
    BY <1>1, <1>2 DEF Cal!MorningTime
<1>3. CASE ~(d.day <= Cal!days_in_months[d.month])
  <2>1. d.month = 2 /\ Cal!IsLeap(d.year) /\ d.day = 29
      BY <1>1, <1>3, MonthLengths DEF Cal!DaysIn
  <2>2. Cal!IsLeapDay(d.year, 3, 29)
      BY <2>1 DEF Cal!IsLeapDay
  <2>3. QED
      BY <1>1, <1>3, <2>1, <2>2 DEF Cal!MorningTime
<1>4. QED
    BY <1>2, <1>3

LEMMA MorningIsTomorrow ==
    ASSUME NEW d \in Dates
    PROVE  (Cal!MorningTime(d, 13) = <<Cal!DayAfter(d), MorningHour>>)
             <=> ~(d.month = 11 /\ d.day = Cal!DaysIn(d))
<1>1. /\ d.year \in Nat /\ d.month \in Nat /\ d.day \in Nat /\ 1 <= d.month /\ d.month <= 12
      /\ 1 <= d.day /\ d.day <= Cal!DaysIn(d)
    BY DateFields
<1>2. PICK day, month, year :
        /\ day = d.day + 1 /\ month = (IF d.month < 11 THEN d.month + 1 ELSE 1)
        /\ year = IF d.month < 11 THEN d.year ELSE d.year + 1
    OBVIOUS
<1>3. Cal!MorningTime(d, 13) =
        <<IF day <= Cal!days_in_months[d.month] THEN Cal!Date(d.year, d.month, day)
          ELSE IF Cal!IsLeapDay(year, month, day) THEN Cal!Date(year, 2, 29)
          ELSE Cal!Date(year, month, 1), MorningHour>>
    BY <1>2 DEF Cal!MorningTime
<1>4. CASE day <= Cal!days_in_months[d.month]
  <2>1. d.day < Cal!DaysIn(d)
      BY <1>1, <1>2, <1>4, MonthLengths DEF Cal!DaysIn
  <2>2. Cal!DayAfter(d) = Cal!Date(d.year, d.month, day)
      BY <1>1, <1>2, <2>1, DayAfterCases
  <2>3. QED
      BY <1>1, <1>3, <1>4, <2>1, <2>2
<1>5. CASE ~(day <= Cal!days_in_months[d.month]) /\ Cal!IsLeapDay(year, month, day)
  <2>1. d.month = 2 /\ year = d.year /\ d.day = 28 /\ Cal!IsLeap(d.year)
      BY <1>1, <1>2, <1>5 DEF Cal!IsLeapDay
  <2>2. d.day < Cal!DaysIn(d)
      BY <2>1, DaysOf
  <2>3. Cal!DayAfter(d) = Cal!Date(year, 2, 29)
      BY <1>1, <2>1, <2>2, DayAfterCases
  <2>4. QED
      BY <1>3, <1>5, <2>1, <2>3
<1>6. CASE ~(day <= Cal!days_in_months[d.month]) /\ ~Cal!IsLeapDay(year, month, day)
  <2>1. d.day = Cal!DaysIn(d)
      BY <1>1, <1>2, <1>6, MonthLengths, DaysOf DEF Cal!IsLeapDay
  <2>2. Cal!MorningTime(d, 13) = <<Cal!Date(year, month, 1), MorningHour>>
      BY <1>3, <1>6
  <2>3. Cal!Date(year, month, 1) = Cal!DayAfter(d) <=> d.month # 11
    <3>1. CASE d.month < 11
        BY <1>1, <1>2, <2>1, <3>1, DayAfterCases
    <3>2. CASE d.month = 11
      <4>1. Cal!DayAfter(d).month = 12 /\ Cal!Date(year, month, 1).month = 1
          BY <1>1, <1>2, <2>1, <3>2, DayAfterCases, FieldsOfDate
      <4>2. QED
          BY <3>2, <4>1
    <3>3. CASE d.month = 12
        BY <1>1, <1>2, <2>1, <3>3, DayAfterCases
    <3>4. QED
        BY <1>1, <3>1, <3>2, <3>3
  <2>4. QED
      BY <2>1, <2>2, <2>3
<1>7. QED
    BY <1>4, <1>5, <1>6

\* What a date is for, at every date.
LEMMA CalendarInvImplies ==
    ASSUME CalendarInv
    PROVE  Cal!DatesAreRight
<1>1. date \in Dates /\ date.year \in Nat /\ date.year <= 9999 /\ hour \in {0, 13}
    BY DateFields, PartsAssumption DEF CalendarInv
<1>2. Cal!TimeStrFromUuid(Cal!TimeStrGetUuid(date, hour)) = <<date, hour>>
    BY <1>1, UuidAndBack
<1>3. Cal!TimeStrFromJD(Cal!TimeStrGetJD(date)) = date
    BY <1>1, JulianDayAndBack
<1>4. /\ Cal!TimeStrSetDate(Cal!TimeStrGetDate(date)) = date
      /\ Cal!TimeStrSetDate(<<date.day, date.month, date.year>>) = date
    BY <1>1, TextAndBack
<1>5. Cal!TimeStrGetJD(Cal!DayAfter(date)) = Cal!TimeStrGetJD(date) + 1
    BY <1>1, DaysAreCounted
<1>6. /\ Cal!Before(Cal!TimeStrGetUuid(date, 0), Cal!TimeStrGetUuid(date, 13))
      /\ Cal!Before(Cal!TimeStrGetUuid(date, 13), Cal!TimeStrGetUuid(Cal!DayAfter(date), 0))
    BY <1>1, UuidsGrow
<1>7. /\ Cal!MorningTime(date, 0) = <<date, MorningHour>>
      /\ (Cal!MorningTime(date, 13) = <<Cal!DayAfter(date), MorningHour>>)
           <=> ~(date.month = 11 /\ date.day = Cal!DaysIn(date))
    BY <1>1, MorningIsToday, MorningIsTomorrow
<1>8. QED
    BY <1>2, <1>3, <1>4, <1>5, <1>6, <1>7 DEF Cal!DatesAreRight

LEMMA CalendarInvInit ==
    ASSUME Cal!Init
    PROVE  CalendarInv
<1>1. FirstYear \in Nat /\ 1583 <= FirstYear /\ FirstYear <= LastYear /\ LastYear \in Nat
    BY PartsAssumption
<1>2. Cal!Date(FirstYear, 1, 1) \in Dates
    BY <1>1, DatesOf
<1>3. QED
    BY <1>1, <1>2, FieldsOfDate DEF CalendarInv, Cal!Init

LEMMA CalendarInvStep ==
    ASSUME CalendarInv, [Cal!Next]_Cal!vars
    PROVE  CalendarInv'
<1>1. CASE Cal!Afternoon
    BY <1>1 DEF CalendarInv, Cal!Afternoon, Dates
<1>2. CASE Cal!Midnight
  <2>1. date' = Cal!DayAfter(date) /\ hour' = 0 /\ Cal!DayAfter(date).year <= LastYear
      BY <1>2 DEF Cal!Midnight
  <2>2. Cal!DayAfter(date) \in Dates
      BY DayAfterIsDate DEF CalendarInv
  <2>3. date' \in Dates
      BY <2>1, <2>2
  <2>4. QED
      BY <2>1, <2>3 DEF CalendarInv, Dates
<1>3. CASE Cal!LastDay \/ UNCHANGED Cal!vars
    BY <1>3 DEF CalendarInv, Cal!LastDay, Cal!vars, Dates
<1>4. QED
    BY <1>1, <1>2, <1>3 DEF Cal!Next

-----------------------------------------------------------------------------
(* Lines and their tokens.                                                 *)

Chars == {"x", "=", "'", "\"", " ", "~", "NUL"}
Lines == Seq(Chars)

\* Sequences, from what they are without their last element.
LEMMA Appending ==
    ASSUME NEW S, NEW s \in Seq(S), NEW c \in S
    PROVE  /\ Append(s, c) \in Seq(S) /\ Append(s, c) # <<>>
           /\ Len(Append(s, c)) = Len(s) + 1 /\ Len(s) \in Nat
           /\ \A i \in 1 .. Len(s) : Append(s, c)[i] = s[i]
           /\ Append(s, c)[Len(s) + 1] = c
    OBVIOUS

\* What holds of the empty sequence, and of each with its last element if it
\* does without, holds of all.
LEMMA SeqInduction ==
    ASSUME NEW S, NEW T, <<>> \in T,
           \A s \in Seq(S), c \in S : s \in T => Append(s, c) \in T
    PROVE  Seq(S) \subseteq T
<1> DEFINE L(k) == {s \in Seq(S) : Len(s) = k}
           K == {k \in Nat : L(k) \subseteq T}
<1>1. 0 \in K
  <2>1. \A s \in Seq(S) : Len(s) = 0 => s = <<>>
      OBVIOUS
  <2>2. QED
      BY <2>1
<1>2. ASSUME NEW k \in Nat, k # 0, k - 1 \in K PROVE k \in K
  <2>1. ASSUME NEW s \in Seq(S), Len(s) = k PROVE s \in T
    <3>1. s # <<>>
        BY <1>2, <2>1
    <3>2. PICK t \in Seq(S), c \in S : s = Append(t, c)
        BY <3>1, SequenceEmptyOrAppend
    <3>3. Len(t) = k - 1
      <4>1. Len(s) = Len(t) + 1 /\ Len(t) \in Nat
          BY <3>2
      <4>2. QED
          BY <1>2, <2>1, <4>1
    <3>4. t \in T
        BY <1>2, <3>3
    <3>5. QED
        BY <3>2, <3>4
  <2>2. QED
      BY <1>2, <2>1
<1>3. ASSUME NEW s \in Seq(S) PROVE s \in T
  <2>1. PICK n : n = Len(s)
      OBVIOUS
  <2>2. n \in Nat
      BY <2>1
  <2> HIDE DEF K
  <2>3. \A i \in 1 .. n : i - 1 \in K => i \in K
    <3>1. \A i \in 1 .. n : i \in Nat /\ i # 0
        BY <2>2
    <3>2. QED
        BY <1>2, <3>1
  <2>4. 0 .. n \subseteq K
    <3>1. \A m \in Nat : \A U : 0 \in U /\ (\A i \in 1 .. m : i - 1 \in U => i \in U)
                                  => 0 .. m \subseteq U
        BY Induction
    <3>2. QED
        BY <1>1, <2>2, <2>3, <3>1
  <2>5. n \in K
      BY <2>2, <2>4
  <2>6. QED
      BY <2>1, <2>5 DEF K
<1>4. QED
    BY <1>3

\* Two functions with the same beginning and the same steps are the same.
Alike(n, f, h) ==
    f[0] = h[0] /\ \A i \in 1 .. n : f[i - 1] = h[i - 1] => f[i] = h[i]
Same(n, f, h) == \A i \in 0 .. n : f[i] = h[i]
LEMMA SameSteps == \A n \in Nat : \A f, h : Alike(n, f, h) => Same(n, f, h)
<1> SUFFICES ASSUME NEW n \in Nat, NEW f, NEW h, f[0] = h[0],
                    \A i \in 1 .. n : f[i - 1] = h[i - 1] => f[i] = h[i]
             PROVE  \A i \in 0 .. n : f[i] = h[i]
    BY DEF Alike, Same
<1> DEFINE T == {i \in 0 .. n : f[i] = h[i]}
<1>1. 0 \in T
    OBVIOUS
<1>2. \A i \in 1 .. n : i - 1 \in T => i \in T
    OBVIOUS
<1> HIDE DEF T
<1>3. 0 .. n \subseteq T
    BY <1>1, <1>2, Induction
<1>4. QED
    BY <1>3 DEF T

\* What the loop of command_parse knows when the characters are in C.
Blank == {"initial", "whitespace"}
Inside == {"token", "quote", "double quote"}
TokensIn(C) == {Parser!TokenOf(x) : x \in Seq(C)}
ParseStates(C) == [state : Blank \cup Inside, text : Seq(C), tokens : Seq(TokensIn(C))]

LEMMA TextOfToken == \A x : Parser!TokenOf(x).text = x
    BY DEF Parser!TokenOf

LEMMA WithinInside ==
    \A st \in Inside, c \in Chars : Parser!Within(st, c) \in Inside
    BY DEF Parser!Within, Inside, Chars

\* The turns of the loop: between tokens, at the end of one, and within.
Within(st, c) == IF c \in Parser!Visible THEN Parser!Within(st, c) ELSE st
LEMMA Turns ==
    ASSUME NEW C, C \subseteq Chars, NEW p \in ParseStates(C), NEW c \in C
    PROVE  /\ p.state \in Blank /\ c \in Parser!Visible =>
                Parser!ParseChar(p, c) =
                    [state |-> Parser!Within("token", c), text |-> <<c>>, tokens |-> p.tokens]
           /\ p.state \in Blank /\ c = "~" => Parser!ParseChar(p, c) = p
           /\ p.state \in Blank /\ c \in {" ", "NUL"} =>
                Parser!ParseChar(p, c) =
                    [state |-> "whitespace", text |-> p.text, tokens |-> p.tokens]
           /\ p.state = "token" /\ c \in {" ", "NUL"} =>
                Parser!ParseChar(p, c) =
                    [state |-> "whitespace", text |-> <<>>,
                     tokens |-> Append(p.tokens, Parser!TokenOf(p.text))]
           /\ p.state \in Inside /\ ~ (p.state = "token" /\ c \in {" ", "NUL"}) =>
                Parser!ParseChar(p, c) =
                    [state |-> Within(p.state, c), text |-> Append(p.text, c),
                     tokens |-> p.tokens]
<1>1. p = [state |-> p.state, text |-> p.text, tokens |-> p.tokens]
    BY DEF ParseStates
<1>2. c \in Chars
    OBVIOUS
<1>3. CASE p.state \in Blank
  <2>1. p.state \in {"initial", "whitespace"} /\ p.state \notin Inside /\ p.state # "token"
      BY <1>3 DEF Blank, Inside
  <2>2. ASSUME c \in Parser!Visible
        PROVE  Parser!ParseChar(p, c) =
                 [state |-> Parser!Within("token", c), text |-> <<c>>, tokens |-> p.tokens]
      BY <1>1, <2>1, <2>2 DEF Parser!ParseChar
  <2>3. c \notin Parser!Visible /\ c # "~" =>
          Parser!ParseChar(p, c) = [state |-> "whitespace", text |-> p.text, tokens |-> p.tokens]
      BY <1>1, <2>1 DEF Parser!ParseChar
  <2>4. c \notin Parser!Visible /\ c = "~" => Parser!ParseChar(p, c) = p
      BY <1>1, <2>1 DEF Parser!ParseChar
  <2>5. c \in {" ", "NUL"} => c \notin Parser!Visible /\ c # "~"
      BY DEF Parser!Visible, Parser!Quotes
  <2>6. c = "~" => c \notin Parser!Visible
      BY DEF Parser!Visible, Parser!Quotes
  <2>7. QED
      BY <2>1, <2>2, <2>3, <2>4, <2>5, <2>6
<1>4. CASE p.state \in Inside
  <2>1. p.state \notin {"initial", "whitespace"} /\ p.state \notin Blank
      BY <1>4 DEF Blank, Inside
  <2>2. Parser!EndsToken(p.state, c) <=> p.state = "token" /\ c \in {" ", "NUL"}
      BY DEF Parser!EndsToken, Parser!Nul
  <2>3. Parser!EndsToken(p.state, c) =>
          Parser!ParseChar(p, c) =
            [state |-> "whitespace", text |-> <<>>,
             tokens |-> Append(p.tokens, Parser!TokenOf(p.text))]
      BY <2>1 DEF Parser!ParseChar
  <2>4. ~ Parser!EndsToken(p.state, c) =>
          Parser!ParseChar(p, c) =
            [state |-> Within(p.state, c), text |-> Append(p.text, c), tokens |-> p.tokens]
      BY <1>1, <2>1 DEF Parser!ParseChar, Within
  <2>5. QED
      BY <2>1, <2>2, <2>3, <2>4
<1>5. QED
    BY <1>3, <1>4 DEF ParseStates

LEMMA TurnType ==
    ASSUME NEW C, C \subseteq Chars, NEW p \in ParseStates(C), NEW c \in C
    PROVE  Parser!ParseChar(p, c) \in ParseStates(C)
<1>1. /\ p.state \in Blank \cup Inside /\ p.text \in Seq(C) /\ p.tokens \in Seq(TokensIn(C))
      /\ p = [state |-> p.state, text |-> p.text, tokens |-> p.tokens]
    BY DEF ParseStates
<1>2. /\ <<c>> \in Seq(C) /\ <<>> \in Seq(C) /\ Append(p.text, c) \in Seq(C)
      /\ Parser!TokenOf(p.text) \in TokensIn(C)
    BY <1>1 DEF TokensIn
<1>3. Append(p.tokens, Parser!TokenOf(p.text)) \in Seq(TokensIn(C))
    BY <1>1, <1>2
<1>4. "whitespace" \in Blank \cup Inside /\ "token" \in Inside
    BY DEF Blank, Inside
<1>5. /\ Parser!Within("token", c) \in Blank \cup Inside
      /\ p.state \in Inside => Within(p.state, c) \in Blank \cup Inside
    BY <1>4, WithinInside DEF Within
<1>6. p.state \in Blank => c \in Parser!Visible \/ c = "~" \/ c \in {" ", "NUL"}
    BY DEF Parser!Visible, Parser!Quotes, Chars
<1>7. CASE p.state \in Blank /\ c \in Parser!Visible
  <2>1. Parser!ParseChar(p, c) =
          [state |-> Parser!Within("token", c), text |-> <<c>>, tokens |-> p.tokens]
      BY <1>7, Turns
  <2>2. QED
      BY <1>1, <1>2, <1>5, <2>1 DEF ParseStates
<1>8. CASE p.state \in Blank /\ c = "~"
    BY <1>8, Turns
<1>9. CASE p.state \in Blank /\ c \in {" ", "NUL"}
  <2>1. Parser!ParseChar(p, c) =
          [state |-> "whitespace", text |-> p.text, tokens |-> p.tokens]
      BY <1>9, Turns
  <2>2. QED
      BY <1>1, <1>4, <2>1 DEF ParseStates
<1>10. CASE p.state = "token" /\ c \in {" ", "NUL"}
  <2>1. Parser!ParseChar(p, c) =
          [state |-> "whitespace", text |-> <<>>,
           tokens |-> Append(p.tokens, Parser!TokenOf(p.text))]
      BY <1>10, Turns
  <2>2. QED
      BY <1>2, <1>3, <1>4, <2>1 DEF ParseStates
<1>11. CASE p.state \in Inside /\ ~ (p.state = "token" /\ c \in {" ", "NUL"})
  <2>1. Parser!ParseChar(p, c) =
          [state |-> Within(p.state, c), text |-> Append(p.text, c), tokens |-> p.tokens]
      BY <1>11, Turns
  <2>2. PICK st : st = Within(p.state, c)
      OBVIOUS
  <2>3. st \in Blank \cup Inside
      BY <1>5, <1>11, <2>2
  <2>4. [state |-> st, text |-> Append(p.text, c), tokens |-> p.tokens] \in ParseStates(C)
      BY <1>1, <1>2, <2>3 DEF ParseStates
  <2>5. QED
      BY <2>1, <2>2, <2>4
<1>12. QED
    BY <1>1, <1>6, <1>7, <1>8, <1>9, <1>10, <1>11

\* Loops exist: Recursion in the form in which it is used.
Loop(n, b, g, f) == f[0] = b /\ \A i \in 1 .. n : f[i] = g[<<i, f[i - 1]>>]
LEMMA LoopExists ==
    \A n \in Nat : \A S : \A b \in S : \A g \in [(1 .. n) \X S -> S] :
        \E f \in [0 .. n -> S] : Loop(n, b, g, f)
<1> SUFFICES ASSUME NEW n \in Nat, NEW S, NEW b \in S, NEW g \in [(1 .. n) \X S -> S]
             PROVE  \E f \in [0 .. n -> S] : Loop(n, b, g, f)
    OBVIOUS
<1> DEFINE Is(k, c, h, f) == f = [i \in 0 .. k |-> IF i = 0 THEN c ELSE h[<<i, f[i - 1]>>]]
<1>1. \A k \in Nat : \A R : \A c \in R : \A h \in [(1 .. k) \X R -> R] :
        \E f \in [0 .. k -> R] : Is(k, c, h, f)
    BY Recursion, Zenon
<1> HIDE DEF Is
<1>2. PICK f \in [0 .. n -> S] : Is(n, b, g, f)
    BY <1>1, Zenon
<1>3. \A i \in 0 .. n : f[i] = IF i = 0 THEN b ELSE g[<<i, f[i - 1]>>]
    BY <1>2 DEF Is
<1>4. 0 \in 0 .. n /\ \A i \in 1 .. n : i \in 0 .. n /\ i # 0
    OBVIOUS
<1>5. QED
    BY <1>3, <1>4 DEF Loop

LEMMA RunLoop ==
    ASSUME NEW C, C \subseteq Chars, NEW s \in Seq(C)
    PROVE  \E f \in [0 .. Len(s) -> ParseStates(C)] :
             /\ f[0] = Parser!Begin /\ Parser!Run(s) = f[Len(s)]
             /\ \A i \in 1 .. Len(s) : f[i] = Parser!ParseChar(f[i - 1], s[i])
<1>1. PICK n : n = Len(s)
    OBVIOUS
<1>2. n \in Nat /\ \A i \in 1 .. n : s[i] \in C
    BY <1>1
<1> DEFINE S == ParseStates(C)
           g == [p \in (1 .. n) \X S |-> Parser!ParseChar(p[2], s[p[1]])]
           Is(f) == f = [i \in 0 .. n |-> IF i = 0 THEN Parser!Begin
                                          ELSE Parser!ParseChar(f[i - 1], s[i])]
<1>3. Parser!Begin \in S
    BY DEF Parser!Begin, ParseStates, Blank
<1>4. ASSUME NEW i \in 1 .. n, NEW p \in S PROVE Parser!ParseChar(p, s[i]) \in S
    BY <1>2, TurnType
<1>5. g \in [(1 .. n) \X S -> S]
    BY <1>4
<1>6. \A i \in 1 .. n, p \in S : g[<<i, p>>] = Parser!ParseChar(p, s[i])
    OBVIOUS
<1> HIDE DEF S, g
<1>7. PICK f \in [0 .. n -> S] : Loop(n, Parser!Begin, g, f)
    BY <1>2, <1>3, <1>5, LoopExists, Zenon
<1> USE DEF Loop
<1>8. \A i \in 1 .. n : f[i] = Parser!ParseChar(f[i - 1], s[i])
  <2>1. \A i \in 1 .. n : i - 1 \in 0 .. n
      BY <1>2
  <2>2. QED
      BY <1>6, <1>7, <2>1
<1>9. Is(f)
  <2>1. f = [i \in 0 .. n |-> f[i]]
      BY <1>7
  <2>2. \A i \in 0 .. n : i = 0 \/ i \in 1 .. n
      BY <1>2
  <2>3. \A i \in 0 .. n : f[i] = IF i = 0 THEN Parser!Begin ELSE Parser!ParseChar(f[i - 1], s[i])
      BY <1>7, <1>8, <2>2
  <2>4. QED
      BY <2>1, <2>3
<1>10. PICK h : h = CHOOSE k : Is(k)
    OBVIOUS
<1>11. Is(h) /\ Parser!Run(s) = h[n]
  <2>1. Parser!Run(s) = h[n]
      BY <1>1, <1>10 DEF Parser!Run
  <2>2. QED
      BY <1>9, <1>10, <2>1, Zenon
<1>12. h[0] = Parser!Begin /\ \A i \in 1 .. n : h[i] = Parser!ParseChar(h[i - 1], s[i])
  <2>1. 0 \in 0 .. n /\ \A i \in 1 .. n : i \in 0 .. n /\ i # 0
      BY <1>2
  <2>2. QED
      BY <1>11, <2>1
<1>13. \A i \in 0 .. n : f[i] = h[i]
  <2>1. f[0] = h[0]
      BY <1>7, <1>12
  <2>2. \A i \in 1 .. n : f[i - 1] = h[i - 1] => f[i] = h[i]
      BY <1>8, <1>12
  <2>3. n \in Nat
      BY <1>2
  <2>4. Alike(n, f, h)
      BY <2>1, <2>2 DEF Alike
  <2>5. QED
      BY <2>3, <2>4, SameSteps DEF Same
<1>14. n \in 0 .. n
    BY <1>2
<1>15. Parser!Run(s) = f[n]
    BY <1>11, <1>13, <1>14
<1>16. QED
    BY <1>1, <1>7, <1>8, <1>15 DEF S

\* The loop goes on with the next character.
LEMMA RunIs ==
    ASSUME NEW C, C \subseteq Chars
    PROVE  /\ Parser!Run(<<>>) = Parser!Begin
           /\ \A s \in Seq(C) : Parser!Run(s) \in ParseStates(C)
           /\ \A s \in Seq(C), c \in C :
                Parser!Run(Append(s, c)) = Parser!ParseChar(Parser!Run(s), c)
<1> DEFINE Of(s, n, f) == /\ f \in [0 .. n -> ParseStates(C)]
                          /\ f[0] = Parser!Begin /\ Parser!Run(s) = f[n]
                          /\ \A i \in 1 .. n : f[i] = Parser!ParseChar(f[i - 1], s[i])
<1>1. \A s \in Seq(C) : \E f : Of(s, Len(s), f)
    BY RunLoop
<1>2. Parser!Run(<<>>) = Parser!Begin
  <2>1. <<>> \in Seq(C) /\ Len(<<>>) = 0
      OBVIOUS
  <2>2. PICK f : Of(<<>>, 0, f)
      BY <1>1, <2>1
  <2>3. QED
      BY <2>2
<1>3. ASSUME NEW s \in Seq(C) PROVE Parser!Run(s) \in ParseStates(C)
  <2>1. PICK f : Of(s, Len(s), f)
      BY <1>1
  <2>2. Len(s) \in 0 .. Len(s)
      OBVIOUS
  <2>3. QED
      BY <2>1, <2>2
<1>4. ASSUME NEW s \in Seq(C), NEW c \in C
      PROVE  Parser!Run(Append(s, c)) = Parser!ParseChar(Parser!Run(s), c)
  <2>1. PICK n : n = Len(s)
      OBVIOUS
  <2>2. PICK t : t = Append(s, c)
      OBVIOUS
  <2>3. /\ n \in Nat /\ t \in Seq(C) /\ Len(t) = n + 1 /\ t[n + 1] = c
        /\ \A i \in 1 .. n : t[i] = s[i]
      BY <2>1, <2>2, Appending
  <2>4. PICK f : Of(s, n, f)
      BY <1>1, <2>1
  <2>5. PICK h : Of(t, n + 1, h)
      BY <1>1, <2>3
  <2>6. \A i \in 1 .. n : h[i] = Parser!ParseChar(h[i - 1], s[i])
    <3>1. \A i \in 1 .. n : i \in 1 .. n + 1
        BY <2>3
    <3>2. QED
        BY <2>3, <2>5, <3>1
  <2>7. \A i \in 1 .. n : f[i - 1] = h[i - 1] => f[i] = h[i]
      BY <2>4, <2>6
  <2>8. \A i \in 0 .. n : f[i] = h[i]
    <3>1. f[0] = h[0]
        BY <2>4, <2>5
    <3>2. n \in Nat
        BY <2>3
    <3>3. Alike(n, f, h)
        BY <2>7, <3>1 DEF Alike
    <3>4. QED
        BY <3>2, <3>3, SameSteps DEF Same
  <2>9. n \in 0 .. n /\ n + 1 \in 1 .. n + 1 /\ (n + 1) - 1 = n
      BY <2>3
  <2>10. f[n] = h[n]
      BY <2>8, <2>9
  <2>11. h[n + 1] = Parser!ParseChar(h[n], t[n + 1])
      BY <2>5, <2>9
  <2>12. QED
      BY <2>2, <2>3, <2>4, <2>5, <2>10, <2>11
<1>5. QED
    BY <1>2, <1>3, <1>4

LEMMA Spaced ==
    /\ <<" ">> \in Lines
    /\ \A v, w \in Lines : v \o w \in Lines
    /\ \A v, w \in Lines : v \o <<" ">> \o w \in Lines
<1>1. PICK c : c = " "
    OBVIOUS
<1>2. c \in Chars
    BY <1>1 DEF Chars
<1>3. <<c>> \in Lines
    BY <1>2 DEF Lines
<1>4. \A v, w \in Lines : v \o w \in Lines
    BY ConcatProperties DEF Lines
<1>5. QED
    BY <1>1, <1>3, <1>4

\* The words of a line, with spaces between them.
JoinTurn(i, s, word) == IF i = 1 THEN word ELSE s \o <<" ">> \o word
LEMMA JoinedLoop ==
    ASSUME NEW s \in Seq(Lines)
    PROVE  \E f \in [0 .. Len(s) -> Lines] :
             /\ f[0] = <<>> /\ Parser!Joined(s) = f[Len(s)]
             /\ \A i \in 1 .. Len(s) : f[i] = JoinTurn(i, f[i - 1], s[i])
<1>1. PICK n : n = Len(s)
    OBVIOUS
<1>2. n \in Nat /\ \A i \in 1 .. n : s[i] \in Lines
    BY <1>1
<1> DEFINE S == Lines
           g == [p \in (1 .. n) \X S |-> JoinTurn(p[1], p[2], s[p[1]])]
           Is(f) == f = [i \in 0 .. n |->
                           IF i = 0 THEN <<>>
                           ELSE IF i = 1 THEN s[1] ELSE f[i - 1] \o <<" ">> \o s[i]]
<1>3. <<>> \in S
    BY DEF Lines
<1>4. ASSUME NEW i \in 1 .. n, NEW p \in S PROVE JoinTurn(i, p, s[i]) \in S
  <2>1. \A v, w \in Lines : v \o <<" ">> \o w \in Lines
      BY Spaced
  <2>2. s[i] \in Lines
      BY <1>2
  <2>3. QED
      BY <2>1, <2>2 DEF JoinTurn
<1>5. g \in [(1 .. n) \X S -> S]
    BY <1>4
<1>6. \A i \in 1 .. n, p \in S : g[<<i, p>>] = JoinTurn(i, p, s[i])
    OBVIOUS
<1> HIDE DEF S, g
<1>7. PICK f \in [0 .. n -> S] : Loop(n, <<>>, g, f)
    BY <1>2, <1>3, <1>5, LoopExists, Zenon
<1> USE DEF Loop
<1>8. \A i \in 1 .. n : f[i] = JoinTurn(i, f[i - 1], s[i])
  <2>1. \A i \in 1 .. n : i - 1 \in 0 .. n
      BY <1>2
  <2>2. QED
      BY <1>6, <1>7, <2>1
<1>9. Is(f)
  <2>1. f = [i \in 0 .. n |-> f[i]]
      BY <1>7
  <2>2. \A i \in 0 .. n : i = 0 \/ i \in 1 .. n
      BY <1>2
  <2>3. \A i \in 0 .. n : f[i] = IF i = 0 THEN <<>> ELSE JoinTurn(i, f[i - 1], s[i])
      BY <1>7, <1>8, <2>2
  <2>4. \A i \in 0 .. n : f[i] = IF i = 0 THEN <<>> ELSE IF i = 1 THEN s[1]
                                ELSE f[i - 1] \o <<" ">> \o s[i]
      BY <2>3 DEF JoinTurn
  <2>5. QED
      BY <2>1, <2>4
<1>10. PICK h : h = CHOOSE k : Is(k)
    OBVIOUS
<1>11. Is(h) /\ Parser!Joined(s) = h[n]
  <2>1. Parser!Joined(s) = h[n]
      BY <1>1, <1>10 DEF Parser!Joined
  <2>2. QED
      BY <1>9, <1>10, <2>1, Zenon
<1>12. h[0] = <<>> /\ \A i \in 1 .. n : h[i] = JoinTurn(i, h[i - 1], s[i])
  <2>1. 0 \in 0 .. n /\ \A i \in 1 .. n : i \in 0 .. n /\ i # 0
      BY <1>2
  <2>2. QED
      BY <1>11, <2>1 DEF JoinTurn
<1>13. \A i \in 0 .. n : f[i] = h[i]
  <2>1. f[0] = h[0]
      BY <1>7, <1>12
  <2>2. \A i \in 1 .. n : f[i - 1] = h[i - 1] => f[i] = h[i]
      BY <1>8, <1>12
  <2>3. n \in Nat
      BY <1>2
  <2>4. Alike(n, f, h)
      BY <2>1, <2>2 DEF Alike
  <2>5. QED
      BY <2>3, <2>4, SameSteps DEF Same
<1>14. n \in 0 .. n
    BY <1>2
<1>15. Parser!Joined(s) = f[n]
    BY <1>11, <1>13, <1>14
<1>16. QED
    BY <1>1, <1>7, <1>8, <1>15 DEF S

LEMMA JoinedIs ==
    /\ Parser!Joined(<<>>) = <<>>
    /\ \A s \in Seq(Lines) : Parser!Joined(s) \in Lines
    /\ \A s \in Seq(Lines), c \in Lines :
         Parser!Joined(Append(s, c)) = JoinTurn(Len(s) + 1, Parser!Joined(s), c)
<1> DEFINE Of(s, n, f) == /\ f \in [0 .. n -> Lines]
                          /\ f[0] = <<>> /\ Parser!Joined(s) = f[n]
                          /\ \A i \in 1 .. n : f[i] = JoinTurn(i, f[i - 1], s[i])
<1>1. \A s \in Seq(Lines) : \E f : Of(s, Len(s), f)
    BY JoinedLoop
<1>2. Parser!Joined(<<>>) = <<>>
  <2>1. PICK e : e = <<>>
      OBVIOUS
  <2>2. e \in Seq(Lines) /\ Len(e) = 0
      BY <2>1
  <2>3. PICK f : Of(e, Len(e), f)
      BY <1>1, <2>2
  <2>4. f[Len(e)] = <<>>
      BY <2>2, <2>3
  <2>5. QED
      BY <2>1, <2>3, <2>4
<1>3. ASSUME NEW s \in Seq(Lines) PROVE Parser!Joined(s) \in Lines
  <2>1. PICK f : Of(s, Len(s), f)
      BY <1>1
  <2>2. Len(s) \in 0 .. Len(s)
      OBVIOUS
  <2>3. QED
      BY <2>1, <2>2
<1>4. ASSUME NEW s \in Seq(Lines), NEW c \in Lines
      PROVE  Parser!Joined(Append(s, c)) = JoinTurn(Len(s) + 1, Parser!Joined(s), c)
  <2>1. PICK n : n = Len(s)
      OBVIOUS
  <2>2. PICK t : t = Append(s, c)
      OBVIOUS
  <2>3. /\ n \in Nat /\ t \in Seq(Lines) /\ Len(t) = n + 1 /\ t[n + 1] = c
        /\ \A i \in 1 .. n : t[i] = s[i]
      BY <2>1, <2>2, Appending
  <2>4. PICK f : Of(s, n, f)
      BY <1>1, <2>1
  <2>5. PICK h : Of(t, n + 1, h)
      BY <1>1, <2>3
  <2>6. \A i \in 1 .. n : h[i] = JoinTurn(i, h[i - 1], s[i])
    <3>1. \A i \in 1 .. n : i \in 1 .. n + 1
        BY <2>3
    <3>2. QED
        BY <2>3, <2>5, <3>1
  <2>7. \A i \in 1 .. n : f[i - 1] = h[i - 1] => f[i] = h[i]
      BY <2>4, <2>6
  <2>8. \A i \in 0 .. n : f[i] = h[i]
    <3>1. f[0] = h[0]
        BY <2>4, <2>5
    <3>2. n \in Nat
        BY <2>3
    <3>3. Alike(n, f, h)
        BY <2>7, <3>1 DEF Alike
    <3>4. QED
        BY <3>2, <3>3, SameSteps DEF Same
  <2>9. n \in 0 .. n /\ n + 1 \in 1 .. n + 1 /\ (n + 1) - 1 = n
      BY <2>3
  <2>10. f[n] = h[n]
      BY <2>8, <2>9
  <2>11. h[n + 1] = JoinTurn(n + 1, h[n], t[n + 1])
      BY <2>5, <2>9
  <2>12. QED
      BY <2>1, <2>2, <2>3, <2>4, <2>5, <2>10, <2>11
<1>5. QED
    BY <1>2, <1>3, <1>4

\* A line without its spaces.
PackTurn(i, s, c) == IF c = " " THEN s ELSE Append(s, c)
LEMMA PackedLoop ==
    ASSUME NEW s \in Seq(Chars)
    PROVE  \E f \in [0 .. Len(s) -> Lines] :
             /\ f[0] = <<>> /\ Parser!Packed(s) = f[Len(s)]
             /\ \A i \in 1 .. Len(s) : f[i] = PackTurn(i, f[i - 1], s[i])
<1>1. PICK n : n = Len(s)
    OBVIOUS
<1>2. n \in Nat /\ \A i \in 1 .. n : s[i] \in Chars
    BY <1>1
<1> DEFINE S == Lines
           g == [p \in (1 .. n) \X S |-> PackTurn(p[1], p[2], s[p[1]])]
           Is(f) == f = [i \in 0 .. n |->
                           IF i = 0 THEN <<>>
                           ELSE IF s[i] = " " THEN f[i - 1] ELSE Append(f[i - 1], s[i])]
<1>3. <<>> \in S
    BY DEF Lines
<1>4. ASSUME NEW i \in 1 .. n, NEW p \in S PROVE PackTurn(i, p, s[i]) \in S
  <2>1. \A v \in Lines, c \in Chars : Append(v, c) \in Lines
      BY DEF Lines
  <2>2. s[i] \in Chars
      BY <1>2
  <2>3. QED
      BY <2>1, <2>2 DEF PackTurn
<1>5. g \in [(1 .. n) \X S -> S]
    BY <1>4
<1>6. \A i \in 1 .. n, p \in S : g[<<i, p>>] = PackTurn(i, p, s[i])
    OBVIOUS
<1> HIDE DEF S, g
<1>7. PICK f \in [0 .. n -> S] : Loop(n, <<>>, g, f)
    BY <1>2, <1>3, <1>5, LoopExists, Zenon
<1> USE DEF Loop
<1>8. \A i \in 1 .. n : f[i] = PackTurn(i, f[i - 1], s[i])
  <2>1. \A i \in 1 .. n : i - 1 \in 0 .. n
      BY <1>2
  <2>2. QED
      BY <1>6, <1>7, <2>1
<1>9. Is(f)
  <2>1. f = [i \in 0 .. n |-> f[i]]
      BY <1>7
  <2>2. \A i \in 0 .. n : i = 0 \/ i \in 1 .. n
      BY <1>2
  <2>3. \A i \in 0 .. n : f[i] = IF i = 0 THEN <<>> ELSE PackTurn(i, f[i - 1], s[i])
      BY <1>7, <1>8, <2>2
  <2>4. \A i \in 0 .. n : f[i] = IF i = 0 THEN <<>> ELSE IF s[i] = " " THEN f[i - 1]
                                ELSE Append(f[i - 1], s[i])
      BY <2>3 DEF PackTurn
  <2>5. QED
      BY <2>1, <2>4
<1>10. PICK h : h = CHOOSE k : Is(k)
    OBVIOUS
<1>11. Is(h) /\ Parser!Packed(s) = h[n]
  <2>1. Parser!Packed(s) = h[n]
      BY <1>1, <1>10 DEF Parser!Packed
  <2>2. QED
      BY <1>9, <1>10, <2>1, Zenon
<1>12. h[0] = <<>> /\ \A i \in 1 .. n : h[i] = PackTurn(i, h[i - 1], s[i])
  <2>1. 0 \in 0 .. n /\ \A i \in 1 .. n : i \in 0 .. n /\ i # 0
      BY <1>2
  <2>2. QED
      BY <1>11, <2>1 DEF PackTurn
<1>13. \A i \in 0 .. n : f[i] = h[i]
  <2>1. f[0] = h[0]
      BY <1>7, <1>12
  <2>2. \A i \in 1 .. n : f[i - 1] = h[i - 1] => f[i] = h[i]
      BY <1>8, <1>12
  <2>3. n \in Nat
      BY <1>2
  <2>4. Alike(n, f, h)
      BY <2>1, <2>2 DEF Alike
  <2>5. QED
      BY <2>3, <2>4, SameSteps DEF Same
<1>14. n \in 0 .. n
    BY <1>2
<1>15. Parser!Packed(s) = f[n]
    BY <1>11, <1>13, <1>14
<1>16. QED
    BY <1>1, <1>7, <1>8, <1>15 DEF S

LEMMA PackedIs ==
    /\ Parser!Packed(<<>>) = <<>>
    /\ \A s \in Seq(Chars) : Parser!Packed(s) \in Lines
    /\ \A s \in Seq(Chars), c \in Chars :
         Parser!Packed(Append(s, c)) = PackTurn(Len(s) + 1, Parser!Packed(s), c)
<1> DEFINE Of(s, n, f) == /\ f \in [0 .. n -> Lines]
                          /\ f[0] = <<>> /\ Parser!Packed(s) = f[n]
                          /\ \A i \in 1 .. n : f[i] = PackTurn(i, f[i - 1], s[i])
<1>1. \A s \in Seq(Chars) : \E f : Of(s, Len(s), f)
    BY PackedLoop
<1>2. Parser!Packed(<<>>) = <<>>
  <2>1. PICK e : e = <<>>
      OBVIOUS
  <2>2. e \in Seq(Chars) /\ Len(e) = 0
      BY <2>1
  <2>3. PICK f : Of(e, Len(e), f)
      BY <1>1, <2>2
  <2>4. f[Len(e)] = <<>>
      BY <2>2, <2>3
  <2>5. QED
      BY <2>1, <2>3, <2>4
<1>3. ASSUME NEW s \in Seq(Chars) PROVE Parser!Packed(s) \in Lines
  <2>1. PICK f : Of(s, Len(s), f)
      BY <1>1
  <2>2. Len(s) \in 0 .. Len(s)
      OBVIOUS
  <2>3. QED
      BY <2>1, <2>2
<1>4. ASSUME NEW s \in Seq(Chars), NEW c \in Chars
      PROVE  Parser!Packed(Append(s, c)) = PackTurn(Len(s) + 1, Parser!Packed(s), c)
  <2>1. PICK n : n = Len(s)
      OBVIOUS
  <2>2. PICK t : t = Append(s, c)
      OBVIOUS
  <2>3. /\ n \in Nat /\ t \in Seq(Chars) /\ Len(t) = n + 1 /\ t[n + 1] = c
        /\ \A i \in 1 .. n : t[i] = s[i]
      BY <2>1, <2>2, Appending
  <2>4. PICK f : Of(s, n, f)
      BY <1>1, <2>1
  <2>5. PICK h : Of(t, n + 1, h)
      BY <1>1, <2>3
  <2>6. \A i \in 1 .. n : h[i] = PackTurn(i, h[i - 1], s[i])
    <3>1. \A i \in 1 .. n : i \in 1 .. n + 1
        BY <2>3
    <3>2. QED
        BY <2>3, <2>5, <3>1
  <2>7. \A i \in 1 .. n : f[i - 1] = h[i - 1] => f[i] = h[i]
      BY <2>4, <2>6
  <2>8. \A i \in 0 .. n : f[i] = h[i]
    <3>1. f[0] = h[0]
        BY <2>4, <2>5
    <3>2. n \in Nat
        BY <2>3
    <3>3. Alike(n, f, h)
        BY <2>7, <3>1 DEF Alike
    <3>4. QED
        BY <3>2, <3>3, SameSteps DEF Same
  <2>9. n \in 0 .. n /\ n + 1 \in 1 .. n + 1 /\ (n + 1) - 1 = n
      BY <2>3
  <2>10. f[n] = h[n]
      BY <2>8, <2>9
  <2>11. h[n + 1] = PackTurn(n + 1, h[n], t[n + 1])
      BY <2>5, <2>9
  <2>12. QED
      BY <2>1, <2>2, <2>3, <2>4, <2>5, <2>10, <2>11
<1>5. QED
    BY <1>2, <1>3, <1>4

LEMMA LineAlgebra ==
    /\ \A u \in Lines : u \o <<>> = u /\ <<>> \o u = u
    /\ \A u, t, v \in Lines : (u \o t) \o v = u \o (t \o v)
    /\ \A u \in Lines, c \in Chars : <<c>> \in Lines /\ Append(u, c) = u \o <<c>>
    /\ \A u, t \in Lines, c \in Chars :
         Append(t, c) \in Lines /\ u \o Append(t, c) = Append(u \o t, c)
<1>1. \A u \in Lines : u \o <<>> = u /\ <<>> \o u = u
    BY ConcatEmptySeq DEF Lines
<1>2. \A u, t, v \in Lines : (u \o t) \o v = u \o (t \o v)
    BY ConcatAssociative DEF Lines
<1>3. \A u \in Lines, c \in Chars : <<c>> \in Lines /\ Append(u, c) = u \o <<c>>
    BY AppendIsConcat DEF Lines
<1>4. \A u, t \in Lines, c \in Chars :
        Append(t, c) \in Lines /\ u \o Append(t, c) = Append(u \o t, c)
  <2> TAKE u, t \in Lines, c \in Chars
  <2>1. Append(t, c) \in Lines
      BY DEF Lines
  <2>2. u \o t \in Lines
      BY Spaced
  <2>3. Append(u \o t, c) = (u \o t) \o <<c>> /\ Append(t, c) = t \o <<c>> /\ <<c>> \in Lines
      BY <1>3, <2>2
  <2>4. QED
      BY <1>2, <2>1, <2>3
<1>5. QED
    BY <1>1, <1>2, <1>3, <1>4

\* RunIs, of all lines.
LEMMA LineRun ==
    /\ Parser!Run(<<>>) = Parser!Begin /\ <<>> \in Lines
    /\ \A s \in Lines : Parser!Run(s) \in ParseStates(Chars)
    /\ \A s \in Lines, c \in Chars :
         Parser!Run(Append(s, c)) = Parser!ParseChar(Parser!Run(s), c)
<1>1. Chars \subseteq Chars
    OBVIOUS
<1>2. QED
    BY <1>1, RunIs DEF Lines

\* A text that is read in the same way behind everything that is behind no
\* token or behind the end of one: the beginning of a token, or all of it.
Clean(t, st) ==
    \A u \in Lines : Parser!Run(u).state \in Blank =>
        Parser!Run(u \o t) = [state |-> st, text |-> t, tokens |-> Parser!Run(u).tokens]

LEMMA CleanBegins ==
    ASSUME NEW c \in Chars, c \in Parser!Visible
    PROVE  Clean(<<c>>, Parser!Within("token", c))
<1> SUFFICES ASSUME NEW u \in Lines, Parser!Run(u).state \in Blank
             PROVE  Parser!Run(u \o <<c>>) =
                      [state |-> Parser!Within("token", c), text |-> <<c>>,
                       tokens |-> Parser!Run(u).tokens]
    BY DEF Clean
<1>1. PICK p \in ParseStates(Chars) : p = Parser!Run(u)
    BY LineRun
<1>2. Parser!Run(u \o <<c>>) = Parser!ParseChar(p, c)
    BY <1>1, LineRun, LineAlgebra
<1>3. Parser!ParseChar(p, c) =
        [state |-> Parser!Within("token", c), text |-> <<c>>, tokens |-> p.tokens]
    BY <1>1, Turns
<1>4. QED
    BY <1>1, <1>2, <1>3

LEMMA CleanGoesOn ==
    ASSUME NEW t \in Lines, NEW st \in Inside, Clean(t, st), NEW c \in Chars,
           ~ (st = "token" /\ c \in {" ", "NUL"})
    PROVE  Clean(Append(t, c), Within(st, c))
<1> SUFFICES ASSUME NEW u \in Lines, Parser!Run(u).state \in Blank
             PROVE  Parser!Run(u \o Append(t, c)) =
                      [state |-> Within(st, c), text |-> Append(t, c),
                       tokens |-> Parser!Run(u).tokens]
    BY DEF Clean
<1>1. PICK p \in ParseStates(Chars) : p = Parser!Run(u \o t)
    BY LineRun, Spaced
<1>2. p.state = st /\ p.text = t /\ p.tokens = Parser!Run(u).tokens
  <2>1. Parser!Run(u \o t) = [state |-> st, text |-> t, tokens |-> Parser!Run(u).tokens]
      BY DEF Clean
  <2>2. p = [state |-> st, text |-> t, tokens |-> Parser!Run(u).tokens]
      BY <1>1, <2>1
  <2>3. QED
      BY <2>2
<1>3. Parser!Run(u \o Append(t, c)) = Parser!ParseChar(p, c)
    BY <1>1, LineRun, LineAlgebra, Spaced
<1>4. Parser!ParseChar(p, c) =
        [state |-> Within(p.state, c), text |-> Append(p.text, c), tokens |-> p.tokens]
    BY <1>2, Turns
<1>5. QED
    BY <1>2, <1>3, <1>4

\* What the loop knows of a line.
LineOK(s) ==
    LET p == Parser!Run(s)
    IN /\ p.state \in Blank => p.text = <<>>
       /\ p.state \in Inside => Clean(p.text, p.state)
       /\ \A i \in 1 .. Len(p.tokens) : Clean(p.tokens[i].text, "token")

LEMMA LinesOK == \A s \in Lines : LineOK(s)
<1> DEFINE T == {s \in Lines : LineOK(s)}
<1>1. <<>> \in T
  <2>1. Parser!Begin.state \in Blank /\ Parser!Begin.state \notin Inside
        /\ Parser!Begin.text = <<>> /\ Len(Parser!Begin.tokens) = 0
      BY DEF Parser!Begin, Blank, Inside
  <2>2. LineOK(<<>>)
      BY <2>1, LineRun DEF LineOK
  <2>3. QED
      BY <2>2, LineRun
<1>2. ASSUME NEW s \in Lines, NEW c \in Chars, s \in T PROVE Append(s, c) \in T
  <2>1. PICK p \in ParseStates(Chars) : p = Parser!Run(s)
      BY LineRun
  <2>2. PICK q : q = Parser!ParseChar(p, c)
      OBVIOUS
  <2>3. Append(s, c) \in Lines /\ Parser!Run(Append(s, c)) = q
      BY <2>1, <2>2, LineRun, LineAlgebra
  <2>4. /\ p.state \in Blank => p.text = <<>>
        /\ p.state \in Inside => Clean(p.text, p.state)
        /\ \A i \in 1 .. Len(p.tokens) : Clean(p.tokens[i].text, "token")
      BY <1>2, <2>1 DEF LineOK
  <2>5. p.state \in Blank \cup Inside /\ p.text \in Lines /\ p.tokens \in Seq(TokensIn(Chars))
      BY DEF ParseStates, Lines
  <2>6. /\ q.state \in Blank => q.text = <<>>
        /\ q.state \in Inside => Clean(q.text, q.state)
        /\ \A i \in 1 .. Len(q.tokens) : Clean(q.tokens[i].text, "token")
    <3>1. Blank \cap Inside = {} /\ "whitespace" \in Blank /\ "token" \in Inside
        BY DEF Blank, Inside
    <3>2. p.state \in Blank => c \in Parser!Visible \/ c = "~" \/ c \in {" ", "NUL"}
        BY DEF Parser!Visible, Parser!Quotes, Chars
    <3>3. CASE p.state \in Blank /\ c \in Parser!Visible
      <4>1. q = [state |-> Parser!Within("token", c), text |-> <<c>>, tokens |-> p.tokens]
          BY <2>2, <3>3, Turns
      <4>2. Clean(<<c>>, Parser!Within("token", c)) /\ Parser!Within("token", c) \in Inside
          BY <3>1, <3>3, CleanBegins, WithinInside
      <4>3. QED
          BY <2>4, <3>1, <4>1, <4>2
    <3>4. CASE p.state \in Blank /\ c = "~"
        BY <2>2, <2>4, <3>4, Turns
    <3>5. CASE p.state \in Blank /\ c \in {" ", "NUL"}
      <4>1. q = [state |-> "whitespace", text |-> p.text, tokens |-> p.tokens]
          BY <2>2, <3>5, Turns
      <4>2. QED
          BY <2>4, <3>1, <3>5, <4>1
    <3>6. CASE p.state = "token" /\ c \in {" ", "NUL"}
      <4>1. q = [state |-> "whitespace", text |-> <<>>,
                 tokens |-> Append(p.tokens, Parser!TokenOf(p.text))]
          BY <2>2, <3>6, Turns
      <4>2. Clean(p.text, "token")
          BY <2>4, <3>1, <3>6
      <4>3. PICK k : k = Parser!TokenOf(p.text)
          OBVIOUS
      <4>4. k \in TokensIn(Chars) /\ k.text = p.text
          BY <2>5, <4>3, TextOfToken DEF TokensIn, Lines
      <4>5. PICK r : r = Append(p.tokens, k)
          OBVIOUS
      <4>6. /\ Len(r) = Len(p.tokens) + 1 /\ Len(p.tokens) \in Nat
            /\ \A i \in 1 .. Len(p.tokens) : r[i] = p.tokens[i]
            /\ r[Len(p.tokens) + 1] = k
          BY <2>5, <4>4, <4>5, Appending
      <4>7. \A i \in 1 .. Len(r) : Clean(r[i].text, "token")
        <5>1. \A i \in 1 .. Len(r) : i \in 1 .. Len(p.tokens) \/ i = Len(p.tokens) + 1
            BY <4>6
        <5>2. QED
            BY <2>4, <4>2, <4>4, <4>6, <5>1
      <4>8. QED
          BY <3>1, <4>1, <4>3, <4>5, <4>7
    <3>7. CASE p.state \in Inside /\ ~ (p.state = "token" /\ c \in {" ", "NUL"})
      <4>1. q = [state |-> Within(p.state, c), text |-> Append(p.text, c), tokens |-> p.tokens]
          BY <2>2, <3>7, Turns
      <4>2. Clean(Append(p.text, c), Within(p.state, c))
          BY <2>4, <2>5, <3>7, CleanGoesOn
      <4>3. Within(p.state, c) \in Inside
          BY <3>7, WithinInside DEF Within
      <4>4. QED
          BY <2>4, <3>1, <4>1, <4>2, <4>3
    <3>8. QED
        BY <2>5, <3>2, <3>3, <3>4, <3>5, <3>6, <3>7
  <2>7. LineOK(Append(s, c))
      BY <2>3, <2>6 DEF LineOK
  <2>8. QED
      BY <2>3, <2>7
<1> HIDE DEF T
<1>3. Lines \subseteq T
    BY <1>1, <1>2, SeqInduction DEF Lines
<1>4. QED
    BY <1>3 DEF T

\* The texts of tokens, and the tokens of texts.
Words == {x \in Lines : Clean(x, "token")}
TokensOf(ws) == [i \in 1 .. Len(ws) |-> Parser!TokenOf(ws[i])]

LEMMA WordsAreLines == Words \subseteq Lines /\ Seq(Words) \subseteq Seq(Lines)
<1>1. Words \subseteq Lines
    BY DEF Words
<1>2. ASSUME NEW ws \in Seq(Words) PROVE ws \in Seq(Lines)
  <2>1. \A i \in 1 .. Len(ws) : ws[i] \in Lines
      BY <1>1
  <2>2. QED
      BY <2>1
<1>3. QED
    BY <1>1, <1>2

LEMMA TokensOfIs ==
    /\ TokensOf(<<>>) = <<>>
    /\ \A ws \in Seq(Words) : TokensOf(ws) \in Seq(TokensIn(Chars))
    /\ \A ws \in Seq(Words), w \in Words :
         TokensOf(Append(ws, w)) = Append(TokensOf(ws), Parser!TokenOf(w))
<1>1. TokensOf(<<>>) = <<>>
    BY DEF TokensOf
<1>2. \A w \in Words : Parser!TokenOf(w) \in TokensIn(Chars)
    BY DEF Words, TokensIn, Lines
<1>3. ASSUME NEW ws \in Seq(Words) PROVE TokensOf(ws) \in Seq(TokensIn(Chars))
  <2>1. Len(ws) \in Nat /\ \A i \in 1 .. Len(ws) : ws[i] \in Words
      OBVIOUS
  <2>2. \A i \in 1 .. Len(ws) : Parser!TokenOf(ws[i]) \in TokensIn(Chars)
      BY <1>2, <2>1
  <2>3. QED
      BY <2>1, <2>2 DEF TokensOf
<1>4. ASSUME NEW ws \in Seq(Words), NEW w \in Words
      PROVE  TokensOf(Append(ws, w)) = Append(TokensOf(ws), Parser!TokenOf(w))
  <2>1. PICK n : n = Len(ws)
      OBVIOUS
  <2>2. PICK v \in Seq(Words) : v = Append(ws, w)
      BY Appending
  <2>3. /\ n \in Nat /\ Len(v) = n + 1 /\ v[n + 1] = w
        /\ \A i \in 1 .. n : v[i] = ws[i]
      BY <2>1, <2>2, Appending
  <2>4. PICK k \in TokensIn(Chars) : k = Parser!TokenOf(w)
      BY <1>2
  <2>5. PICK a \in Seq(TokensIn(Chars)) : a = TokensOf(ws)
      BY <1>3
  <2>6. PICK b \in Seq(TokensIn(Chars)) : b = TokensOf(v)
      BY <1>3
  <2>7. Len(a) = n /\ \A i \in 1 .. n : a[i] = Parser!TokenOf(ws[i])
      BY <2>1, <2>3, <2>5 DEF TokensOf
  <2>8. Len(b) = n + 1 /\ \A i \in 1 .. n + 1 : b[i] = Parser!TokenOf(v[i])
      BY <2>3, <2>6 DEF TokensOf
  <2>9. PICK e \in Seq(TokensIn(Chars)) : e = Append(a, k)
      BY Appending
  <2>10. Len(e) = n + 1 /\ (\A i \in 1 .. n : e[i] = a[i]) /\ e[n + 1] = k
      BY <2>7, <2>9, Appending
  <2>11. \A i \in 1 .. n + 1 : b[i] = e[i]
    <3>1. \A i \in 1 .. n + 1 : i \in 1 .. n \/ i = n + 1
        BY <2>3
    <3>2. QED
        BY <2>3, <2>4, <2>7, <2>8, <2>10, <3>1
  <2>12. b = e
      BY <2>8, <2>10, <2>11, SeqEqual
  <2>13. QED
      BY <2>2, <2>4, <2>5, <2>6, <2>9, <2>12
<1>5. QED
    BY <1>1, <1>3, <1>4

\* A line of texts, behind whatever is between tokens, is read as their tokens.
LEMMA JoinedRun ==
    ASSUME NEW u \in Lines, Parser!Run(u).state \in Blank
    PROVE  \A ws \in Seq(Words), c \in {" ", "NUL"} :
             Parser!ParseChar(Parser!Run(u \o Parser!Joined(ws)), c) =
               [state |-> "whitespace", text |-> <<>>,
                tokens |-> Parser!Run(u).tokens \o TokensOf(ws)]
<1> DEFINE Read(ws, c) == Parser!ParseChar(Parser!Run(u \o Parser!Joined(ws)), c)
           Done(ws) == [state |-> "whitespace", text |-> <<>>,
                        tokens |-> Parser!Run(u).tokens \o TokensOf(ws)]
           T == {ws \in Seq(Words) : \A c \in {" ", "NUL"} : Read(ws, c) = Done(ws)}
<1>1. PICK tokensOf : tokensOf = Parser!Run(u).tokens
    OBVIOUS
<1>2. tokensOf \in Seq(TokensIn(Chars)) /\ {" ", "NUL"} \subseteq Chars
    BY <1>1, LineRun DEF ParseStates, Chars
<1>3. <<>> \in T
  <2>1. PICK p \in ParseStates(Chars) : p = Parser!Run(u)
      BY LineRun
  <2>2. p.state \in Blank /\ p.text = <<>> /\ p.tokens = tokensOf
      BY <1>1, <2>1, LinesOK DEF LineOK
  <2>3. \A c \in {" ", "NUL"} : Parser!ParseChar(p, c) =
          [state |-> "whitespace", text |-> <<>>, tokens |-> tokensOf]
      BY <1>2, <2>2, Turns
  <2>4. u \o Parser!Joined(<<>>) = u
      BY JoinedIs, LineAlgebra
  <2>5. tokensOf \o TokensOf(<<>>) = tokensOf
      BY <1>2, TokensOfIs, ConcatEmptySeq
  <2>6. \A c \in {" ", "NUL"} : Read(<<>>, c) = Done(<<>>)
      BY <1>1, <2>1, <2>3, <2>4, <2>5
  <2>7. <<>> \in Seq(Words)
      OBVIOUS
  <2>8. QED
      BY <2>6, <2>7
<1>4. ASSUME NEW ws \in Seq(Words), NEW w \in Words, ws \in T PROVE Append(ws, w) \in T
  <2>1. ws \in Seq(Lines) /\ w \in Lines /\ Clean(w, "token") /\ Append(ws, w) \in Seq(Words)
    <3>1. Clean(w, "token")
        BY DEF Words
    <3>2. QED
        BY <3>1, WordsAreLines, Appending
  <2>2. PICK j : j = Parser!Joined(ws)
      OBVIOUS
  <2>3. PICK toks : toks = tokensOf \o TokensOf(ws)
      OBVIOUS
  <2>4. j \in Lines /\ toks \in Seq(TokensIn(Chars))
      BY <1>2, <2>1, <2>2, <2>3, JoinedIs, TokensOfIs, ConcatProperties
  <2>5. \E v \in Lines : /\ Parser!Run(v).state \in Blank /\ Parser!Run(v).tokens = toks
                         /\ u \o Parser!Joined(Append(ws, w)) = v \o w
    <3>1. CASE ws = <<>>
      <4>1. Parser!Joined(Append(ws, w)) = w
        <5>1. Len(ws) + 1 = 1
            BY <3>1
        <5>2. Parser!Joined(Append(ws, w)) = JoinTurn(Len(ws) + 1, Parser!Joined(ws), w)
            BY <2>1, JoinedIs
        <5>3. QED
            BY <5>1, <5>2 DEF JoinTurn
      <4>2. toks = tokensOf
          BY <1>2, <2>3, <3>1, TokensOfIs, ConcatEmptySeq
      <4>3. QED
          BY <1>1, <4>1, <4>2
    <3>2. CASE ws # <<>>
      <4>1. Parser!Joined(Append(ws, w)) = j \o <<" ">> \o w
        <5>1. Len(ws) + 1 # 1
            BY <3>2
        <5>2. Parser!Joined(Append(ws, w)) = JoinTurn(Len(ws) + 1, Parser!Joined(ws), w)
            BY <2>1, JoinedIs
        <5>3. QED
            BY <2>2, <5>1, <5>2 DEF JoinTurn
      <4>2. PICK c : c = " "
          OBVIOUS
      <4>3. c \in {" ", "NUL"} /\ c \in Chars
          BY <1>2, <4>2
      <4>4. PICK v : v = Append(u \o j, c)
          OBVIOUS
      <4>5. PICK jc \in Lines : jc = j \o <<c>> /\ jc = Append(j, c)
          BY <2>4, <4>3, LineAlgebra
      <4>6. v \in Lines /\ v = u \o jc
        <5>1. u \o j \in Lines
            BY <2>4, Spaced
        <5>2. v \in Lines
            BY <4>3, <4>4, <5>1, LineAlgebra
        <5>3. v = u \o Append(j, c)
            BY <2>4, <4>3, <4>4, LineAlgebra
        <5>4. QED
            BY <4>5, <5>2, <5>3
      <4>7. Parser!Run(v) = Read(ws, c)
          BY <2>2, <2>4, <4>3, <4>4, LineRun, Spaced
      <4>8. Parser!Run(v) = [state |-> "whitespace", text |-> <<>>, tokens |-> toks]
          BY <1>1, <1>4, <2>3, <4>3, <4>7
      <4>9. u \o (jc \o w) = v \o w
          BY <2>1, <4>6, LineAlgebra
      <4>10. j \o <<" ">> \o w = jc \o w
          BY <4>2, <4>5
      <4>11. Parser!Run(v).state \in Blank /\ Parser!Run(v).tokens = toks
          BY <4>8 DEF Blank
      <4>12. QED
          BY <4>1, <4>6, <4>9, <4>10, <4>11
    <3>3. QED
        BY <3>1, <3>2
  <2>6. PICK v \in Lines : /\ Parser!Run(v).state \in Blank /\ Parser!Run(v).tokens = toks
                           /\ u \o Parser!Joined(Append(ws, w)) = v \o w
      BY <2>5
  <2>7. PICK p \in ParseStates(Chars) : p = Parser!Run(v \o w)
      BY <2>1, LineRun, Spaced
  <2>8. p = [state |-> "token", text |-> w, tokens |-> toks]
      BY <2>1, <2>6, <2>7 DEF Clean
  <2>9. \A c \in {" ", "NUL"} :
          Parser!ParseChar(p, c) = [state |-> "whitespace", text |-> <<>>,
                                    tokens |-> Append(toks, Parser!TokenOf(w))]
    <3> TAKE c \in {" ", "NUL"}
    <3>1. p.state = "token" /\ p.text = w /\ p.tokens = toks /\ c \in Chars
        BY <1>2, <2>8
    <3>2. Parser!ParseChar(p, c) =
            [state |-> "whitespace", text |-> <<>>,
             tokens |-> Append(p.tokens, Parser!TokenOf(p.text))]
        BY <3>1, Turns
    <3>3. QED
        BY <3>1, <3>2
  <2>10. Append(toks, Parser!TokenOf(w)) = tokensOf \o TokensOf(Append(ws, w))
    <3>1. PICK k : k = Parser!TokenOf(w)
        OBVIOUS
    <3>2. k \in TokensIn(Chars)
        BY <2>1, <3>1 DEF TokensIn, Lines
    <3>3. PICK a \in Seq(TokensIn(Chars)) : a = TokensOf(ws)
        BY TokensOfIs
    <3>4. TokensOf(Append(ws, w)) = Append(a, k)
        BY <3>1, <3>3, TokensOfIs
    <3>5. toks = tokensOf \o a
        BY <2>3, <3>3
    <3>6. Append(toks, k) = toks \o <<k>> /\ Append(a, k) = a \o <<k>> /\ <<k>> \in Seq(TokensIn(Chars))
        BY <2>4, <3>2, AppendIsConcat
    <3>7. (tokensOf \o a) \o <<k>> = tokensOf \o (a \o <<k>>)
      <4>1. PICK e \in Seq(TokensIn(Chars)) : e = <<k>>
          BY <3>6
      <4>2. PICK S : S = TokensIn(Chars)
          OBVIOUS
      <4>3. \A x, y, z \in Seq(S) : (x \o y) \o z = x \o (y \o z)
          BY ConcatAssociative
      <4>4. (tokensOf \o a) \o e = tokensOf \o (a \o e)
          BY <1>2, <4>2, <4>3
      <4>5. QED
          BY <4>1, <4>4
    <3>8. QED
        BY <3>1, <3>4, <3>5, <3>6, <3>7
  <2>11. \A c \in {" ", "NUL"} : Read(Append(ws, w), c) = Done(Append(ws, w))
      BY <1>1, <2>6, <2>7, <2>9, <2>10
  <2>12. QED
      BY <2>1, <2>11
<1> HIDE DEF T
<1>5. Seq(Words) \subseteq T
    BY <1>3, <1>4, SeqInduction
<1>6. QED
    BY <1>5 DEF T

\* The tokens of a line are those of their texts, which are of the characters
\* of the line.
LEMMA ParsedTokens ==
    ASSUME NEW D, D \subseteq Chars, "NUL" \in D, NEW s \in Seq(D)
    PROVE  /\ Parser!Tokens(s) \in Seq(TokensIn(D))
           /\ \A i \in 1 .. Len(Parser!Tokens(s)) :
                /\ Parser!Tokens(s)[i].text \in Seq(D) \cap Words
                /\ Parser!Tokens(s)[i] = Parser!TokenOf(Parser!Tokens(s)[i].text)
           /\ Parser!Texts(Parser!Tokens(s)) \in Seq(Words)
           /\ TokensOf(Parser!Texts(Parser!Tokens(s))) = Parser!Tokens(s)
<1>1. PICK c \in D : c = "NUL"
    OBVIOUS
<1>2. PICK t \in Seq(D) : t = Append(s, c)
    BY Appending
<1>3. t \in Lines
  <2>1. \A i \in 1 .. Len(t) : t[i] \in Chars
      OBVIOUS
  <2>2. QED
      BY <2>1 DEF Lines
<1>4. PICK p \in ParseStates(D) : p = Parser!Run(t)
    BY RunIs
<1>5. PICK toks \in Seq(TokensIn(D)) : toks = p.tokens
    BY DEF ParseStates
<1>6. Parser!Tokens(s) = toks
    BY <1>1, <1>2, <1>4, <1>5 DEF Parser!Tokens, Parser!Parse, Parser!Nul
<1>7. \A i \in 1 .. Len(toks) : Clean(toks[i].text, "token")
    BY <1>3, <1>4, <1>5, LinesOK DEF LineOK
<1>8. ASSUME NEW i \in 1 .. Len(toks)
      PROVE  toks[i].text \in Seq(D) \cap Words /\ toks[i] = Parser!TokenOf(toks[i].text)
  <2>1. toks[i] \in TokensIn(D)
      OBVIOUS
  <2>2. PICK x \in Seq(D) : toks[i] = Parser!TokenOf(x)
      BY <2>1 DEF TokensIn
  <2>3. toks[i].text = x
      BY <2>2, TextOfToken
  <2>4. x \in Lines
    <3>1. \A j \in 1 .. Len(x) : x[j] \in Chars
        OBVIOUS
    <3>2. QED
        BY <3>1 DEF Lines
  <2>5. QED
      BY <1>7, <2>2, <2>3, <2>4 DEF Words
<1>9. PICK ws : ws = Parser!Texts(toks)
    OBVIOUS
<1>10. ws \in Seq(Words) /\ Len(ws) = Len(toks) /\ \A i \in 1 .. Len(toks) : ws[i] = toks[i].text
  <2>1. DOMAIN toks = 1 .. Len(toks) /\ Len(toks) \in Nat
      OBVIOUS
  <2>2. ws = [i \in 1 .. Len(toks) |-> toks[i].text]
      BY <1>9, <2>1 DEF Parser!Texts
  <2>3. \A i \in 1 .. Len(toks) : toks[i].text \in Words
      BY <1>8
  <2>4. QED
      BY <2>1, <2>2, <2>3
<1>11. TokensOf(ws) = toks
  <2>1. TokensOf(ws) = [i \in 1 .. Len(toks) |-> Parser!TokenOf(ws[i])]
      BY <1>10 DEF TokensOf
  <2>2. \A i \in 1 .. Len(toks) : Parser!TokenOf(ws[i]) = toks[i]
      BY <1>8, <1>10
  <2>3. toks = [i \in 1 .. Len(toks) |-> toks[i]]
      OBVIOUS
  <2>4. QED
      BY <2>1, <2>2, <2>3
<1>12. QED
    BY <1>6, <1>8, <1>9, <1>10, <1>11

\* The tokens of a line behind the end of which another begins.
LEMMA ParseIs ==
    \A s \in Lines : Parser!Tokens(s) = Parser!ParseChar(Parser!Run(s), "NUL").tokens
<1>1. "NUL" \in Chars
    BY DEF Chars
<1>2. QED
    BY <1>1, LineRun DEF Parser!Tokens, Parser!Parse, Parser!Nul

\* A token alone, and the tokens of a line of texts.
LEMMA TokenAlone == \A x \in Words : Parser!Tokens(x) = <<Parser!TokenOf(x)>>
<1> SUFFICES ASSUME NEW x \in Words PROVE Parser!Tokens(x) = <<Parser!TokenOf(x)>>
    OBVIOUS
<1>1. PICK u \in Lines : u = <<>> /\ u \o x = x
    BY LineRun, LineAlgebra DEF Words
<1>2. Parser!Run(u).state \in Blank /\ Parser!Run(u).tokens = <<>>
    BY <1>1, LineRun DEF Parser!Begin, Blank
<1>3. PICK p \in ParseStates(Chars) : p = Parser!Run(x)
    BY LineRun DEF Words
<1>4. p = [state |-> "token", text |-> x, tokens |-> <<>>]
    BY <1>1, <1>2, <1>3 DEF Words, Clean
<1>5. PICK c \in Chars : c = "NUL"
    BY DEF Chars
<1>6. Parser!ParseChar(p, c) =
        [state |-> "whitespace", text |-> <<>>, tokens |-> Append(<<>>, Parser!TokenOf(x))]
  <2>1. p.state = "token" /\ p.text = x /\ p.tokens = <<>> /\ c \in {" ", "NUL"}
      BY <1>4, <1>5
  <2>2. Parser!ParseChar(p, c) =
          [state |-> "whitespace", text |-> <<>>,
           tokens |-> Append(p.tokens, Parser!TokenOf(p.text))]
      BY <2>1, Turns
  <2>3. QED
      BY <2>1, <2>2
<1>7. QED
    BY <1>3, <1>5, <1>6, ParseIs DEF Words

LEMMA JoinedTokens ==
    ASSUME NEW u \in Lines, Parser!Run(u).state \in Blank, NEW ws \in Seq(Words)
    PROVE  Parser!Tokens(u \o Parser!Joined(ws)) = Parser!Run(u).tokens \o TokensOf(ws)
<1>1. PICK c \in {" ", "NUL"} : c = "NUL"
    OBVIOUS
<1>2. Parser!Joined(ws) \in Lines
    BY WordsAreLines, JoinedIs
<1>3. PICK q : q = Parser!ParseChar(Parser!Run(u \o Parser!Joined(ws)), c)
    OBVIOUS
<1>4. Parser!Tokens(u \o Parser!Joined(ws)) = q.tokens
    BY <1>1, <1>2, <1>3, ParseIs, Spaced
<1>5. q =
        [state |-> "whitespace", text |-> <<>>, tokens |-> Parser!Run(u).tokens \o TokensOf(ws)]
    BY <1>3, JoinedRun
<1>6. QED
    BY <1>4, <1>5

\* Without quotations a parameter is written as it was read.
Plain == Chars \ Parser!Quotes

LEMMA PlainText ==
    ASSUME NEW x \in Seq(Plain)
    PROVE  /\ Parser!Word(Parser!TokenOf(x)) = x
           /\ Parser!TokenOf(x).name = Parser!NoName => Parser!TokenOf(x).value = x
<1>1. ASSUME NEW v \in Seq(Plain) PROVE Parser!Unquote(v) = v
  <2>1. v = <<>> \/ v[1] \in Plain
      OBVIOUS
  <2>2. QED
      BY <2>1 DEF Parser!Unquote, Plain
<1>2. CASE ~ Parser!Contains(x, "=")
  <2>1. Parser!TokenOf(x) = [name |-> Parser!NoName, value |-> x, text |-> x]
      BY <1>1, <1>2 DEF Parser!TokenOf
  <2>2. QED
      BY <2>1 DEF Parser!Word
<1>3. CASE Parser!Contains(x, "=")
  <2>1. PICK n \in Nat : n = Len(x) /\ DOMAIN x = 1 .. n /\ \A i \in 1 .. n : x[i] \in Plain
      OBVIOUS
  <2> DEFINE At == {i \in DOMAIN x : x[i] = "="}
  <2>2. \E i \in At : \A j \in At : i <= j
    <3>1. At \subseteq Nat /\ At # {}
        BY <1>3, <2>1 DEF Parser!Contains
    <3>2. QED
        BY <3>1, Smallest
  <2>3. PICK k : k = Parser!SplitAt(x)
      OBVIOUS
  <2>4. k \in At
      BY <2>2, <2>3 DEF Parser!SplitAt
  <2>5. k \in 1 .. n /\ x[k] = "="
      BY <2>1, <2>4
  <2>6. PICK a \in Seq(Plain) : /\ a = SubSeq(x, 1, k - 1) /\ Len(a) = k - 1
                                /\ \A i \in 1 .. k - 1 : a[i] = x[i]
    <3>1. SubSeq(x, 1, k - 1) \in Seq(Plain) /\ Len(SubSeq(x, 1, k - 1)) = k - 1
        BY <2>1, <2>5
    <3>2. \A i \in 1 .. k - 1 : SubSeq(x, 1, k - 1)[i] = x[i]
        BY <2>1, <2>5
    <3>3. QED
        BY <3>1, <3>2
  <2>7. PICK b \in Seq(Plain) : /\ b = SubSeq(x, k + 1, n) /\ Len(b) = n - k
                                /\ \A i \in 1 .. n - k : b[i] = x[k + i]
    <3>1. SubSeq(x, k + 1, n) \in Seq(Plain) /\ Len(SubSeq(x, k + 1, n)) = n - k
        BY <2>1, <2>5
    <3>2. \A i \in 1 .. n - k : SubSeq(x, k + 1, n)[i] = x[k + i]
        BY <2>1, <2>5
    <3>3. QED
        BY <3>1, <3>2
  <2>8. Parser!TokenOf(x) = [name |-> a, value |-> b, text |-> x]
      BY <1>1, <1>3, <2>1, <2>3, <2>6, <2>7 DEF Parser!TokenOf
  <2>9. a # Parser!NoName
    <3>1. CASE k = 1
        BY <2>6, <3>1 DEF Parser!NoName
    <3>2. CASE k # 1
      <4>1. 1 \in 1 .. k - 1 /\ 1 \in 1 .. n
          BY <2>5, <3>2
      <4>2. a[1] \in Chars
          BY <2>1, <2>6, <4>1 DEF Plain
      <4>3. Parser!NoName[1] \notin Chars
          BY DEF Parser!NoName, Chars
      <4>4. QED
          BY <4>2, <4>3
    <3>3. QED
        BY <3>1, <3>2
  <2>10. Parser!Word(Parser!TokenOf(x)) = a \o <<"=">> \o b
      BY <2>8, <2>9 DEF Parser!Word
  <2>11. a \o <<"=">> \o b = x
    <3>1. PICK e \in Seq(Plain) : e = <<"=">> /\ Len(e) = 1 /\ e[1] = "="
      <4>1. PICK c \in Plain : c = "="
          BY DEF Plain, Chars, Parser!Quotes
      <4>2. <<c>> \in Seq(Plain) /\ Len(<<c>>) = 1 /\ <<c>>[1] = c
          OBVIOUS
      <4>3. QED
          BY <4>1, <4>2
    <3>2. PICK y \in Seq(Plain) : /\ y = a \o e /\ Len(y) = k
                                  /\ \A i \in 1 .. k : y[i] = x[i]
      <4>1. a \o e \in Seq(Plain) /\ Len(a \o e) = k
          BY <2>5, <2>6, <3>1
      <4>2. \A i \in 1 .. k : (a \o e)[i] = x[i]
        <5> TAKE i \in 1 .. k
        <5>1. (a \o e)[i] = IF i <= k - 1 THEN a[i] ELSE e[i - (k - 1)]
            BY <2>5, <2>6, <3>1
        <5>2. CASE i <= k - 1
            BY <2>5, <2>6, <5>1, <5>2
        <5>3. CASE ~ (i <= k - 1)
          <6>1. i = k /\ i - (k - 1) = 1
              BY <2>5, <5>3
          <6>2. QED
              BY <2>5, <3>1, <5>1, <5>3, <6>1
        <5>4. QED
            BY <5>2, <5>3
      <4>3. QED
          BY <4>1, <4>2
    <3>3. PICK z \in Seq(Plain) : z = y \o b /\ Len(z) = n
      <4>1. y \o b \in Seq(Plain) /\ Len(y \o b) = Len(y) + Len(b)
          BY ConcatProperties
      <4>2. k + (n - k) = n
          BY <2>5
      <4>3. QED
          BY <2>7, <3>2, <4>1, <4>2
    <3>4. \A i \in 1 .. n : z[i] = x[i]
      <4> TAKE i \in 1 .. n
      <4>1. z[i] = IF i <= k THEN y[i] ELSE b[i - k]
        <5>1. \A j \in 1 .. Len(y) + Len(b) :
                (y \o b)[j] = IF j <= Len(y) THEN y[j] ELSE b[j - Len(y)]
            BY ConcatProperties
        <5>2. Len(y) + Len(b) = n /\ Len(y) = k
            BY <2>5, <2>7, <3>2
        <5>3. i \in 1 .. Len(y) + Len(b)
            BY <5>2
        <5>4. (y \o b)[i] = IF i <= Len(y) THEN y[i] ELSE b[i - Len(y)]
            BY <5>1, <5>3
        <5>5. QED
            BY <3>3, <5>2, <5>4
      <4>2. CASE i <= k
          BY <3>2, <4>1, <4>2
      <4>3. CASE ~ (i <= k)
        <5>1. i - k \in 1 .. n - k /\ k + (i - k) = i
            BY <2>5, <4>3
        <5>2. QED
            BY <2>7, <4>1, <4>3, <5>1
      <4>4. QED
          BY <4>2, <4>3
    <3>5. z = x
        BY <2>1, <3>3, <3>4, SeqEqual
    <3>6. QED
        BY <3>1, <3>2, <3>3, <3>5
  <2>12. QED
      BY <2>8, <2>9, <2>10, <2>11
<1>4. QED
    BY <1>2, <1>3

\* A word and the line behind it.
LEMMA JoinedPair ==
    ASSUME NEW v \in Lines, NEW w \in Lines
    PROVE  Parser!Joined(<<v, w>>) = v \o <<" ">> \o w
<1>1. PICK e : e = <<>>
    OBVIOUS
<1>2. e \in Seq(Lines) /\ Len(e) = 0
    BY <1>1
<1>3. PICK s : s = Append(e, v)
    OBVIOUS
<1>4. s \in Seq(Lines) /\ Len(s) = 1
    BY <1>2, <1>3
<1>5. <<v, w>> = Append(s, w)
    BY <1>1, <1>3
<1>6. Parser!Joined(s) = v
  <2>1. Parser!Joined(s) = JoinTurn(Len(e) + 1, Parser!Joined(e), v)
      BY <1>2, <1>3, JoinedIs
  <2>2. Len(e) + 1 = 1
      BY <1>2
  <2>3. QED
      BY <2>1, <2>2 DEF JoinTurn
<1>7. Parser!Joined(Append(s, w)) = JoinTurn(Len(s) + 1, Parser!Joined(s), w)
    BY <1>4, JoinedIs
<1>8. Len(s) + 1 # 1
    BY <1>4
<1>9. JoinTurn(Len(s) + 1, Parser!Joined(s), w) = v \o <<" ">> \o w
    BY <1>6, <1>8 DEF JoinTurn
<1>10. QED
    BY <1>5, <1>7, <1>9

\* A command is its name and its parameters.
LEMMA PlainCommand ==
    ASSUME NEW s \in Seq(Plain), Parser!HasCommandName(Parser!Tokens(s))
    PROVE  LET parsed == Parser!Tokens(s)
           IN /\ Parser!Tokens(Parser!Joined(<<parsed[1].value, Parser!ParamsN(parsed, 0)>>))
                     = parsed
              /\ Parser!Match(parsed, parsed[1].value)
<1>1. PICK toks : toks = Parser!Tokens(s)
    OBVIOUS
<1>2. Plain \subseteq Chars /\ "NUL" \in Plain
    BY DEF Plain, Chars, Parser!Quotes
<1>3. /\ toks \in Seq(TokensIn(Plain))
      /\ \A i \in 1 .. Len(toks) : /\ toks[i].text \in Seq(Plain) \cap Words
                                   /\ toks[i] = Parser!TokenOf(toks[i].text)
      /\ Parser!Texts(toks) \in Seq(Words) /\ TokensOf(Parser!Texts(toks)) = toks
    BY <1>1, <1>2, ParsedTokens
<1>4. PICK n \in Nat : n = Len(toks) /\ n >= 1 /\ toks[1].name = Parser!NoName
    BY <1>1, <1>3 DEF Parser!HasCommandName
<1>5. Parser!Match(toks, toks[1].value)
    BY <1>1 DEF Parser!Match
<1>6. PICK v \in Words : v = toks[1].text /\ toks[1] = Parser!TokenOf(v) /\ toks[1].value = v
  <2>1. 1 \in 1 .. Len(toks)
      BY <1>4
  <2>2. QED
      BY <1>3, <1>4, <2>1, PlainText
<1>7. PICK ws : ws = [i \in 1 .. n - 1 |-> toks[i + 1].text]
    OBVIOUS
<1>8. ws \in Seq(Words) /\ Len(ws) = n - 1
  <2>1. \A i \in 1 .. n - 1 : i + 1 \in 1 .. Len(toks)
      BY <1>4
  <2>2. \A i \in 1 .. n - 1 : toks[i + 1].text \in Words
      BY <1>3, <2>1
  <2>3. n - 1 \in Nat
      BY <1>4
  <2>4. QED
      BY <1>7, <2>2, <2>3
<1>9. Parser!ParamsN(toks, 0) = Parser!Joined(ws)
  <2>1. Parser!First(toks) = 1
      BY <1>1 DEF Parser!First
  <2>2. (IF 0 + 1 < Len(toks) THEN Len(toks) - 0 - 1 ELSE 0) = n - 1
      BY <1>4
  <2>3. \A i \in 1 .. n - 1 : Parser!Word(toks[i + 0 + 1]) = toks[i + 1].text
    <3> TAKE i \in 1 .. n - 1
    <3>1. i + 0 + 1 = i + 1 /\ i + 1 \in 1 .. Len(toks)
        BY <1>4
    <3>2. QED
        BY <1>3, <3>1, PlainText
  <2>4. [i \in 1 .. n - 1 |-> Parser!Word(toks[i + 0 + 1])] = ws
      BY <1>7, <2>3
  <2>5. QED
      BY <2>1, <2>2, <2>4 DEF Parser!ParamsN
<1>10. PICK c \in Chars : c = " "
    BY Spaced DEF Chars
<1>11. PICK u : u = Append(v, c)
    OBVIOUS
<1>12. u \in Lines /\ u = v \o <<" ">> /\ v \in Lines
    BY <1>10, <1>11, WordsAreLines, LineAlgebra
<1>13. Parser!Run(u).state \in Blank /\ Parser!Run(u).tokens = <<toks[1]>>
  <2>1. PICK x \in Lines : x = <<>> /\ x \o v = v
      BY <1>12, LineRun, LineAlgebra
  <2>2. Parser!Run(x).state \in Blank /\ Parser!Run(x).tokens = <<>>
      BY <2>1, LineRun DEF Parser!Begin, Blank
  <2>3. PICK p \in ParseStates(Chars) : p = Parser!Run(v)
      BY <1>12, LineRun
  <2>4. Clean(v, "token")
      BY <1>6 DEF Words
  <2>5. p = [state |-> "token", text |-> v, tokens |-> <<>>]
      BY <2>1, <2>2, <2>3, <2>4 DEF Clean
  <2>6. p.state = "token" /\ p.text = v /\ p.tokens = <<>> /\ c \in {" ", "NUL"}
      BY <1>10, <2>5
  <2>7. Parser!ParseChar(p, c) =
          [state |-> "whitespace", text |-> <<>>,
           tokens |-> Append(p.tokens, Parser!TokenOf(p.text))]
      BY <2>6, Turns
  <2>8. Parser!Run(u) = [state |-> "whitespace", text |-> <<>>, tokens |-> <<toks[1]>>]
    <3>1. Parser!Run(u) = Parser!ParseChar(p, c)
        BY <1>11, <1>12, <2>3, LineRun
    <3>2. Append(p.tokens, Parser!TokenOf(p.text)) = <<toks[1]>>
      <4>1. PICK k : k = toks[1]
          OBVIOUS
      <4>2. Parser!TokenOf(p.text) = k
          BY <1>6, <2>6, <4>1
      <4>3. Append(<<>>, k) = <<k>>
          OBVIOUS
      <4>4. QED
          BY <2>6, <4>1, <4>2, <4>3
    <3>3. QED
        BY <2>7, <3>1, <3>2
  <2>9. QED
      BY <2>8 DEF Blank
<1>14. Parser!Tokens(u \o Parser!Joined(ws)) = <<toks[1]>> \o TokensOf(ws)
    BY <1>8, <1>12, <1>13, JoinedTokens
<1>15. <<toks[1]>> \o TokensOf(ws) = toks
  <2>1. TokensOf(ws) = [i \in 1 .. n - 1 |-> toks[i + 1]]
    <3>1. \A i \in 1 .. n - 1 : Parser!TokenOf(ws[i]) = toks[i + 1]
      <4> TAKE i \in 1 .. n - 1
      <4>1. i + 1 \in 1 .. Len(toks)
          BY <1>4
      <4>2. QED
          BY <1>3, <1>7, <4>1
    <3>2. QED
        BY <1>8, <3>1 DEF TokensOf
  <2>2. PICK r \in Seq(TokensIn(Plain)) : r = TokensOf(ws) /\ Len(r) = n - 1
    <3>1. \A i \in 1 .. n - 1 : toks[i + 1] \in TokensIn(Plain)
        BY <1>3, <1>4
    <3>2. n - 1 \in Nat
        BY <1>4
    <3>3. QED
        BY <2>1, <3>1, <3>2
  <2>3. PICK h \in Seq(TokensIn(Plain)) : h = <<toks[1]>> /\ Len(h) = 1 /\ h[1] = toks[1]
    <3>1. PICK k \in TokensIn(Plain) : k = toks[1]
        BY <1>3, <1>4
    <3>2. <<k>> \in Seq(TokensIn(Plain)) /\ Len(<<k>>) = 1 /\ <<k>>[1] = k
        OBVIOUS
    <3>3. QED
        BY <3>1, <3>2
  <2>4. PICK z \in Seq(TokensIn(Plain)) : z = h \o r /\ Len(z) = n
    <3>1. h \o r \in Seq(TokensIn(Plain)) /\ Len(h \o r) = Len(h) + Len(r)
        BY ConcatProperties
    <3>2. 1 + (n - 1) = n
        BY <1>4
    <3>3. QED
        BY <2>2, <2>3, <3>1, <3>2
  <2>5. \A i \in 1 .. n : z[i] = toks[i]
    <3> TAKE i \in 1 .. n
    <3>1. z[i] = IF i <= 1 THEN h[i] ELSE r[i - 1]
        BY <1>4, <2>2, <2>3, <2>4
    <3>2. CASE i = 1
        BY <2>3, <3>1, <3>2
    <3>3. CASE i # 1
      <4>1. i - 1 \in 1 .. n - 1 /\ (i - 1) + 1 = i /\ ~ (i <= 1)
          BY <3>3
      <4>2. QED
          BY <2>1, <2>2, <3>1, <4>1
    <3>4. QED
        BY <3>2, <3>3
  <2>6. z = toks
      BY <1>3, <1>4, <2>4, <2>5, SeqEqual
  <2>7. QED
      BY <2>2, <2>3, <2>4, <2>6
<1>16. Parser!Joined(<<v, Parser!Joined(ws)>>) = u \o Parser!Joined(ws)
  <2>1. Parser!Joined(ws) \in Lines
      BY <1>8, WordsAreLines, JoinedIs
  <2>2. QED
      BY <1>12, <2>1, JoinedPair
<1>17. Parser!Tokens(Parser!Joined(<<toks[1].value, Parser!ParamsN(toks, 0)>>)) = toks
    BY <1>6, <1>9, <1>14, <1>15, <1>16
<1>18. QED
    BY <1>1, <1>5, <1>17

\* Texts that are put together do not lose a character but spaces.
LEMMA PackedParts ==
    \A v, w \in Lines : Parser!Packed(v \o w) = Parser!Packed(v) \o Parser!Packed(w)
<1> SUFFICES ASSUME NEW v \in Lines
             PROVE  \A w \in Lines : Parser!Packed(v \o w) = Parser!Packed(v) \o Parser!Packed(w)
    OBVIOUS
<1> DEFINE T == {w \in Lines : Parser!Packed(v \o w) = Parser!Packed(v) \o Parser!Packed(w)}
<1>1. \A s \in Lines : Parser!Packed(s) \in Lines
    BY PackedIs DEF Lines
<1>2. \A s \in Lines, c \in Chars :
        Parser!Packed(Append(s, c)) =
          IF c = " " THEN Parser!Packed(s) ELSE Append(Parser!Packed(s), c)
    BY PackedIs DEF PackTurn, Lines
<1>3. <<>> \in T
    BY <1>1, LineAlgebra, LineRun, PackedIs
<1>4. ASSUME NEW w \in Lines, NEW c \in Chars, w \in T PROVE Append(w, c) \in T
  <2>1. Append(w, c) \in Lines /\ v \o w \in Lines /\ v \o Append(w, c) = Append(v \o w, c)
      BY LineAlgebra, Spaced
  <2>2. PICK a \in Lines : a = Parser!Packed(v)
      BY <1>1
  <2>3. PICK b \in Lines : b = Parser!Packed(w)
      BY <1>1
  <2>4. Parser!Packed(v \o w) = a \o b
      BY <1>4, <2>2, <2>3
  <2>5. CASE c = " "
    <3>1. Parser!Packed(Append(w, c)) = b
        BY <1>2, <2>3, <2>5
    <3>2. Parser!Packed(v \o Append(w, c)) = a \o b
        BY <1>2, <2>1, <2>4, <2>5
    <3>3. QED
        BY <2>1, <2>2, <3>1, <3>2
  <2>6. CASE c # " "
    <3>1. Parser!Packed(Append(w, c)) = Append(b, c)
        BY <1>2, <2>3, <2>6
    <3>2. Parser!Packed(v \o Append(w, c)) = Append(a \o b, c)
        BY <1>2, <2>1, <2>4, <2>6
    <3>3. a \o Append(b, c) = Append(a \o b, c)
        BY LineAlgebra
    <3>4. QED
        BY <2>1, <2>2, <3>1, <3>2, <3>3
  <2>7. QED
      BY <2>5, <2>6
<1> HIDE DEF T
<1>5. Lines \subseteq T
    BY <1>3, <1>4, SeqInduction DEF Lines
<1>6. QED
    BY <1>5 DEF T

LEMMA PackedJoin ==
    ASSUME NEW ws \in Seq(Lines), NEW w \in Lines
    PROVE  Parser!Packed(Parser!Joined(Append(ws, w))) =
             Parser!Packed(Parser!Joined(ws)) \o Parser!Packed(w)
<1>1. PICK j \in Lines : j = Parser!Joined(ws)
    BY JoinedIs
<1>2. Parser!Joined(Append(ws, w)) = JoinTurn(Len(ws) + 1, j, w)
    BY <1>1, JoinedIs
<1>3. Parser!Packed(w) \in Lines /\ Parser!Packed(j) \in Lines
    BY PackedIs DEF Lines
<1>4. CASE ws = <<>>
  <2>1. Len(ws) + 1 = 1
      BY <1>4
  <2>2. Parser!Joined(Append(ws, w)) = w
      BY <1>2, <2>1 DEF JoinTurn
  <2>3. Parser!Packed(j) = <<>>
      BY <1>1, <1>4, JoinedIs, PackedIs
  <2>4. QED
      BY <1>1, <1>3, <2>2, <2>3, LineAlgebra
<1>5. CASE ws # <<>>
  <2>1. Len(ws) + 1 # 1
      BY <1>5
  <2>2. Parser!Joined(Append(ws, w)) = j \o <<" ">> \o w
      BY <1>2, <2>1 DEF JoinTurn
  <2>3. PICK c \in Chars : c = " "
      BY DEF Chars
  <2>4. PICK a \in Lines : a = Append(j, c) /\ a = j \o <<c>>
    <3>1. Append(j, c) \in Lines
        BY DEF Lines
    <3>2. QED
        BY <3>1, LineAlgebra
  <2>5. Parser!Packed(a) = Parser!Packed(j)
    <3>1. Parser!Packed(Append(j, c)) = PackTurn(Len(j) + 1, Parser!Packed(j), c)
        BY PackedIs DEF Lines
    <3>2. QED
        BY <2>3, <2>4, <3>1 DEF PackTurn
  <2>6. Parser!Packed(a \o w) = Parser!Packed(a) \o Parser!Packed(w)
      BY PackedParts
  <2>7. QED
      BY <1>1, <2>2, <2>3, <2>4, <2>5, <2>6
<1>6. QED
    BY <1>4, <1>5

\* Up to a character the line is the texts of its tokens and of the one that
\* has begun.
Regular == Chars \ {"~", "NUL"}
Kept(s) ==
    LET p == Parser!Run(s)
    IN Parser!Packed(Parser!Joined(Parser!Texts(p.tokens))) \o Parser!Packed(p.text)
         = Parser!Packed(s)

\* The texts of tokens when one is added.
LEMMA TextsIs ==
    ASSUME NEW toks \in Seq(TokensIn(Chars))
    PROVE  /\ Parser!Texts(toks) \in Seq(Lines) /\ Parser!Texts(<<>>) = <<>>
           /\ \A k \in TokensIn(Chars) :
                Parser!Texts(Append(toks, k)) = Append(Parser!Texts(toks), k.text)
<1>1. \A k \in TokensIn(Chars) : k.text \in Lines
    BY TextOfToken DEF TokensIn, Lines
<1>2. ASSUME NEW r \in Seq(TokensIn(Chars))
      PROVE  /\ Parser!Texts(r) \in Seq(Lines) /\ Len(Parser!Texts(r)) = Len(r)
             /\ \A i \in 1 .. Len(r) : Parser!Texts(r)[i] = r[i].text
  <2>1. DOMAIN r = 1 .. Len(r) /\ Len(r) \in Nat
      OBVIOUS
  <2>2. Parser!Texts(r) = [i \in 1 .. Len(r) |-> r[i].text]
      BY <2>1 DEF Parser!Texts
  <2>3. \A i \in 1 .. Len(r) : r[i].text \in Lines
      BY <1>1
  <2>4. QED
      BY <2>1, <2>2, <2>3
<1>3. Parser!Texts(<<>>) = <<>>
  <2>1. DOMAIN <<>> = {}
      OBVIOUS
  <2>2. QED
      BY <2>1 DEF Parser!Texts
<1>4. ASSUME NEW k \in TokensIn(Chars)
      PROVE  Parser!Texts(Append(toks, k)) = Append(Parser!Texts(toks), k.text)
  <2>1. PICK n \in Nat : n = Len(toks)
      OBVIOUS
  <2>2. PICK r \in Seq(TokensIn(Chars)) : r = Append(toks, k)
      BY Appending
  <2>3. Len(r) = n + 1 /\ r[n + 1] = k /\ \A i \in 1 .. n : r[i] = toks[i]
      BY <2>1, <2>2, Appending
  <2>4. PICK a \in Seq(Lines) : /\ a = Parser!Texts(toks) /\ Len(a) = n
                                /\ \A i \in 1 .. n : a[i] = toks[i].text
      BY <1>2, <2>1
  <2>5. PICK b \in Seq(Lines) : /\ b = Parser!Texts(r) /\ Len(b) = n + 1
                                /\ \A i \in 1 .. n + 1 : b[i] = r[i].text
      BY <1>2, <2>3
  <2>6. PICK t \in Lines : t = k.text
      BY <1>1
  <2>7. PICK e \in Seq(Lines) : e = Append(a, t)
      BY Appending
  <2>8. Len(e) = n + 1 /\ e[n + 1] = t /\ \A i \in 1 .. n : e[i] = a[i]
      BY <2>4, <2>7, Appending
  <2>9. \A i \in 1 .. n + 1 : b[i] = e[i]
    <3>1. \A i \in 1 .. n + 1 : i \in 1 .. n \/ i = n + 1
        OBVIOUS
    <3>2. QED
        BY <2>3, <2>4, <2>5, <2>6, <2>8, <3>1
  <2>10. b = e
      BY <2>5, <2>8, <2>9, SeqEqual
  <2>11. QED
      BY <2>2, <2>4, <2>5, <2>6, <2>7, <2>10
<1>5. QED
    BY <1>2, <1>3, <1>4

LEMMA NothingIsLost == \A s \in Seq(Regular) : Kept(s)
<1> DEFINE T == {s \in Seq(Regular) : Kept(s)}
<1>1. Regular \subseteq Chars /\ <<>> \in Seq(Regular)
    BY DEF Regular
<1>2. \A s \in Seq(Regular) : s \in Lines
  <2> TAKE s \in Seq(Regular)
  <2>1. \A i \in 1 .. Len(s) : s[i] \in Chars
      BY <1>1
  <2>2. QED
      BY <2>1 DEF Lines
<1>3. \A s \in Lines : Parser!Packed(s) \in Lines
    BY PackedIs DEF Lines
<1>4. \A s \in Lines, c \in Chars :
        Parser!Packed(Append(s, c)) =
          IF c = " " THEN Parser!Packed(s) ELSE Append(Parser!Packed(s), c)
    BY PackedIs DEF PackTurn, Lines
<1>5. <<>> \in T
  <2>1. PICK p : p = Parser!Run(<<>>) /\ p.text = <<>> /\ p.tokens = <<>>
      BY LineRun DEF Parser!Begin
  <2>2. Parser!Texts(<<>>) = <<>>
    <3>1. PICK toks : toks = <<>>
        OBVIOUS
    <3>2. toks \in Seq(TokensIn(Chars))
        BY <3>1
    <3>3. QED
        BY <3>2, TextsIs
  <2>3. Parser!Joined(Parser!Texts(p.tokens)) = <<>>
      BY <2>1, <2>2, JoinedIs
  <2>4. Parser!Packed(<<>>) \o Parser!Packed(<<>>) = Parser!Packed(<<>>)
      BY LineRun, LineAlgebra, PackedIs
  <2>5. Kept(<<>>)
      BY <2>1, <2>3, <2>4 DEF Kept
  <2>6. QED
      BY <1>1, <2>5
<1>6. ASSUME NEW s \in Seq(Regular), NEW c \in Regular, s \in T PROVE Append(s, c) \in T
  <2>1. Append(s, c) \in Seq(Regular) /\ s \in Lines /\ c \in Chars
      BY <1>1, <1>2
  <2>2. PICK p \in ParseStates(Chars) : p = Parser!Run(s)
      BY <2>1, LineRun
  <2>3. PICK q : q = Parser!ParseChar(p, c)
      OBVIOUS
  <2>4. Parser!Run(Append(s, c)) = q
      BY <2>1, <2>2, <2>3, LineRun
  <2>5. /\ p.state \in Blank \cup Inside /\ p.text \in Lines
        /\ p.tokens \in Seq(TokensIn(Chars))
      BY DEF ParseStates, Lines
  <2>6. p.state \in Blank => p.text = <<>>
      BY <2>1, <2>2, LinesOK DEF LineOK
  <2>7. PICK ws \in Seq(Lines) : ws = Parser!Texts(p.tokens)
      BY <2>5, TextsIs
  <2>8. PICK j \in Lines : j = Parser!Packed(Parser!Joined(ws))
      BY <1>3, JoinedIs
  <2>9. PICK x \in Lines : x = Parser!Packed(p.text)
      BY <1>3, <2>5
  <2>10. Parser!Packed(s) = j \o x
      BY <1>6, <2>2, <2>7, <2>8, <2>9 DEF Kept
  <2>11. j \o x \in Lines /\ Append(j \o x, c) = j \o Append(x, c)
      BY <2>1, LineAlgebra, Spaced
  <2>12. Parser!Packed(Append(s, c)) = IF c = " " THEN j \o x ELSE j \o Append(x, c)
      BY <1>4, <2>1, <2>10, <2>11
  <2>13. Parser!Packed(Parser!Joined(Parser!Texts(q.tokens))) \o Parser!Packed(q.text)
           = Parser!Packed(Append(s, c))
    <3>1. c \in Parser!Visible \/ c = " "
        BY DEF Regular, Chars, Parser!Visible, Parser!Quotes
    <3>2. CASE p.state \in Blank /\ c \in Parser!Visible
      <4>1. q = [state |-> Parser!Within("token", c), text |-> <<c>>, tokens |-> p.tokens]
          BY <2>1, <2>3, <3>2, Turns
      <4>2. c # " "
          BY <3>2 DEF Parser!Visible, Parser!Quotes
      <4>3. PICK e \in Lines : e = <<>>
          BY LineRun
      <4>4. p.text = e /\ Append(e, c) = <<c>>
          BY <2>6, <3>2, <4>3
      <4>5. Parser!Packed(<<c>>) = Append(x, c)
          BY <1>4, <2>1, <2>9, <4>2, <4>4
      <4>6. QED
          BY <2>7, <2>8, <2>12, <4>1, <4>2, <4>5
    <3>3. CASE p.state \in Blank /\ c = " "
      <4>1. q = [state |-> "whitespace", text |-> p.text, tokens |-> p.tokens]
          BY <2>1, <2>3, <3>3, Turns
      <4>2. QED
          BY <2>7, <2>8, <2>9, <2>12, <3>3, <4>1
    <3>4. CASE p.state = "token" /\ c = " "
      <4>1. q = [state |-> "whitespace", text |-> <<>>,
                 tokens |-> Append(p.tokens, Parser!TokenOf(p.text))]
          BY <2>1, <2>3, <3>4, Turns
      <4>2. PICK k : k = Parser!TokenOf(p.text)
          OBVIOUS
      <4>3. k \in TokensIn(Chars) /\ k.text = p.text
          BY <2>5, <4>2, TextOfToken DEF TokensIn, Lines
      <4>4. Parser!Texts(q.tokens) = Append(ws, p.text)
          BY <2>5, <2>7, <4>1, <4>2, <4>3, TextsIs
      <4>5. Parser!Packed(Parser!Joined(Append(ws, p.text))) = j \o x
          BY <2>5, <2>8, <2>9, PackedJoin
      <4>6. (j \o x) \o <<>> = j \o x /\ Parser!Packed(<<>>) = <<>>
          BY <2>11, LineAlgebra, PackedIs
      <4>7. QED
          BY <2>12, <3>4, <4>1, <4>4, <4>5, <4>6
    <3>5. CASE p.state \in Inside /\ ~ (p.state = "token" /\ c = " ")
      <4>1. c # "NUL"
          BY DEF Regular
      <4>2. q = [state |-> Within(p.state, c), text |-> Append(p.text, c), tokens |-> p.tokens]
          BY <2>1, <2>3, <3>5, <4>1, Turns
      <4>3. Parser!Packed(Append(p.text, c)) = IF c = " " THEN x ELSE Append(x, c)
          BY <1>4, <2>1, <2>5, <2>9
      <4>4. QED
          BY <2>7, <2>8, <2>12, <4>2, <4>3
    <3>6. QED
        BY <2>5, <3>1, <3>2, <3>3, <3>4, <3>5
  <2>14. Kept(Append(s, c))
      BY <2>4, <2>13 DEF Kept
  <2>15. QED
      BY <2>1, <2>14
<1> HIDE DEF T
<1>7. Seq(Regular) \subseteq T
    BY <1>5, <1>6, SeqInduction
<1>8. QED
    BY <1>7 DEF T

\* The line is the texts of its tokens, when no quotation is open at its end.
LEMMA TextsAreTheLine ==
    ASSUME NEW s \in Seq(Regular), Parser!Parse(s).state = "whitespace"
    PROVE  Parser!Packed(Parser!Joined(Parser!Texts(Parser!Tokens(s)))) = Parser!Packed(s)
<1>1. s \in Lines
  <2>1. \A i \in 1 .. Len(s) : s[i] \in Chars
      BY DEF Regular
  <2>2. QED
      BY <2>1 DEF Lines
<1>2. PICK c \in Chars : c = "NUL"
    BY DEF Chars
<1>3. PICK p \in ParseStates(Chars) : p = Parser!Run(s)
    BY <1>1, LineRun
<1>4. PICK q : q = Parser!ParseChar(p, c)
    OBVIOUS
<1>5. q.state = "whitespace" /\ Parser!Tokens(s) = q.tokens
  <2>1. Parser!Parse(s) = q
      BY <1>1, <1>2, <1>3, <1>4, LineRun DEF Parser!Parse, Parser!Nul
  <2>2. QED
      BY <2>1 DEF Parser!Tokens
<1>6. /\ p.state \in Blank \cup Inside /\ p.text \in Lines
      /\ p.tokens \in Seq(TokensIn(Chars))
    BY DEF ParseStates, Lines
<1>7. PICK ws \in Seq(Lines) : ws = Parser!Texts(p.tokens)
    BY <1>6, TextsIs
<1>8. Parser!Packed(Parser!Joined(ws)) \o Parser!Packed(p.text) = Parser!Packed(s)
    BY <1>3, <1>7, NothingIsLost DEF Kept
<1>9. CASE p.state \in Blank
  <2>1. q = [state |-> "whitespace", text |-> p.text, tokens |-> p.tokens]
      BY <1>2, <1>4, <1>9, Turns
  <2>2. p.text = <<>>
      BY <1>1, <1>3, <1>9, LinesOK DEF LineOK
  <2>3. PICK j \in Lines : j = Parser!Packed(Parser!Joined(ws))
      BY JoinedIs, PackedIs DEF Lines
  <2>4. j \o Parser!Packed(p.text) = j
      BY <2>2, LineAlgebra, PackedIs
  <2>5. QED
      BY <1>5, <1>7, <1>8, <2>1, <2>3, <2>4
<1>10. CASE p.state = "token"
  <2>1. q = [state |-> "whitespace", text |-> <<>>,
             tokens |-> Append(p.tokens, Parser!TokenOf(p.text))]
      BY <1>2, <1>4, <1>10, Turns
  <2>2. PICK k : k = Parser!TokenOf(p.text)
      OBVIOUS
  <2>3. k \in TokensIn(Chars) /\ k.text = p.text
      BY <1>6, <2>2, TextOfToken DEF TokensIn, Lines
  <2>4. Parser!Texts(q.tokens) = Append(ws, p.text)
      BY <1>6, <1>7, <2>1, <2>2, <2>3, TextsIs
  <2>5. Parser!Packed(Parser!Joined(Append(ws, p.text)))
          = Parser!Packed(Parser!Joined(ws)) \o Parser!Packed(p.text)
      BY <1>6, PackedJoin
  <2>6. QED
      BY <1>5, <1>8, <2>4, <2>5
<1>11. CASE p.state \in Inside /\ p.state # "token"
  <2>1. q = [state |-> Within(p.state, c), text |-> Append(p.text, c), tokens |-> p.tokens]
      BY <1>4, <1>11, Turns
  <2>2. Within(p.state, c) \in Inside
      BY <1>11, WithinInside DEF Within
  <2>3. QED
      BY <1>5, <2>1, <2>2 DEF Inside
<1>12. QED
    BY <1>6, <1>9, <1>10, <1>11

\* Behind an open quotation everything up to the next mark is text.
NoQuote == Chars \ {"'"}

LEMMA QuotedRun ==
    ASSUME NEW u \in Lines,
           Parser!Run(u) = [state |-> "quote", text |-> u, tokens |-> <<>>]
    PROVE  \A s \in Seq(NoQuote) :
             Parser!Run(u \o s) = [state |-> "quote", text |-> u \o s, tokens |-> <<>>]
<1> DEFINE T == {s \in Seq(NoQuote) :
                   Parser!Run(u \o s) = [state |-> "quote", text |-> u \o s, tokens |-> <<>>]}
<1>1. \A s \in Seq(NoQuote) : s \in Lines
  <2> TAKE s \in Seq(NoQuote)
  <2>1. \A i \in 1 .. Len(s) : s[i] \in Chars
      BY DEF NoQuote
  <2>2. QED
      BY <2>1 DEF Lines
<1>2. <<>> \in T
  <2>1. PICK e : e = <<>>
      OBVIOUS
  <2>2. e \in Seq(NoQuote) /\ u \o e = u
      BY <2>1, LineAlgebra
  <2>3. QED
      BY <2>1, <2>2
<1>3. ASSUME NEW s \in Seq(NoQuote), NEW c \in NoQuote, s \in T PROVE Append(s, c) \in T
  <2>1. c \in Chars /\ c # "'" /\ s \in Lines /\ Append(s, c) \in Seq(NoQuote)
      BY <1>1 DEF NoQuote
  <2>2. PICK v \in Lines : v = u \o s
      BY <2>1, Spaced
  <2>3. PICK p \in ParseStates(Chars) : p = Parser!Run(v)
      BY LineRun
  <2>4. p = [state |-> "quote", text |-> v, tokens |-> <<>>]
      BY <1>3, <2>2, <2>3
  <2>5. Parser!ParseChar(p, c) =
          [state |-> Within(p.state, c), text |-> Append(p.text, c), tokens |-> p.tokens]
    <3>1. p.state \in Inside /\ p.state # "token"
        BY <2>4 DEF Inside
    <3>2. QED
        BY <2>1, <3>1, Turns
  <2>6. Within("quote", c) = "quote"
      BY <2>1 DEF Within, Parser!Within
  <2>7. Parser!Run(Append(v, c)) = Parser!ParseChar(p, c)
      BY <2>1, <2>3, LineRun
  <2>8. u \o Append(s, c) = Append(v, c)
      BY <2>1, <2>2, LineAlgebra
  <2>9. Parser!Run(u \o Append(s, c)) =
          [state |-> "quote", text |-> u \o Append(s, c), tokens |-> <<>>]
      BY <2>4, <2>5, <2>6, <2>7, <2>8
  <2>10. QED
      BY <2>1, <2>9
<1> HIDE DEF T
<1>4. Seq(NoQuote) \subseteq T
    BY <1>2, <1>3, SeqInduction
<1>5. QED
    BY <1>4 DEF T

\* With the mark that closes it it is one token.
LEMMA QuotedToken ==
    ASSUME NEW u \in Lines,
           Parser!Run(u) = [state |-> "quote", text |-> u, tokens |-> <<>>],
           NEW s \in Seq(NoQuote), s \in Lines
    PROVE  Parser!Tokens((u \o s) \o <<"'">>) = <<Parser!TokenOf((u \o s) \o <<"'">>)>>
<1>1. PICK v \in Lines : v = u \o s
    BY Spaced
<1>2. PICK p \in ParseStates(Chars) : p = Parser!Run(v)
    BY LineRun
<1>3. p = [state |-> "quote", text |-> v, tokens |-> <<>>]
    BY <1>1, <1>2, QuotedRun
<1>4. PICK c \in Chars : c = "'"
    BY DEF Chars
<1>5. PICK w \in Lines : w = Append(v, c) /\ w = (u \o s) \o <<"'">>
  <2>1. Append(v, c) \in Lines
      BY DEF Lines
  <2>2. QED
      BY <1>1, <1>4, <2>1, LineAlgebra
<1>6. PICK q \in ParseStates(Chars) : q = Parser!Run(w)
    BY LineRun
<1>7. q = [state |-> "token", text |-> w, tokens |-> <<>>]
  <2>1. p.state \in Inside /\ p.state # "token"
      BY <1>3 DEF Inside
  <2>2. Parser!ParseChar(p, c) =
          [state |-> Within(p.state, c), text |-> Append(p.text, c), tokens |-> p.tokens]
      BY <2>1, Turns
  <2>3. Within("quote", c) = "token"
      BY <1>4 DEF Within, Parser!Within, Parser!Visible, Parser!Quotes
  <2>4. q = Parser!ParseChar(p, c)
      BY <1>2, <1>5, <1>6, LineRun
  <2>5. QED
      BY <1>3, <1>5, <2>2, <2>3, <2>4
<1>8. PICK d \in Chars : d = "NUL"
    BY DEF Chars
<1>9. PICK k : k = Parser!TokenOf(w)
    OBVIOUS
<1>10. Parser!ParseChar(q, d) =
         [state |-> "whitespace", text |-> <<>>, tokens |-> Append(<<>>, k)]
  <2>1. q.state = "token" /\ q.text = w /\ q.tokens = <<>> /\ d \in {" ", "NUL"}
      BY <1>7, <1>8
  <2>2. Parser!ParseChar(q, d) =
          [state |-> "whitespace", text |-> <<>>,
           tokens |-> Append(q.tokens, Parser!TokenOf(q.text))]
      BY <2>1, Turns
  <2>3. QED
      BY <1>9, <2>1, <2>2
<1>11. Append(<<>>, k) = <<k>>
    OBVIOUS
<1>12. Parser!Tokens(w) = <<k>>
    BY <1>6, <1>8, <1>10, <1>11, ParseIs
<1>13. QED
    BY <1>5, <1>9, <1>12

\* The marks are taken away again.
Quoted(s) == (<<"'">> \o s) \o <<"'">>
LEMMA QuotedIs ==
    ASSUME NEW s \in Lines
    PROVE  /\ Quoted(s) \in Lines /\ Len(Quoted(s)) = Len(s) + 2
           /\ Quoted(s)[1] = "'" /\ Quoted(s)[Len(s) + 2] = "'"
           /\ \A i \in 1 .. Len(s) : Quoted(s)[i + 1] = s[i]
<1>1. PICK c \in Chars : c = "'"
    BY DEF Chars
<1>2. PICK e : e = <<c>>
    OBVIOUS
<1>3. e \in Lines /\ Len(e) = 1 /\ e[1] = c
    BY <1>2 DEF Lines
<1>4. PICK n \in Nat : n = Len(s)
    BY DEF Lines
<1>5. PICK a : a = e \o s
    OBVIOUS
<1>6. a \in Lines /\ Len(a) = 1 + n /\ a[1] = c /\ \A i \in 1 .. n : a[i + 1] = s[i]
  <2>1. /\ a \in Lines /\ Len(a) = 1 + n
        /\ \A i \in 1 .. 1 + n : a[i] = IF i <= 1 THEN e[i] ELSE s[i - 1]
      BY <1>3, <1>4, <1>5, ConcatProperties DEF Lines
  <2>2. 1 \in 1 .. 1 + n /\ \A i \in 1 .. n : /\ i + 1 \in 1 .. 1 + n /\ ~ (i + 1 <= 1)
                                              /\ (i + 1) - 1 = i
      OBVIOUS
  <2>3. QED
      BY <1>3, <2>1, <2>2
<1>7. PICK b : b = a \o e
    OBVIOUS
<1>8. /\ b \in Lines /\ Len(b) = (1 + n) + 1
      /\ \A i \in 1 .. (1 + n) + 1 : b[i] = IF i <= 1 + n THEN a[i] ELSE e[i - (1 + n)]
  <2>1. /\ a \o e \in Lines /\ Len(a \o e) = Len(a) + Len(e)
        /\ \A i \in 1 .. Len(a) + Len(e) :
              (a \o e)[i] = IF i <= Len(a) THEN a[i] ELSE e[i - Len(a)]
      BY <1>3, <1>6, ConcatProperties DEF Lines
  <2>2. Len(a) = 1 + n /\ Len(a) + Len(e) = (1 + n) + 1
      BY <1>3, <1>6
  <2>3. QED
      BY <1>7, <2>1, <2>2
<1>9. Len(b) = n + 2 /\ b[1] = c /\ b[n + 2] = c
  <2>1. /\ 1 \in 1 .. (1 + n) + 1 /\ 1 <= 1 + n /\ n + 2 \in 1 .. (1 + n) + 1
        /\ ~ (n + 2 <= 1 + n) /\ (n + 2) - (1 + n) = 1 /\ (1 + n) + 1 = n + 2
      OBVIOUS
  <2>2. QED
      BY <1>3, <1>6, <1>8, <2>1
<1>10. \A i \in 1 .. n : b[i + 1] = s[i]
  <2>1. \A i \in 1 .. n : i + 1 \in 1 .. (1 + n) + 1 /\ i + 1 <= 1 + n
      OBVIOUS
  <2>2. QED
      BY <1>6, <1>8, <2>1
<1>11. Quoted(s) = b
    BY <1>1, <1>2, <1>5, <1>7 DEF Quoted
<1>12. QED
    BY <1>1, <1>4, <1>8, <1>9, <1>10, <1>11

LEMMA UnquoteQuoted == \A s \in Lines : Parser!Unquote(Quoted(s)) = s
<1> SUFFICES ASSUME NEW s \in Lines PROVE Parser!Unquote(Quoted(s)) = s
    OBVIOUS
<1>1. PICK n \in Nat : n = Len(s)
    BY DEF Lines
<1>2. PICK q \in Lines :
        /\ q = Quoted(s) /\ Len(q) = n + 2 /\ q[1] = "'" /\ q[n + 2] = "'"
        /\ \A i \in 1 .. n : q[i + 1] = s[i]
    BY <1>1, QuotedIs
<1>3. PICK r \in Lines : /\ r = Tail(q) /\ Len(r) = n + 1
                         /\ \A i \in 1 .. n + 1 : r[i] = q[i + 1]
  <2>1. q # <<>>
      BY <1>2 DEF Lines
  <2>2. /\ Tail(q) \in Lines /\ Len(Tail(q)) = n + 1
        /\ \A i \in 1 .. n + 1 : Tail(q)[i] = q[i + 1]
      BY <1>2, <2>1 DEF Lines
  <2>3. QED
      BY <2>2
<1>4. Parser!Last(r) = "'"
  <2>1. n + 1 \in 1 .. n + 1 /\ (n + 1) + 1 = n + 2
      OBVIOUS
  <2>2. r[n + 1] = "'"
      BY <1>2, <1>3, <2>1
  <2>3. QED
      BY <1>3, <2>2 DEF Parser!Last
<1>5. Parser!Front(r) = s
  <2>1. PICK f \in Lines : /\ f = SubSeq(r, 1, n) /\ Len(f) = n
                           /\ \A i \in 1 .. n : f[i] = r[i]
    <3>1. /\ SubSeq(r, 1, n) \in Lines /\ Len(SubSeq(r, 1, n)) = n
          /\ \A i \in 1 .. n : SubSeq(r, 1, n)[i] = r[i]
        BY <1>3 DEF Lines
    <3>2. QED
        BY <3>1
  <2>2. \A i \in 1 .. n : f[i] = s[i]
    <3>1. \A i \in 1 .. n : i \in 1 .. n + 1
        OBVIOUS
    <3>2. QED
        BY <1>2, <1>3, <2>1, <3>1
  <2>3. f = s
      BY <1>1, <2>1, <2>2, SeqEqual DEF Lines
  <2>4. (n + 1) - 1 = n
      OBVIOUS
  <2>5. QED
      BY <1>3, <2>1, <2>3, <2>4 DEF Parser!Front
<1>6. q # <<>> /\ r # <<>> /\ "'" \in Parser!Quotes
  <2>1. n + 2 # 0 /\ n + 1 # 0 /\ Len(<<>>) = 0
      OBVIOUS
  <2>2. q # <<>> /\ r # <<>>
      BY <1>2, <1>3, <2>1
  <2>3. QED
      BY <2>2 DEF Parser!Quotes
<1>7. Parser!Unquote(q) = s
    BY <1>2, <1>3, <1>4, <1>5, <1>6 DEF Parser!Unquote
<1>8. QED
    BY <1>2, <1>7

LEMMA QuotedAlone ==
    ASSUME NEW s \in Seq(NoQuote), s \in Lines
    PROVE  Parser!Tokens(Quoted(s)) = <<Parser!TokenOf(Quoted(s))>>
<1>1. PICK c \in Chars : c = "'"
    BY DEF Chars
<1>2. PICK u \in Lines : u = <<c>>
    BY LineAlgebra, LineRun
<1>3. Parser!Run(u) = [state |-> "quote", text |-> u, tokens |-> <<>>]
  <2>1. PICK e \in Lines : e = <<>>
      BY LineRun
  <2>2. PICK p \in ParseStates(Chars) : p = Parser!Begin /\ p = Parser!Run(e)
      BY <2>1, LineRun
  <2>3. Append(e, c) = u
      BY <1>2, <2>1
  <2>4. Parser!Run(u) = Parser!ParseChar(p, c)
      BY <2>2, <2>3, LineRun
  <2>5. p.state \in Blank /\ p.tokens = <<>> /\ c \in Parser!Visible
      BY <1>1, <2>2 DEF Parser!Begin, Blank, Parser!Visible, Parser!Quotes
  <2>6. Parser!ParseChar(p, c) =
          [state |-> Parser!Within("token", c), text |-> <<c>>, tokens |-> p.tokens]
      BY <2>5, Turns
  <2>7. Parser!Within("token", c) = "quote"
      BY <1>1 DEF Parser!Within
  <2>8. QED
      BY <1>2, <2>4, <2>5, <2>6, <2>7
<1>4. Parser!Tokens((u \o s) \o <<"'">>) = <<Parser!TokenOf((u \o s) \o <<"'">>)>>
    BY <1>3, QuotedToken
<1>5. QED
    BY <1>1, <1>2, <1>4 DEF Quoted

\* A quotation is one value.
LEMMA QuotationAlone ==
    ASSUME NEW s \in Seq(NoQuote), s \in Lines, ~ Parser!Contains(s, "=")
    PROVE  Parser!Tokens(Quoted(s)) =
             <<[name |-> Parser!NoName, value |-> s, text |-> Quoted(s)]>>
<1>1. PICK n \in Nat : n = Len(s)
    BY DEF Lines
<1>2. PICK q \in Lines :
        /\ q = Quoted(s) /\ Len(q) = n + 2 /\ q[1] = "'" /\ q[n + 2] = "'"
        /\ \A i \in 1 .. n : q[i + 1] = s[i]
    BY <1>1, QuotedIs
<1>3. ~ Parser!Contains(q, "=")
  <2>1. ASSUME NEW i \in 1 .. n + 2, q[i] = "=" PROVE FALSE
    <3>1. i # 1 /\ i # n + 2
        BY <1>2, <2>1
    <3>2. i - 1 \in 1 .. n /\ (i - 1) + 1 = i
        BY <3>1
    <3>3. s[i - 1] = "="
        BY <1>2, <2>1, <3>2
    <3>4. QED
        BY <1>1, <3>2, <3>3 DEF Parser!Contains
  <2>2. QED
      BY <1>2, <2>1 DEF Parser!Contains
<1>4. Parser!TokenOf(q) = [name |-> Parser!NoName, value |-> s, text |-> q]
    BY <1>2, <1>3, UnquoteQuoted DEF Parser!TokenOf
<1>5. QED
    BY <1>2, <1>4, QuotedAlone

\* Also behind a name.
Named(s) == <<"x", "=">> \o Quoted(s)
LEMMA NamedRun ==
    ASSUME NEW s \in Seq(NoQuote), s \in Lines
    PROVE  Parser!Tokens(Named(s)) = <<Parser!TokenOf(Named(s))>>
<1>1. PICK x \in Chars : x = "x"
    BY DEF Chars
<1>2. PICK y \in Chars : y = "="
    BY DEF Chars
<1>3. PICK c \in Chars : c = "'"
    BY DEF Chars
<1>4. PICK e \in Lines : e = <<>>
    BY LineRun
<1>5. PICK a \in Lines : a = Append(e, x) /\ a = <<x>>
  <2>1. <<x>> \in Lines
      BY DEF Lines
  <2>2. Append(<<>>, x) = <<x>>
      OBVIOUS
  <2>3. QED
      BY <1>4, <2>1, <2>2
<1>6. PICK b \in Lines : b = Append(a, y) /\ b = <<x, y>>
  <2>1. Append(a, y) \in Lines
      BY DEF Lines
  <2>2. QED
    <3>1. PICK d : d = Append(e, x)
        OBVIOUS
    <3>2. <<x, y>> = Append(d, y)
        BY <1>4, <3>1
    <3>3. QED
        BY <1>5, <2>1, <3>1, <3>2
<1>7. PICK u \in Lines : u = Append(b, c) /\ u = b \o <<c>>
  <2>1. Append(b, c) \in Lines
      BY DEF Lines
  <2>2. QED
      BY <2>1, LineAlgebra
<1>8. Parser!Run(a) = [state |-> "token", text |-> a, tokens |-> <<>>]
  <2>1. PICK p \in ParseStates(Chars) : p = Parser!Begin /\ p = Parser!Run(e)
      BY <1>4, LineRun
  <2>2. Parser!Run(a) = Parser!ParseChar(p, x)
      BY <1>5, <2>1, LineRun
  <2>3. p.state \in Blank /\ p.tokens = <<>> /\ x \in Parser!Visible
      BY <1>1, <2>1 DEF Parser!Begin, Blank, Parser!Visible
  <2>4. Parser!ParseChar(p, x) =
          [state |-> Parser!Within("token", x), text |-> <<x>>, tokens |-> p.tokens]
      BY <2>3, Turns
  <2>5. Parser!Within("token", x) = "token"
      BY <1>1 DEF Parser!Within
  <2>6. QED
      BY <1>5, <2>2, <2>3, <2>4, <2>5
<1>9. ASSUME NEW v \in Lines, NEW d \in {y, c},
             Parser!Run(v) = [state |-> "token", text |-> v, tokens |-> <<>>]
      PROVE  Parser!Run(Append(v, d)) =
               [state |-> Within("token", d), text |-> Append(v, d), tokens |-> <<>>]
  <2>1. PICK p \in ParseStates(Chars) : p = Parser!Run(v)
      BY LineRun
  <2>2. p = [state |-> "token", text |-> v, tokens |-> <<>>]
      BY <1>9, <2>1
  <2>3. d \in Chars /\ d \notin {" ", "NUL"} /\ p.state \in Inside
      BY <1>2, <1>3, <2>2 DEF Inside
  <2>4. Parser!ParseChar(p, d) =
          [state |-> Within(p.state, d), text |-> Append(p.text, d), tokens |-> p.tokens]
      BY <2>3, Turns
  <2>5. Parser!Run(Append(v, d)) = Parser!ParseChar(p, d)
      BY <2>1, <2>3, LineRun
  <2>6. QED
      BY <2>2, <2>4, <2>5
<1>10. Within("token", y) = "token" /\ Within("token", c) = "quote"
    BY <1>2, <1>3 DEF Within, Parser!Within, Parser!Visible, Parser!Quotes
<1>11. Parser!Run(b) = [state |-> "token", text |-> b, tokens |-> <<>>]
    BY <1>6, <1>8, <1>9, <1>10
<1>12. Parser!Run(u) = [state |-> "quote", text |-> u, tokens |-> <<>>]
    BY <1>7, <1>9, <1>10, <1>11
<1>13. Parser!Tokens((u \o s) \o <<"'">>) = <<Parser!TokenOf((u \o s) \o <<"'">>)>>
    BY <1>12, QuotedToken
<1>14. (u \o s) \o <<"'">> = Named(s)
  <2>1. PICK m \in Lines : m = <<c>>
      BY <1>4, LineAlgebra
  <2>2. u = b \o m /\ m \o s \in Lines
      BY <1>7, <2>1, Spaced
  <2>3. u \o s = b \o (m \o s)
    <3>1. (b \o m) \o s = b \o (m \o s)
        BY LineAlgebra
    <3>2. QED
        BY <2>2, <3>1
  <2>4. (b \o (m \o s)) \o m = b \o ((m \o s) \o m)
    <3>1. PICK z \in Lines : z = m \o s
        BY <2>2
    <3>2. \A v, w, k \in Lines : (v \o w) \o k = v \o (w \o k)
        BY LineAlgebra
    <3>3. (b \o z) \o m = b \o (z \o m)
        BY <2>1, <3>2, Zenon
    <3>4. QED
        BY <3>1, <3>3
  <2>5. Quoted(s) = (m \o s) \o m
      BY <1>3, <2>1 DEF Quoted
  <2>6. Named(s) = b \o Quoted(s)
      BY <1>1, <1>2, <1>6 DEF Named
  <2>7. QED
      BY <1>3, <2>1, <2>3, <2>4, <2>5, <2>6
<1>15. QED
    BY <1>13, <1>14

LEMMA NamedToken ==
    ASSUME NEW s \in Lines
    PROVE  Parser!TokenOf(Named(s)) = [name |-> <<"x">>, value |-> s, text |-> Named(s)]
<1>1. PICK n \in Nat : n = Len(s)
    BY DEF Lines
<1>2. PICK q \in Lines : q = Quoted(s) /\ Len(q) = n + 2
    BY <1>1, QuotedIs
<1>3. PICK h : h = <<"x", "=">>
    OBVIOUS
<1>4. h \in Lines /\ Len(h) = 2 /\ h[1] = "x" /\ h[2] = "="
  <2>1. PICK x \in Chars : x = "x"
      BY DEF Chars
  <2>2. PICK y \in Chars : y = "="
      BY DEF Chars
  <2>3. <<x, y>> \in Seq(Chars)
      OBVIOUS
  <2>4. QED
      BY <1>3, <2>1, <2>2, <2>3 DEF Lines
<1>5. PICK t : t = h \o q
    OBVIOUS
<1>6. /\ t \in Lines /\ Len(t) = n + 4 /\ t[1] = "x" /\ t[2] = "="
      /\ \A i \in 1 .. n + 2 : t[i + 2] = q[i]
  <2>1. /\ h \o q \in Lines /\ Len(h \o q) = Len(h) + Len(q)
        /\ \A i \in 1 .. Len(h) + Len(q) :
              (h \o q)[i] = IF i <= Len(h) THEN h[i] ELSE q[i - Len(h)]
      BY <1>4, ConcatProperties DEF Lines
  <2>2. Len(h) = 2 /\ Len(h) + Len(q) = n + 4
      BY <1>2, <1>4
  <2>3. \A i \in 1 .. n + 4 : t[i] = IF i <= 2 THEN h[i] ELSE q[i - 2]
      BY <1>5, <2>1, <2>2
  <2>4. /\ 1 \in 1 .. n + 4 /\ 2 \in 1 .. n + 4
        /\ \A i \in 1 .. n + 2 : i + 2 \in 1 .. n + 4 /\ ~ (i + 2 <= 2) /\ (i + 2) - 2 = i
      OBVIOUS
  <2>5. \A i \in 1 .. n + 2 : t[i + 2] = q[i]
      BY <2>3, <2>4
  <2>6. t[1] = "x" /\ t[2] = "="
      BY <1>4, <2>3, <2>4
  <2>7. QED
      BY <1>5, <2>1, <2>2, <2>5, <2>6
<1>7. DOMAIN t = 1 .. n + 4 /\ 2 \in 1 .. n + 4 /\ 1 \in 1 .. n + 4
    BY <1>6 DEF Lines
<1>8. Parser!Contains(t, "=")
    BY <1>6, <1>7 DEF Parser!Contains
<1>9. Parser!SplitAt(t) = 2
  <2> DEFINE At == {i \in DOMAIN t : t[i] = "="}
  <2>1. 2 \in At /\ \A j \in At : 2 <= j
    <3>1. \A j \in 1 .. n + 4 : j = 1 \/ 2 <= j
        OBVIOUS
    <3>2. QED
        BY <1>6, <1>7, <3>1
  <2>2. PICK k : k = Parser!SplitAt(t)
      OBVIOUS
  <2>3. k \in At /\ \A j \in At : k <= j
      BY <2>1, <2>2 DEF Parser!SplitAt
  <2>4. k \in 1 .. n + 4 /\ k <= 2 /\ 2 <= k
      BY <1>7, <2>1, <2>3
  <2>5. QED
      BY <2>2, <2>4
<1>10. SubSeq(t, 1, 1) = <<"x">>
  <2>1. /\ SubSeq(t, 1, 1) \in Lines /\ Len(SubSeq(t, 1, 1)) = 1
        /\ SubSeq(t, 1, 1)[1] = t[1]
      BY <1>6 DEF Lines
  <2>2. PICK x \in Chars : x = "x"
      BY DEF Chars
  <2>3. <<x>> \in Lines /\ Len(<<x>>) = 1 /\ <<x>>[1] = x
      BY DEF Lines
  <2>4. \A i \in 1 .. 1 : SubSeq(t, 1, 1)[i] = <<x>>[i]
      BY <1>6, <2>1, <2>2, <2>3
  <2>5. SubSeq(t, 1, 1) = <<x>>
      BY <2>1, <2>3, <2>4, SeqEqual DEF Lines
  <2>6. QED
      BY <2>2, <2>5
<1>11. SubSeq(t, 3, Len(t)) = q
  <2>1. PICK r \in Lines : /\ r = SubSeq(t, 3, n + 4) /\ Len(r) = n + 2
                           /\ \A i \in 1 .. n + 2 : r[i] = t[i + 2]
    <3>1. /\ SubSeq(t, 3, n + 4) \in Lines /\ Len(SubSeq(t, 3, n + 4)) = n + 2
          /\ \A i \in 1 .. n + 2 : SubSeq(t, 3, n + 4)[i] = t[i + 2]
        BY <1>6 DEF Lines
    <3>2. QED
        BY <3>1
  <2>2. \A i \in 1 .. n + 2 : r[i] = q[i]
      BY <1>6, <2>1
  <2>3. r = q
      BY <1>2, <2>1, <2>2, SeqEqual DEF Lines
  <2>4. QED
      BY <1>6, <2>1, <2>3
<1>12. Parser!Unquote(q) = s
    BY <1>2, UnquoteQuoted
<1>13. Parser!TokenOf(t) = [name |-> <<"x">>, value |-> s, text |-> t]
  <2>1. 2 - 1 = 1 /\ 2 + 1 = 3
      OBVIOUS
  <2>2. QED
      BY <1>8, <1>9, <1>10, <1>11, <1>12, <2>1 DEF Parser!TokenOf
<1>14. t = Named(s)
    BY <1>2, <1>3, <1>5 DEF Named
<1>15. QED
    BY <1>13, <1>14

-----------------------------------------------------------------------------
\* The state of the parser is a line of characters of any class.
Classes == {"x", "=", "'", "\"", " ", "~"}
ParserInv == string \in Seq(Classes)

LEMMA ParserInit == Parser!Init => ParserInv
<1>1. <<>> \in Seq(Classes)
    OBVIOUS
<1>2. QED
    BY <1>1 DEF Parser!Init, ParserInv

LEMMA ParserStep == ParserInv /\ [Parser!Next]_Parser!vars => ParserInv'
<1> SUFFICES ASSUME ParserInv, [Parser!Next]_Parser!vars PROVE ParserInv'
    OBVIOUS
<1>1. CASE UNCHANGED Parser!vars
    BY <1>1 DEF ParserInv, Parser!vars
<1>2. CASE Parser!Next
  <2>1. PICK ch \in Classes : Parser!Type(ch)
      BY <1>2 DEF Parser!Next, Classes
  <2>2. string' = Append(string, ch)
      BY <2>1 DEF Parser!Type
  <2>3. Append(string, ch) \in Seq(Classes)
      BY DEF ParserInv
  <2>4. QED
      BY <2>2, <2>3 DEF ParserInv
<1>3. QED
    BY <1>1, <1>2

LEMMA ParserInvImplies == ParserInv => Parser!LinesAreTokens
<1> SUFFICES ASSUME ParserInv PROVE Parser!LinesAreTokens
    OBVIOUS
<1>1. PICK s \in Lines : s = string
  <2>1. \A c \in Classes : c \in Chars
      BY DEF Chars, Classes
  <2>2. \A x \in Seq(Classes) : x \in Seq(Chars)
    <3> TAKE x \in Seq(Classes)
    <3>1. \A i \in 1 .. Len(x) : x[i] \in Chars
        BY <2>1
    <3>2. QED
        BY <3>1
  <2>3. QED
      BY <2>2 DEF ParserInv, Lines
<1>2. \A i \in 1 .. Len(s) : s[i] \in Chars /\ s[i] # "NUL"
  <2>1. \A c \in Classes : c # "NUL" /\ c \in Chars
      BY DEF Chars, Classes
  <2>2. s \in Seq(Classes)
      BY <1>1 DEF ParserInv
  <2>3. \A i \in 1 .. Len(s) : s[i] \in Classes
      BY <2>2
  <2>4. QED
      BY <2>1, <2>3
<1>3. \A D : (\A i \in 1 .. Len(s) : s[i] \in D) => s \in Seq(D)
    BY DEF Lines
<1>4. Parser!QuotationIsOneValue
  <2>1. ASSUME ~ Parser!Contains(s, "'") PROVE s \in Seq(NoQuote)
    <3>1. \A i \in 1 .. Len(s) : s[i] \in NoQuote
        BY <1>2, <2>1 DEF NoQuote, Parser!Contains
    <3>2. QED
        BY <1>3, <3>1
  <2>2. ASSUME s \in Seq(NoQuote), ~ Parser!Contains(s, "=")
        PROVE  Parser!Tokens(Quoted(s)) =
                 <<[name |-> Parser!NoName, value |-> s, text |-> Quoted(s)]>>
      BY <2>2, QuotationAlone
  <2>3. ASSUME s \in Seq(NoQuote)
        PROVE  /\ Len(Parser!Tokens(Named(s))) = 1
               /\ Parser!Tokens(Named(s))[1].name = <<"x">>
               /\ Parser!Tokens(Named(s))[1].value = s
    <3>1. PICK k : k = [name |-> <<"x">>, value |-> s, text |-> Named(s)]
        OBVIOUS
    <3>2. Parser!Tokens(Named(s)) = <<k>>
        BY <2>3, <3>1, NamedRun, NamedToken
    <3>3. Len(<<k>>) = 1 /\ <<k>>[1] = k /\ k.name = <<"x">> /\ k.value = s
        BY <3>1
    <3>4. QED
        BY <3>2, <3>3
  <2>4. QED
      BY <1>1, <2>1, <2>2, <2>3 DEF Parser!QuotationIsOneValue, Quoted, Named
<1>5. Parser!TokensReturn
  <2>1. PICK toks : toks = Parser!Tokens(s)
      OBVIOUS
  <2>2. PICK ws : ws = Parser!Texts(toks)
      OBVIOUS
  <2>3. /\ toks \in Seq(TokensIn(Chars)) /\ ws \in Seq(Words) /\ TokensOf(ws) = toks
        /\ \A i \in 1 .. Len(toks) :
             toks[i].text \in Words /\ toks[i] = Parser!TokenOf(toks[i].text)
    <3>1. "NUL" \in Chars /\ Chars \subseteq Chars
        BY DEF Chars
    <3>2. QED
        BY <2>1, <2>2, <3>1, ParsedTokens DEF Lines
  <2>4. Parser!Balanced /\ ~ Parser!Contains(s, "~") =>
          Parser!Packed(Parser!Joined(ws)) = Parser!Packed(s)
    <3>1. ASSUME Parser!Balanced, ~ Parser!Contains(s, "~") PROVE s \in Seq(Regular)
      <4>1. \A i \in 1 .. Len(s) : s[i] \in Regular
          BY <1>2, <3>1 DEF Regular, Parser!Contains
      <4>2. QED
          BY <1>3, <4>1
    <3>2. Parser!Balanced => Parser!Parse(s).state = "whitespace"
        BY <1>1 DEF Parser!Balanced
    <3>3. QED
        BY <2>1, <2>2, <3>1, <3>2, TextsAreTheLine
  <2>5. \A i \in DOMAIN toks : Parser!Tokens(toks[i].text) = <<toks[i]>>
    <3>1. DOMAIN toks = 1 .. Len(toks)
        BY <2>3
    <3>2. QED
        BY <2>3, <3>1, TokenAlone
  <2>6. Parser!Tokens(Parser!Joined(ws)) = toks
    <3>1. PICK e \in Lines : e = <<>>
        BY LineRun
    <3>2. Parser!Run(e).state \in Blank /\ Parser!Run(e).tokens = <<>>
        BY <3>1, LineRun DEF Parser!Begin, Blank
    <3>3. Parser!Tokens(e \o Parser!Joined(ws)) = Parser!Run(e).tokens \o toks
        BY <2>3, <3>2, JoinedTokens
    <3>4. e \o Parser!Joined(ws) = Parser!Joined(ws)
        BY <2>3, <3>1, WordsAreLines, JoinedIs, LineAlgebra
    <3>5. <<>> \o toks = toks
        BY <2>3, ConcatEmptySeq
    <3>6. QED
        BY <3>2, <3>3, <3>4, <3>5
  <2>7. Parser!HasCommandName(toks) /\ (\A i \in DOMAIN s : s[i] \notin Parser!Quotes) =>
          /\ Parser!Tokens(Parser!Joined(<<toks[1].value, Parser!ParamsN(toks, 0)>>)) = toks
          /\ Parser!Match(toks, toks[1].value)
    <3>1. ASSUME \A i \in DOMAIN s : s[i] \notin Parser!Quotes PROVE s \in Seq(Plain)
      <4>1. DOMAIN s = 1 .. Len(s)
          BY DEF Lines
      <4>2. \A i \in 1 .. Len(s) : s[i] \in Plain
          BY <1>2, <3>1, <4>1 DEF Plain
      <4>3. QED
          BY <1>3, <4>2
    <3>2. QED
        BY <2>1, <3>1, PlainCommand
  <2>8. QED
      BY <1>1, <2>1, <2>2, <2>4, <2>5, <2>6, <2>7 DEF Parser!TokensReturn
<1>6. QED
    BY <1>4, <1>5 DEF Parser!LinesAreTokens

-----------------------------------------------------------------------------
(* The theorems. *)

\* Without summer time an increment of time is what it says, over the ends of
\* seconds and days, a timer does not expire before its time nor a millisecond
\* late, and the date of the evening is the local date half a day before
\* (time_str.c:114, 302, server.c:688).
THEOREM ClockIsExact == Clock!Spec => []Clock!TimesAreExact
<1> QED BY ClockInit, ClockStep, ClockInvImplies, PTL DEF Clock!Spec

\* The first parameter of a name goes to the first argument of that name and
\* what is left to the others in order, none is used twice, and none is left
\* over while an argument is, whatever was typed (command.c:302, 345-370).
THEOREM ArgumentsAreFound == Arguments!Spec => []Arguments!ParametersFindTheirArguments
<1> QED BY ArgsInit, ArgsStep, ArgsInvImplies, PTL DEF Arguments!Spec

\* A page shows a picture of a frame that the daemon took, whole, of its kind
\* and no newer than those under way, and a series without gaps, however the
\* stream is cut (webfast.py:69-89, 140-187).
THEOREM WebPagesAreTrue == Web!Spec => []Web!PagesAreTrue
<1> QED BY WebInit, WebStep, WebInvImplies, PTL DEF Web!Spec

\* The date of a day number, of the number of a frame and of a text are the
\* date that they were made of, day numbers count the days, frames are numbered
\* in the order of time, and the night ends on the next date, except on the
\* last evening of November (time_str.c:130, 142, 167, 232, 331, 475, 492).
THEOREM CalendarIsRight == Cal!Spec => []Cal!DatesAreRight
<1> QED BY CalendarInvInit, CalendarInvStep, CalendarInvImplies, PTL DEF Cal!Spec

\* Of a line of any length: what is put into quotation marks is one value, also
\* behind a name; the texts of its tokens are the line but for its spaces and are
\* read again as the same tokens, alone and together; and a command without
\* quotations is the command that its name and parameters make
\* (command.c:75-123, 172-189).
THEOREM LinesReturn == Parser!Spec => []Parser!LinesAreTokens
<1> QED BY ParserInit, ParserStep, ParserInvImplies, PTL DEF Parser!Spec

\* A step of all the parts is a step or a stutter of each of these.
LEMMA StepsOfOtherParts ==
    [PartNext]_PartVars =>
        /\ [Clock!Next]_Clock!vars /\ [Arguments!Next]_Arguments!vars /\ [Web!Next]_Web!vars
        /\ [Cal!Next]_Cal!vars /\ [Parser!Next]_Parser!vars
<1> SUFFICES ASSUME [PartNext]_PartVars
             PROVE  /\ [Clock!Next]_Clock!vars /\ [Arguments!Next]_Arguments!vars
                    /\ [Web!Next]_Web!vars /\ [Cal!Next]_Cal!vars
                    /\ [Parser!Next]_Parser!vars
    OBVIOUS
<1>1. Clock!Next \/ UNCHANGED clockVars
    BY DEF PartNext, PartVars, Others
<1>2. Arguments!Next \/ UNCHANGED argsVars
    BY DEF PartNext, PartVars, Others
<1>3. Web!Next \/ UNCHANGED webVars
    BY DEF PartNext, PartVars, Others
<1>4. Cal!Next \/ UNCHANGED calendarVars
    BY DEF PartNext, PartVars, Others
<1>5. Parser!Next \/ UNCHANGED string
    BY DEF PartNext, PartVars, Others
<1>6. UNCHANGED clockVars => UNCHANGED Clock!vars
    BY DEF clockVars, Clock!vars
<1>7. UNCHANGED argsVars => UNCHANGED Arguments!vars
    BY DEF argsVars, Arguments!vars
<1>8. UNCHANGED webVars => UNCHANGED Web!vars
    BY DEF webVars, Web!vars, Web!daemon
<1>9. UNCHANGED calendarVars => UNCHANGED Cal!vars
    BY DEF calendarVars, Cal!vars
<1>10. UNCHANGED string => UNCHANGED Parser!vars
    BY DEF Parser!vars
<1>11. QED
    BY <1>1, <1>2, <1>3, <1>4, <1>5, <1>6, <1>7, <1>8, <1>9, <1>10

\* The parts side by side implement these too; of the web gateway without its
\* fairness, which is for TLC.
THEOREM PartsImplementOthers ==
    PartSpec => /\ Clock!Spec /\ Arguments!Spec /\ Cal!Spec /\ Parser!Spec
                /\ Web!Init /\ [][Web!Next]_Web!vars
<1>1. PartInit => Clock!Init /\ Arguments!Init /\ Cal!Init /\ Parser!Init /\ Web!Init
    BY DEF PartInit
<1> QED BY <1>1, StepsOfOtherParts, PTL
        DEF PartSpec, Clock!Spec, Arguments!Spec, Cal!Spec, Parser!Spec

\* Times, among the parts (time_str.c:302, server.c:688).
THEOREM AllTimesAreExact == PartSpec => []TimesAreExact
<1>1. Clock!TimesAreExact => TimesAreExact
    BY DEF TimesAreExact
<1> QED BY <1>1, PartsImplementOthers, ClockIsExact, PTL

\* Dates, among the parts (time_str.c:130, 232, 331, 492).
THEOREM AllDatesAreRight == PartSpec => []DatesAreRight
<1>1. Cal!DatesAreRight => DatesAreRight
    BY DEF DatesAreRight
<1> QED BY <1>1, PartsImplementOthers, CalendarIsRight, PTL

\* Arguments, among the parts (command.c:302, 345-370).
THEOREM AllParametersFindTheirArguments == PartSpec => []ParametersFindTheirArguments
<1>1. Arguments!ParametersFindTheirArguments => ParametersFindTheirArguments
    BY DEF ParametersFindTheirArguments
<1> QED BY <1>1, PartsImplementOthers, ArgumentsAreFound, PTL

\* Lines, among the parts (command.c:75-123, 172-189).
THEOREM AllLinesAreTokens == PartSpec => []LinesAreTokens
<1>1. Parser!LinesAreTokens => LinesAreTokens
    BY DEF LinesAreTokens
<1> QED BY <1>1, PartsImplementOthers, LinesReturn, PTL

\* Pages, among the parts (webfast.py:69-89, 140-187).
THEOREM AllPagesAreTrue == PartSpec => []PagesAreTrue
<1>1. Web!PagesAreTrue => PagesAreTrue
    BY DEF PagesAreTrue
<1> QED BY <1>1, PartsImplementOthers, WebInit, WebStep, WebInvImplies, PTL
=============================================================================
