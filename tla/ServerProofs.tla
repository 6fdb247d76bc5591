---------------------------- MODULE ServerProofs ----------------------------
(***************************************************************************)
(* The loop of server_cycle never stands on a freed connection, descriptors*)
(* and timers belong to connections of the list, the snapshot of select is *)
(* never out of date, messages arrive in order and lines and blocks arrive *)
(* whole, for any numbers of connections and descriptors, any length of    *)
(* the blocks and whatever the other ends do.                              *)
(***************************************************************************)
EXTENDS ServerProperties, SequenceTheorems, FiniteSetTheorems,
        WellFoundedInduction, TLAPS

\* The list holds connections that were made, each of them once.
ListTyped == used \subseteq Connections /\ list \in Seq(used)
ListInjective == \A i, j \in DOMAIN list : list[i] = list[j] => i = j
WalkInv == ListTyped /\ ListInjective /\ CursorIsAlive

\* The smallest element of a set of numbers is what Min chooses.
LEMMA MinIs ==
    ASSUME NEW S \in SUBSET Int, NEW m \in S, \A y \in S : m <= y
    PROVE  Min(S) = m
<1>1. \A x \in S : (\A y \in S : x <= y) => x = m
  OBVIOUS
<1>2. QED
  BY <1>1 DEF Min

\* What the ring through the head of the list (lists.h) consists of.
LEMMA RingElements ==
    ASSUME ListTyped
    PROVE  /\ DOMAIN Ring = 1 .. Len(list) + 2 /\ Len(list) \in Nat
           /\ DOMAIN list = 1 .. Len(list)
           /\ Ring[1] = ListHead /\ Ring[Len(list) + 2] = ListHead
           /\ \A i \in 1 .. Len(list) : Ring[i + 1] = list[i]
<1> DEFINE A == used \cup {ListHead}
           start == <<ListHead>> \o list
<1>1. list \in Seq(A) /\ <<ListHead>> \in Seq(A) /\ Len(<<ListHead>>) = 1
  BY DEF ListTyped
<1>2. start \in Seq(A) /\ Len(start) = Len(list) + 1
  BY <1>1, ConcatProperties
<1>3. start[1] = ListHead /\ \A i \in 1 .. Len(list) : start[i + 1] = list[i]
  BY <1>1, ConcatProperties
<1> HIDE DEF start
<1>4. Ring = start \o <<ListHead>>
  BY DEF Ring, start
<1>5. Len(Ring) = Len(list) + 2 /\ Ring \in Seq(A)
  BY <1>1, <1>2, <1>4, ConcatProperties
<1>6. /\ \A i \in 1 .. Len(list) + 1 : Ring[i] = start[i]
      /\ Ring[Len(list) + 2] = ListHead
  BY <1>1, <1>2, <1>4, ConcatProperties
<1>7. QED
  BY <1>1, <1>3, <1>5, <1>6

\* e->next of a member of the list is another member or the head.
LEMMA NextOfMember ==
    ASSUME ListTyped, ListInjective, ListHead \notin Connections,
           NEW c \in Listed
    PROVE  Next1(c) \in (Listed \cup {ListHead}) \ {c}
<1>1. PICK m \in 1 .. Len(list) : c = list[m]
  BY RingElements DEF Listed, ToSet
<1>2. c # ListHead
  BY <1>1, RingElements DEF ListTyped
<1> DEFINE S == {i \in DOMAIN Ring : Ring[i] = c}
<1>3. S = {m + 1}
  <2>1. m + 1 \in S
    BY <1>1, RingElements
  <2>2. ASSUME NEW i \in S
        PROVE  i = m + 1
    <3>1. i \in 1 .. Len(list) + 2 /\ i # 1 /\ i # Len(list) + 2
      BY <1>2, RingElements
    <3>2. i - 1 \in 1 .. Len(list) /\ list[i - 1] = c /\ (i - 1) + 1 = i
      BY <3>1, RingElements
    <3>3. i - 1 = m
      BY <1>1, <3>2, RingElements DEF ListInjective
    <3>4. QED
      BY <3>2, <3>3
  <2>3. QED
    BY <2>1, <2>2
<1>4. Min(S) = m + 1
  <2>1. m + 1 \in Int
    BY RingElements
  <2> HIDE DEF S
  <2>2. QED
    BY <1>3, <2>1, MinIs
<1>5. Next1(c) = Ring[m + 2]
  BY <1>4 DEF Next1
<1>6. CASE m = Len(list)
  BY <1>2, <1>5, <1>6, RingElements
<1>7. CASE m < Len(list)
  <2>1. m + 1 \in 1 .. Len(list) /\ Ring[m + 2] = list[m + 1]
    BY <1>7, RingElements
  <2>2. list[m + 1] # c
    BY <1>1, <2>1, RingElements DEF ListInjective
  <2>3. list[m + 1] \in Listed
    BY <2>1, RingElements DEF Listed, ToSet
  <2>4. QED
    BY <1>5, <2>1, <2>2, <2>3
<1>8. m = Len(list) \/ m < Len(list)
  BY <1>1 DEF ListTyped
<1>9. QED
  BY <1>6, <1>7, <1>8

\* The loop begins at the head, with the first of the list.
LEMMA NextOfHead ==
    ASSUME ListTyped
    PROVE  Next1(ListHead) \in Listed \cup {ListHead}
<1> DEFINE S == {i \in DOMAIN Ring : Ring[i] = ListHead}
<1>1. S \in SUBSET Int /\ 1 \in S /\ \A y \in S : 1 <= y
  BY RingElements
<1>2. Min(S) = 1
  BY <1>1, MinIs
<1>3. Next1(ListHead) = Ring[2]
  BY <1>2 DEF Next1
<1>4. CASE Len(list) = 0
  BY <1>3, <1>4, RingElements
<1>5. CASE Len(list) > 0
  BY <1>3, <1>5, RingElements DEF Listed, ToSet
<1>6. QED
  BY <1>4, <1>5, RingElements

\* del_from_list takes c out and leaves the others in, each of them once.
LEMMA WithoutOne ==
    ASSUME ListTyped, ListInjective, NEW c \in Listed
    PROVE  /\ Without(c) \in Seq(used)
           /\ \A i, j \in DOMAIN Without(c) : Without(c)[i] = Without(c)[j] => i = j
           /\ ToSet(Without(c)) = Listed \ {c}
<1>1. PICK m \in 1 .. Len(list) : c = list[m]
  BY RingElements DEF Listed, ToSet
<1> DEFINE S == {i \in DOMAIN list : list[i] = c}
           n == Len(list)
           before == SubSeq(list, 1, m - 1)
           after == SubSeq(list, m + 1, n)
<1>2. n \in Nat /\ DOMAIN list = 1 .. n /\ list \in Seq(used)
  BY RingElements DEF ListTyped
<1>3. S = {m}
  BY <1>1, <1>2 DEF ListInjective
<1>4. Min(S) = m
  BY <1>3, MinIs
<1>5. Without(c) = before \o after
  BY <1>4 DEF Without, RemoveAt
<1>6. /\ before \in Seq(used) /\ Len(before) = m - 1
      /\ \A i \in 1 .. m - 1 : before[i] = list[i]
  BY <1>2
<1>7. /\ after \in Seq(used) /\ Len(after) = n - m
      /\ \A i \in 1 .. n - m : after[i] = list[m + i]
  <2>1. m \in 1 .. n /\ (m < n => m + 1 \in 1 .. n)
    BY <1>1, <1>2
  <2> HIDE DEF n
  <2>2. after \in Seq(used)
    BY <1>2, <2>1
  <2>3. Len(after) = n - m /\ \A i \in 1 .. n - m : after[i] = list[m + i]
    BY <1>2, <2>1
  <2>4. QED
    BY <2>2, <2>3
<1> HIDE DEF before, after, n
<1>8. /\ Without(c) \in Seq(used) /\ Len(Without(c)) = n - 1
      /\ DOMAIN Without(c) = 1 .. n - 1
      /\ \A i \in 1 .. m - 1 : Without(c)[i] = list[i]
      /\ \A i \in m .. n - 1 : Without(c)[i] = list[i + 1]
  <2>1. Without(c) \in Seq(used) /\ Len(Without(c)) = (m - 1) + (n - m)
    BY <1>5, <1>6, <1>7, ConcatProperties
  <2>2. \A i \in 1 .. m - 1 : Without(c)[i] = before[i]
    BY <1>5, <1>6, <1>7, ConcatProperties
  <2>3. \A i \in 1 .. n - m : Without(c)[(m - 1) + i] = after[i]
    BY <1>5, <1>6, <1>7, ConcatProperties
  <2>4. ASSUME NEW i \in m .. n - 1
        PROVE  Without(c)[i] = list[i + 1]
    <3>1. i - m + 1 \in 1 .. n - m /\ (m - 1) + (i - m + 1) = i /\ m + (i - m + 1) = i + 1
      BY <1>2, <2>4
    <3>2. QED
      BY <1>7, <2>3, <3>1
  <2>5. QED
    BY <1>2, <1>6, <2>1, <2>2, <2>4
<1>9. \A i, j \in DOMAIN Without(c) : Without(c)[i] = Without(c)[j] => i = j
  <2>1. SUFFICES ASSUME NEW i \in 1 .. n - 1, NEW j \in 1 .. n - 1,
                        Without(c)[i] = Without(c)[j]
                 PROVE  i = j
    BY <1>8
  <2> DEFINE At1(k) == IF k < m THEN k ELSE k + 1
  <2>2. \A k \in 1 .. n - 1 : At1(k) \in 1 .. n /\ Without(c)[k] = list[At1(k)]
    BY <1>2, <1>8
  <2>3. At1(i) = At1(j)
    <3> HIDE DEF At1
    <3>1. QED
      BY <1>2, <2>1, <2>2 DEF ListInjective
  <2>4. QED
    BY <1>2, <2>3
<1>10. ToSet(Without(c)) \subseteq Listed \ {c}
  <2>1. ASSUME NEW i \in 1 .. n - 1
        PROVE  \E j \in 1 .. n : j # m /\ Without(c)[i] = list[j]
    <3>1. CASE i < m
      <4>1. i \in 1 .. m - 1 /\ i \in 1 .. n /\ i # m
        BY <1>2, <3>1
      <4>2. Without(c)[i] = list[i]
        BY <1>8, <4>1
      <4>3. QED
        BY <4>1, <4>2
    <3>2. CASE i >= m
      <4>1. i \in m .. n - 1 /\ i + 1 \in 1 .. n /\ i + 1 # m
        BY <1>2, <3>2
      <4>2. Without(c)[i] = list[i + 1]
        BY <1>8, <4>1
      <4>3. QED
        BY <4>1, <4>2
    <3>3. QED
      BY <1>2, <3>1, <3>2
  <2>2. \A j \in 1 .. n : j # m => list[j] \in Listed \ {c}
    BY <1>1, <1>2 DEF ListInjective, Listed, ToSet
  <2>3. QED
    BY <1>8, <2>1, <2>2 DEF ToSet
<1>11. Listed \ {c} \subseteq ToSet(Without(c))
  <2>1. ASSUME NEW j \in 1 .. n, j # m
        PROVE  \E i \in 1 .. n - 1 : Without(c)[i] = list[j]
    <3>1. CASE j < m
      BY <1>2, <1>8, <3>1
    <3>2. CASE j > m
      <4>1. j - 1 \in m .. n - 1 /\ (j - 1) + 1 = j
        BY <1>2, <3>2
      <4>2. j - 1 \in 1 .. n - 1
        BY <1>1, <1>2, <3>2
      <4>3. QED
        BY <1>8, <4>1, <4>2
    <3>3. QED
      BY <1>1, <1>2, <2>1, <3>1, <3>2
  <2>2. \A d \in Listed \ {c} : \E j \in 1 .. n : j # m /\ d = list[j]
    BY <1>1, <1>2 DEF Listed, ToSet
  <2>3. QED
    BY <1>8, <2>1, <2>2 DEF ToSet
<1>12. QED
  BY <1>8, <1>9, <1>10, <1>11

\* Where the loop goes is a member of the list, or its head.
LEMMA NextIsAlive ==
    ASSUME WalkInv, ServerAssumption, pc = "walk"
    PROVE  Next1(cursor) \in Listed \cup {ListHead}
BY NextOfMember, NextOfHead DEF WalkInv, CursorIsAlive, ServerAssumption

-----------------------------------------------------------------------------
\* The loop moves on within the list.
LEMMA WalkKept ==
    ASSUME WalkInv, list' = list, used' = used,
           pc' = "walk" => cursor' \in Listed \cup {ListHead}
    PROVE  WalkInv'
<1>1. Listed' = Listed
  BY DEF Listed
<1>2. ListTyped' /\ ListInjective'
  BY DEF WalkInv, ListTyped, ListInjective
<1>3. CursorIsAlive'
  BY <1>1 DEF CursorIsAlive
<1>4. QED
  BY <1>2, <1>3 DEF WalkInv

\* A new connection goes to the head of the list outside of the loop.
LEMMA WalkGrows ==
    ASSUME WalkInv, NEW c \in Connections \ used, used' = used \cup {c},
           list' = <<c>> \o list, pc' # "walk"
    PROVE  WalkInv'
<1> DEFINE A == used \cup {c}
<1>1. <<c>> \in Seq(A) /\ list \in Seq(A) /\ list \in Seq(used) /\ Len(<<c>>) = 1
  BY DEF WalkInv, ListTyped
<1>2. /\ list' \in Seq(A) /\ Len(list') = Len(list) + 1 /\ list'[1] = c
      /\ \A i \in 1 .. Len(list) : list'[i + 1] = list[i]
  BY <1>1, ConcatProperties
<1>3. ListTyped'
  BY <1>2 DEF WalkInv, ListTyped
<1>4. DOMAIN list' = 1 .. Len(list) + 1 /\ Len(list) \in Nat /\ DOMAIN list = 1 .. Len(list)
  BY <1>1, <1>2
<1>5. \A i \in 2 .. Len(list) + 1 :
        i - 1 \in 1 .. Len(list) /\ list'[i] = list[i - 1] /\ list'[i] \in used
  <2>1. ASSUME NEW i \in 2 .. Len(list) + 1
        PROVE  i - 1 \in 1 .. Len(list) /\ (i - 1) + 1 = i
    BY <1>4
  <2>2. QED
    BY <1>1, <1>2, <1>4, <2>1
<1>6. ListInjective'
  <2>1. SUFFICES ASSUME NEW i \in 1 .. Len(list) + 1, NEW j \in 1 .. Len(list) + 1,
                        list'[i] = list'[j]
                 PROVE  i = j
    BY <1>4 DEF ListInjective
  <2>2. i = 1 \/ i \in 2 .. Len(list) + 1
    BY <1>4
  <2>3. j = 1 \/ j \in 2 .. Len(list) + 1
    BY <1>4
  <2>4. i = 1 <=> j = 1
    BY <1>2, <1>5, <2>1, <2>2, <2>3
  <2>5. CASE i \in 2 .. Len(list) + 1 /\ j \in 2 .. Len(list) + 1
    <3>1. i - 1 = j - 1
      BY <1>4, <1>5, <2>1, <2>5 DEF WalkInv, ListInjective
    <3>2. QED
      BY <3>1
  <2>6. QED
    BY <2>2, <2>3, <2>4, <2>5
<1>7. QED
  BY <1>3, <1>6 DEF WalkInv, CursorIsAlive

\* server_close_connection in the loop: it goes on from the next one, which
\* is not the one that was freed.
LEMMA WalkCloses ==
    ASSUME WalkInv, ServerAssumption, NEW c \in Listed, used' = used,
           list' = Without(c), cursor' = Next1(c)
    PROVE  WalkInv'
<1>1. ListTyped /\ ListInjective /\ ListHead \notin Connections
  BY DEF WalkInv, ServerAssumption
<1>2. /\ list' \in Seq(used)
      /\ \A i, j \in DOMAIN list' : list'[i] = list'[j] => i = j
      /\ Listed' = Listed \ {c}
  BY <1>1, WithoutOne DEF Listed
<1>3. cursor' \in (Listed \cup {ListHead}) \ {c}
  BY <1>1, NextOfMember
<1>4. QED
  BY <1>1, <1>2, <1>3 DEF WalkInv, ListTyped, ListInjective, CursorIsAlive

\* The lists and the loop at the start.
LEMMA WalkInit ==
    ASSUME Init
    PROVE  WalkInv
BY DEF Init, WalkInv, ListTyped, ListInjective, CursorIsAlive

\* Every step keeps the invariant: one case for each way of moving the
\* cursor or changing the list.
LEMMA WalkStep ==
    ASSUME WalkInv, ServerAssumption, [Next]_vars
    PROVE  WalkInv'
<1>1. ASSUME NEW c \in Connections, At(c)
      PROVE  c \in Listed
  BY <1>1, NextIsAlive DEF At
<1>2. ASSUME NEW c \in Connections, AddConnection(c)
      PROVE  WalkInv'
  <2>1. /\ c \in Connections \ used /\ used' = used \cup {c}
        /\ list' = <<c>> \o list /\ pc' # "walk"
    BY <1>2 DEF AddConnection, Connections
  <2>2. QED
    BY <2>1, WalkGrows
<1>3. ASSUME NEW c \in Connections, Accept(c)
      PROVE  WalkInv'
  <2>1. /\ c \in Connections \ used /\ used' = used \cup {c}
        /\ list' = <<c>> \o list /\ pc' # "walk"
    BY <1>3 DEF Accept, Connections
  <2>2. QED
    BY <2>1, WalkGrows
<1>4. ASSUME NEW c \in Connections, Read(c)
      PROVE  WalkInv'
  <2>1. CASE ReadOn(c)
    <3>1. At(c) /\ list' = list /\ used' = used /\ cursor' = c
      BY <2>1 DEF ReadOn, ReadNow
    <3>2. QED
      BY <1>1, <3>1, WalkKept
  <2>2. CASE ReadRestart(c)
    <3>1. At(c) /\ list' = list /\ used' = used /\ cursor' = c
      BY <2>2 DEF ReadRestart, ReadNow
    <3>2. QED
      BY <1>1, <3>1, WalkKept
  <2>3. CASE ReadClose(c)
    <3>1. At(c) /\ list' = Without(c) /\ used' = used /\ cursor' = Next1(c)
      BY <2>3 DEF ReadClose, ReadNow
    <3>2. QED
      BY <1>1, <3>1, WalkCloses
  <2>4. QED
    BY <1>4, <2>1, <2>2, <2>3 DEF Read
<1>5. ASSUME NEW c \in Connections, Pass(c) \/ FinishConnect(c) \/ Write(c)
      PROVE  WalkInv'
  <2>1. /\ At(c) /\ list' = list /\ used' = used
        /\ cursor' = c \/ (cursor' = cursor /\ pc = "walk")
    BY <1>5 DEF Pass, FinishConnect, Write, At
  <2>2. QED
    BY <1>1, <2>1, WalkKept DEF WalkInv, CursorIsAlive
<1>6. CASE Select
  <2>1. list' = list /\ used' = used /\ cursor' = ListHead
    BY <1>6 DEF Select
  <2>2. QED
    BY <2>1, WalkKept
<1>7. CASE EndOfWalk \/ AcceptNothing \/ RestartConnection \/ EndOfCycle
  <2>1. list' = list /\ used' = used /\ pc' # "walk"
    BY <1>7 DEF EndOfWalk, AcceptNothing, RestartConnection, EndOfCycle
  <2>2. QED
    BY <2>1, WalkKept
<1>8. CASE \/ Broadcast \/ Knock \/ Second
           \/ \E c \in Connections : Peer(c)
           \/ UNCHANGED vars
  <2>1. list' = list /\ used' = used /\ pc' = pc /\ cursor' = cursor
    BY <1>8 DEF Broadcast, Knock, Second, Peer, vars
  <2>2. QED
    BY <2>1, WalkKept DEF WalkInv, CursorIsAlive
<1>9. QED
  BY <1>2, <1>3, <1>4, <1>5, <1>6, <1>7, <1>8 DEF Next, Cycle

\* The loop of server_cycle stands on a connection of the list or on its
\* head, however many connections reading removes and frees in it.
THEOREM ServerWalk == Spec => []CursorIsAlive
<1>1. Init => WalkInv
  BY WalkInit
<1>2. WalkInv /\ [Next]_vars => WalkInv'
  BY WalkStep, ServerAssumption
<1>3. WalkInv => CursorIsAlive
  BY DEF WalkInv
<1>4. QED
  BY <1>1, <1>2, <1>3, PTL DEF Spec

LEMMA Smallest ==
    ASSUME NEW T, T \subseteq Nat, T # {}
    PROVE  \E x \in T : \A y \in T : x <= y
<1>1. PICK x \in T : \A y \in T : ~ (<<y, x>> \in OpToRel(<, Nat))
    BY WFMin, NatLessThanWellFounded, Zenon
<1>2. ASSUME NEW y \in T PROVE x <= y
  <2>1. ~ (y < x)
      BY <1>1, Zenon DEF OpToRel
  <2>2. QED
      BY <2>1
<1>3. QED
    BY <1>2

\* A set of numbers that holds 0 and with each the next one.
LEMMA Induction ==
    ASSUME NEW n \in Nat, NEW T, 0 \in T,
           \A i \in 1 .. n : i - 1 \in T => i \in T
    PROVE  0 .. n \subseteq T
<1> SUFFICES ASSUME ~ (0 .. n \subseteq T) PROVE FALSE
    OBVIOUS
<1> DEFINE U == (0 .. n) \ T
<1>1. U \subseteq Nat /\ U # {}
    OBVIOUS
<1>2. PICK x \in U : \A y \in U : x <= y
    BY <1>1, Smallest
<1>3. x \in 1 .. n
    BY <1>1
<1>4. x - 1 \in T
  <2>1. x - 1 \in 0 .. n /\ ~ (x <= x - 1)
      BY <1>3
  <2>2. QED
      BY <1>2, <2>1
<1>5. QED
    BY <1>3, <1>4

\* A function is defined by its first value and by its steps.
LEMMA Recursion ==
    ASSUME NEW n \in Nat, NEW S, NEW b \in S, NEW g \in [(1 .. n) \X S -> S]
    PROVE  \E f \in [0 .. n -> S] :
             f = [i \in 0 .. n |-> IF i = 0 THEN b ELSE g[<<i, f[i - 1]>>]]
<1> DEFINE Good(k, f) == /\ f \in [0 .. k -> S] /\ f[0] = b
                         /\ \A i \in 1 .. k : f[i] = g[<<i, f[i - 1]>>]
           T == {k \in 0 .. n : \E f : Good(k, f)}
<1>1. 0 \in T
  <2> DEFINE f == [i \in 0 .. 0 |-> b]
  <2>1. f \in [0 .. 0 -> S] /\ f[0] = b
      OBVIOUS
  <2>2. 1 .. 0 = {}
      OBVIOUS
  <2> HIDE DEF f
  <2>3. Good(0, f)
      BY <2>1, <2>2
  <2>4. QED
      BY <2>3
<1>2. ASSUME NEW k \in 1 .. n, k - 1 \in T PROVE k \in T
  <2>1. PICK f : Good(k - 1, f)
      BY <1>2
  <2> DEFINE h == [i \in 0 .. k |-> IF i = k THEN g[<<k, f[k - 1]>>] ELSE f[i]]
  <2>2. k - 1 \in 0 .. k - 1 /\ f[k - 1] \in S
      BY <2>1
  <2>3. g[<<k, f[k - 1]>>] \in S
      BY <2>2
  <2>4. h \in [0 .. k -> S] /\ h[0] = b
      BY <2>1, <2>3
  <2>5. ASSUME NEW i \in 1 .. k PROVE h[i] = g[<<i, h[i - 1]>>]
    <3>1. i - 1 \in 0 .. k /\ i - 1 # k /\ h[i - 1] = f[i - 1]
        OBVIOUS
    <3>2. CASE i = k
        BY <3>1, <3>2
    <3>3. CASE i # k
      <4>1. i \in 1 .. k - 1 /\ i \in 0 .. k
          BY <3>3
      <4>2. h[i] = f[i] /\ f[i] = g[<<i, f[i - 1]>>]
          BY <2>1, <3>3, <4>1
      <4>3. QED
          BY <3>1, <4>2
    <3>4. QED
        BY <3>2, <3>3
  <2> HIDE DEF h
  <2>6. Good(k, h)
      BY <2>4, <2>5
  <2>7. QED
      BY <2>6
<1>3. n \in T
  <2> HIDE DEF T
  <2>1. 0 .. n \subseteq T
      BY <1>1, <1>2, Induction
  <2>2. QED
      BY <2>1
<1>4. PICK f : Good(n, f)
    BY <1>3
<1>5. f = [i \in 0 .. n |-> IF i = 0 THEN b ELSE g[<<i, f[i - 1]>>]]
  <2>1. f = [i \in 0 .. n |-> f[i]]
      BY <1>4
  <2>2. \A i \in 0 .. n : f[i] = IF i = 0 THEN b ELSE g[<<i, f[i - 1]>>]
      BY <1>4
  <2>3. QED
      BY <2>1, <2>2
<1>6. QED
    BY <1>4, <1>5

-----------------------------------------------------------------------------
(* What reading and writing make of the fields of a connection.            *)

BinaryLengths == {0, BinaryLength}
ReadingType ==
    [buffer : Seq(Bytes), binary : BinaryLengths, finished : BOOLEAN,
     handed : Seq(Seq(Bytes)), answers : Nat]

LEMMA Appended ==
    ASSUME NEW S, NEW s \in Seq(S), NEW x \in S
    PROVE  Append(s, x) \in Seq(S)
BY AppendProperties

LEMMA LineHookTyped ==
    ASSUME NEW r \in ReadingType, NEW line \in Seq(Bytes)
    PROVE  CallLineHook(r, line) \in ReadingType
<1>1. /\ r.buffer \in Seq(Bytes) /\ r.binary \in BinaryLengths /\ r.finished \in BOOLEAN
      /\ r.handed \in Seq(Seq(Bytes)) /\ r.answers \in Nat
      /\ r = [buffer |-> r.buffer, binary |-> r.binary, finished |-> r.finished,
              handed |-> r.handed, answers |-> r.answers]
  BY DEF ReadingType
<1> DEFINE binary == IF Head(line) = Binary THEN BinaryLength ELSE r.binary
           finished == r.finished \/ Head(line) = Quit
           answers == IF Head(line) = Ask THEN r.answers + 1 ELSE r.answers
<1>2. /\ Append(r.handed, line) \in Seq(Seq(Bytes)) /\ binary \in BinaryLengths
      /\ finished \in BOOLEAN /\ answers \in Nat
  BY <1>1, Appended DEF BinaryLengths
<1>3. CallLineHook(r, line) =
        [r EXCEPT !.handed = Append(r.handed, line), !.binary = binary,
                  !.finished = finished, !.answers = answers]
  BY DEF CallLineHook
<1> HIDE DEF binary, finished, answers
<1>4. QED
  BY <1>2, <1>3 DEF ReadingType

LEMMA ParseByteTyped ==
    ASSUME NEW r \in ReadingType, NEW byte \in Bytes
    PROVE  ParseByte(r, byte) \in ReadingType
<1>1. r.buffer \in Seq(Bytes)
  BY DEF ReadingType
<1>2. <<>> \in Seq(Bytes) /\ Append(r.buffer, byte) \in Seq(Bytes)
  BY <1>1, Appended, EmptySeq
<1>3. /\ [r EXCEPT !.buffer = <<>>] \in ReadingType
      /\ [r EXCEPT !.buffer = Append(@, byte)] \in ReadingType
  BY <1>2 DEF ReadingType
<1>4. QED
  BY <1>1, <1>3, LineHookTyped DEF ParseByte

\* The loop over the bytes has a result, which the bytes before determine.
LEMMA TurnsOfTheLoop ==
    ASSUME NEW r \in ReadingType, r.binary = 0
    PROVE  \E after \in [0 .. Len(r.buffer) -> ReadingType] :
             /\ after[0] = [r EXCEPT !.buffer = <<>>]
             /\ \A i \in 1 .. Len(r.buffer) : after[i] = ParseByte(after[i - 1], r.buffer[i])
             /\ ReadLines(r) = after[Len(r.buffer)]
<1> PICK n : n = Len(r.buffer)
  OBVIOUS
<1> PICK start : start = [r EXCEPT !.buffer = <<>>]
  OBVIOUS
<1>1. n \in Nat /\ r.buffer \in Seq(Bytes) /\ start \in ReadingType
  BY EmptySeq, LenProperties DEF ReadingType
<1> DEFINE turn == [p \in (1 .. n) \X ReadingType |-> ParseByte(p[2], r.buffer[p[1]])]
           Loop(f) == f = [i \in 0 .. n |-> IF i = 0 THEN start
                                            ELSE ParseByte(f[i - 1], r.buffer[i])]
<1>2. \A i \in 1 .. n : r.buffer[i] \in Bytes
  BY <1>1, ElementOfSeq
<1>3. turn \in [(1 .. n) \X ReadingType -> ReadingType]
  BY <1>2, ParseByteTyped
<1>4. \A i \in 1 .. n, x \in ReadingType : turn[<<i, x>>] = ParseByte(x, r.buffer[i])
  OBVIOUS
<1> HIDE DEF turn
<1>a. \A m \in Nat : \A S : \A b \in S : \A g \in [(1 .. m) \X S -> S] :
        \E f \in [0 .. m -> S] :
          f = [i \in 0 .. m |-> IF i = 0 THEN b ELSE g[<<i, f[i - 1]>>]]
  BY Recursion, Zenon
<1>5. PICK f \in [0 .. n -> ReadingType] :
        f = [i \in 0 .. n |-> IF i = 0 THEN start ELSE turn[<<i, f[i - 1]>>]]
  <2> DEFINE Loops(f, S, b, g) ==
               f = [i \in 0 .. n |-> IF i = 0 THEN b ELSE g[<<i, f[i - 1]>>]]
  <2>1. \A S : \A b \in S : \A g \in [(1 .. n) \X S -> S] :
          \E f \in [0 .. n -> S] : Loops(f, S, b, g)
    BY <1>1, <1>a
  <2> HIDE DEF Loops
  <2>2. \A b \in ReadingType : \A g \in [(1 .. n) \X ReadingType -> ReadingType] :
          \E f \in [0 .. n -> ReadingType] : Loops(f, ReadingType, b, g)
    BY <2>1, Zenon
  <2>3. \E f \in [0 .. n -> ReadingType] : Loops(f, ReadingType, start, turn)
    BY <1>1, <1>3, <2>2, Zenon
  <2>4. QED
    BY <2>3 DEF Loops
<1>6. \A i \in 1 .. n : turn[<<i, f[i - 1]>>] = ParseByte(f[i - 1], r.buffer[i])
  <2>1. \A i \in 1 .. n : i - 1 \in 0 .. n
    BY <1>1
  <2>2. QED
    BY <1>4, <1>5, <2>1
<1>7. Loop(f)
  <2>1. \A i \in 0 .. n : f[i] = IF i = 0 THEN start ELSE ParseByte(f[i - 1], r.buffer[i])
    <3>0. 0 \in 0 .. n /\ \A i \in 1 .. n : i \in 0 .. n /\ i # 0
      BY <1>1
    <3>1. f[0] = start /\ \A i \in 1 .. n : f[i] = turn[<<i, f[i - 1]>>]
      BY <1>5, <3>0
    <3>2. \A i \in 0 .. n : i = 0 \/ i \in 1 .. n
      BY <1>1
    <3>3. QED
      BY <1>6, <3>0, <3>1, <3>2
  <2>2. f = [i \in 0 .. n |-> f[i]]
    BY <1>5
  <2>3. QED
    BY <2>1, <2>2
<1> DEFINE after[i \in 0 .. Len(r.buffer)] ==
             IF i = 0 THEN [r EXCEPT !.buffer = <<>>] ELSE ParseByte(after[i - 1], r.buffer[i])
<1>8. ReadLines(r) = after[n] /\ Loop(after)
  <2>1. ReadLines(r) = after[Len(r.buffer)]
    BY DEF ReadLines
  <2>2. after = CHOOSE h : h = [i \in 0 .. Len(r.buffer) |->
                  IF i = 0 THEN [r EXCEPT !.buffer = <<>>] ELSE ParseByte(h[i - 1], r.buffer[i])]
    OBVIOUS
  <2> HIDE DEF after
  <2>3. \E h : Loop(h)
    BY <1>7
  <2>4. after = CHOOSE h : Loop(h)
    BY <2>2
  <2> HIDE DEF Loop
  <2>5. QED
    BY <2>1, <2>3, <2>4
<1> HIDE DEF after
<1>9. /\ DOMAIN after = 0 .. n /\ after[0] = start
      /\ \A i \in 1 .. n : after[i] = ParseByte(after[i - 1], r.buffer[i])
  <2>1. after = [i \in 0 .. n |-> IF i = 0 THEN start
                                ELSE ParseByte(after[i - 1], r.buffer[i])]
    BY <1>8
  <2>2. 0 \in 0 .. n /\ \A i \in 1 .. n : i \in 0 .. n /\ i # 0
    BY <1>1
  <2>3. QED
    BY <2>1, <2>2
<1>10. \A i \in 0 .. n : after[i] \in ReadingType
  <2> DEFINE T == {i \in 0 .. n : after[i] \in ReadingType}
  <2>1. 0 \in T
    BY <1>1, <1>9
  <2>2. ASSUME NEW i \in 1 .. n, i - 1 \in T PROVE i \in T
    BY <1>1, <1>2, <1>9, <2>2, ParseByteTyped
  <2> HIDE DEF T
  <2>3. 0 .. n \subseteq T
    BY <1>1, <2>1, <2>2, Induction
  <2>4. QED
    BY <2>3 DEF T
<1>11. after = [i \in 0 .. n |-> after[i]]
  BY <1>8
<1>12. after \in [0 .. n -> ReadingType]
  BY <1>10, <1>11
<1>13. QED
  BY <1>8, <1>9, <1>12

LEMMA ReadTyped ==
    ASSUME NEW r \in ReadingType
    PROVE  ReadData(r) \in ReadingType /\ ReadEnd(r) \in ReadingType
<1>1. ReadLines(r) \in ReadingType
  <2>1. Len(r.buffer) \in 0 .. Len(r.buffer)
    BY LenProperties DEF ReadingType
  <2>2. QED
    BY <2>1, TurnsOfTheLoop DEF ReadLines
<1>2. ASSUME NEW x \in ReadingType PROVE ReadBinary(x) \in ReadingType
  <2>1. CASE x.binary = 0 \/ Len(x.buffer) < x.binary
    BY <2>1 DEF ReadBinary
  <2>2. CASE x.binary # 0 /\ ~(Len(x.buffer) < x.binary)
    <3>1. /\ x.binary \in Nat /\ x.buffer \in Seq(Bytes) /\ Len(x.buffer) \in Nat
          /\ x.handed \in Seq(Seq(Bytes)) /\ 0 \in BinaryLengths
      BY ServerReadAssumption, LenProperties DEF ReadingType, BinaryLengths
    <3>2. /\ SubSeq(x.buffer, 1, x.binary) \in Seq(Bytes)
          /\ SubSeq(x.buffer, x.binary + 1, Len(x.buffer)) \in Seq(Bytes)
      <4>1. \A i \in 1 .. Len(x.buffer) : x.buffer[i] \in Bytes
        BY <3>1, ElementOfSeq
      <4>2. 1 .. x.binary \subseteq 1 .. Len(x.buffer)
        BY <2>2, <3>1
      <4>3. x.binary + 1 .. Len(x.buffer) \subseteq 1 .. Len(x.buffer)
        BY <3>1
      <4>4. QED
        BY <3>1, <4>1, <4>2, <4>3, SubSeqProperties
    <3>3. Append(x.handed, SubSeq(x.buffer, 1, x.binary)) \in Seq(Seq(Bytes))
      BY <3>1, <3>2, Appended
    <3>4. QED
      BY <2>2, <3>1, <3>2, <3>3 DEF ReadBinary, ReadingType
  <2>3. QED
    BY <2>1, <2>2
<1>3. ReadEnd(r) \in ReadingType
  <2>1. r.buffer \in Seq(Bytes)
    BY DEF ReadingType
  <2>2. QED
    BY <2>1, LineHookTyped DEF ReadEnd
<1>4. QED
  BY <1>1, <1>2, <1>3 DEF ReadData

-----------------------------------------------------------------------------
\* A wire to the other end with no more messages on it than fit.
RoomyLink == {l \in LinkType : Len(l.way) <= Window}

\* The lowest free descriptor is a free one.
LEMMA LowestIsFree ==
    ASSUME ServerAssumption, FreeSockets # {}
    PROVE  Min(FreeSockets) \in FreeSockets
<1>1. FreeSockets \subseteq Nat
  BY DEF FreeSockets, ServerAssumption
<1>2. PICK m \in FreeSockets : \A y \in FreeSockets : m <= y
  BY <1>1, Smallest
<1>3. FreeSockets \in SUBSET Int
  BY <1>1
<1>4. Min(FreeSockets) = m
  BY <1>2, <1>3, MinIs
<1>5. QED
  BY <1>2, <1>4

\* A descriptor that was given out is one, and belongs to nobody else.
LEMMA FreeIsNew ==
    ASSUME NEW s \in FreeSockets, ServerAssumption
    PROVE  /\ s \in Sockets /\ s # NoSocket
           /\ \A c \in Connections : conn[c].socket # s
<1>1. s \in Sockets /\ s \notin UsedSockets /\ s \in Nat
  BY DEF FreeSockets, ServerAssumption
<1>2. s # NoSocket
  BY <1>1 DEF NoSocket
<1>3. QED
  BY <1>1, <1>2 DEF UsedSockets

LEMMA Numbered ==
    ASSUME NEW k \in Nat, NEW n \in Nat
    PROVE  /\ [i \in 1 .. n |-> k + i] \in Seq(Nat)
           /\ Len([i \in 1 .. n |-> k + i]) = n
           /\ [i \in 1 .. n |-> i] \in Seq(Nat)
           /\ Len([i \in 1 .. n |-> i]) = n
<1>1. /\ [i \in 1 .. n |-> k + i] \in [1 .. n -> Nat]
      /\ [i \in 1 .. n |-> i] \in [1 .. n -> Nat]
  OBVIOUS
<1>2. \A s : s \in [1 .. n -> Nat] => s \in Seq(Nat)
  BY SeqDef
<1>3. /\ [i \in 1 .. n |-> k + i] \in Seq(Nat)
      /\ [i \in 1 .. n |-> i] \in Seq(Nat)
  BY <1>1, <1>2
<1>4. QED
  BY <1>3

\* Writing to the buffer changes nothing else.
LEMMA WriteBlockTyped ==
    ASSUME NEW x \in ConnectionType, NEW n \in Nat
    PROVE  /\ WriteBlock(x, n) \in ConnectionType
           /\ WriteBlock(x, n).socket = x.socket
           /\ WriteBlock(x, n).connected = x.connected
           /\ WriteBlock(x, n).waiting = x.waiting
<1> DEFINE more == [i \in 1 .. n |-> x.written + i]
<1>1. x.written \in Nat /\ x.out \in Seq(Nat)
  BY DEF ConnectionType
<1>2. more \in Seq(Nat)
  BY <1>1, Numbered
<1>3. x.out \o more \in Seq(Nat) /\ x.written + n \in Nat
  BY <1>1, <1>2, ConcatProperties
<1>4. CASE x.socket = NoSocket
  BY <1>4 DEF WriteBlock
<1>5. CASE x.socket # NoSocket
  <2>1. WriteBlock(x, n) = [x EXCEPT !.written = x.written + n, !.out = x.out \o more]
    BY <1>5 DEF WriteBlock
  <2> HIDE DEF more
  <2>2. QED
    BY <1>3, <2>1 DEF ConnectionType
<1>6. QED
  BY <1>4, <1>5

\* What is sent is in the buffer and fits on the way.
LEMMA SendableFits ==
    ASSUME NEW x \in ConnectionType, NEW l \in RoomyLink, ServerAssumption
    PROVE  /\ Sendable(x, l) \in 0 .. Len(x.out)
           /\ Len(l.way) + Sendable(x, l) <= Window
<1>1. /\ x.out \in Seq(Nat) /\ Len(x.out) \in Nat /\ l.way \in Seq(Nat)
      /\ Len(l.way) \in Nat /\ Len(l.way) <= Window /\ Window \in Nat
  BY LenProperties DEF ConnectionType, RoomyLink, LinkType, ServerAssumption
<1> DEFINE room == Window - Len(l.way)
           S == {Len(x.out), room}
<1>2. room \in Nat
  BY <1>1
<1>3. PICK m \in S : \A y \in S : m <= y
  BY <1>1, <1>2, Smallest
<1>4. Min(S) = m
  <2>1. S \in SUBSET Int
    BY <1>1, <1>2
  <2> HIDE DEF S
  <2>2. QED
    BY <1>3, <2>1, MinIs
<1>5. m \in 0 .. Len(x.out) /\ m <= room
  BY <1>1, <1>2, <1>3
<1>6. CASE Sendable(x, l) = 0
  BY <1>1, <1>6
<1>7. CASE Sendable(x, l) = m
  BY <1>1, <1>5, <1>7
<1>8. QED
  BY <1>4, <1>6, <1>7 DEF Sendable

\* Sending changes the buffer and what is on the way, and nothing else.
LEMMA SentTyped ==
    ASSUME NEW x \in ConnectionType, NEW l \in RoomyLink, ServerAssumption
    PROVE  /\ Sent(x, l) \in ConnectionType /\ Sent(x, l).socket = x.socket
           /\ Sent(x, l).connected = x.connected /\ Sent(x, l).waiting = x.waiting
           /\ Carried(x, l) \in RoomyLink /\ Carried(x, l).state = l.state
           /\ Carried(x, l).wire = l.wire
<1> DEFINE m == Sendable(x, l)
           rest == SubSeq(x.out, m + 1, Len(x.out))
           sent == SubSeq(x.out, 1, m)
<1>1. /\ x.out \in Seq(Nat) /\ Len(x.out) \in Nat /\ l.way \in Seq(Nat)
      /\ l \in LinkType /\ Len(l.way) \in Nat
  BY LenProperties DEF ConnectionType, RoomyLink, LinkType
<1>2. m \in 0 .. Len(x.out) /\ Len(l.way) + m <= Window /\ m \in Int
  BY <1>1, SendableFits
<1>3. Sent(x, l) = [x EXCEPT !.out = rest] /\ Carried(x, l) = [l EXCEPT !.way = l.way \o sent]
  BY DEF Sent, Carried
<1> HIDE DEF m
<1>4. \A i \in 1 .. Len(x.out) : x.out[i] \in Nat
  BY <1>1, ElementOfSeq
<1>5. 1 .. m \subseteq 1 .. Len(x.out) /\ m + 1 .. Len(x.out) \subseteq 1 .. Len(x.out)
  BY <1>1, <1>2
<1>6. rest \in Seq(Nat) /\ sent \in Seq(Nat) /\ Len(sent) = m
  BY <1>1, <1>2, <1>4, <1>5, SubSeqProperties
<1> HIDE DEF rest, sent
<1>7. l.way \o sent \in Seq(Nat) /\ Len(l.way \o sent) <= Window
  <2>1. l.way \o sent \in Seq(Nat) /\ Len(l.way \o sent) = Len(l.way) + Len(sent)
    BY <1>1, <1>6, ConcatProperties
  <2>2. QED
    BY <1>2, <1>6, <2>1
<1>8. Sent(x, l) \in ConnectionType /\ Sent(x, l).socket = x.socket
      /\ Sent(x, l).connected = x.connected /\ Sent(x, l).waiting = x.waiting
  BY <1>3, <1>6 DEF ConnectionType
<1>9. /\ Carried(x, l) \in LinkType /\ Carried(x, l).state = l.state
      /\ Carried(x, l).wire = l.wire /\ Carried(x, l).way = l.way \o sent
  BY <1>1, <1>3, <1>7 DEF LinkType
<1>10. QED
  BY <1>7, <1>8, <1>9 DEF RoomyLink

\* A connection as it is made, and a wire with nothing on it.
LEMMA NewTyped ==
    ASSUME ServerAssumption, ServerReadAssumption
    PROVE  /\ \A s \in Sockets \cup {NoSocket}, b \in BOOLEAN : NewConnection(s, b) \in ConnectionType
           /\ \A state \in LinkStates : NewLink(state) \in RoomyLink
<1>1. /\ <<>> \in Seq(Bytes) /\ <<>> \in Seq(Nat) /\ <<>> \in Seq(Seq(Bytes))
      /\ Len(<<>>) = 0 /\ Window \in Nat
  BY EmptySeq DEF ServerAssumption
<1>2. ASSUME NEW s \in Sockets \cup {NoSocket}, NEW b \in BOOLEAN
      PROVE  NewConnection(s, b) \in ConnectionType
  BY <1>1 DEF NewConnection, ConnectionType
<1>3. ASSUME NEW state \in LinkStates
      PROVE  NewLink(state) \in RoomyLink
  <2>1. NewLink(state) \in LinkType
    BY <1>1 DEF NewLink, LinkType
  <2>2. NewLink(state).way = <<>>
    BY DEF NewLink
  <2>3. Len(NewLink(state).way) <= Window
    BY <1>1, <2>2
  <2>4. QED
    BY <2>1, <2>3 DEF RoomyLink
<1>4. QED
  BY <1>2, <1>3

\* What reading makes of a connection: is_connected and the socket stay, and
\* cleaning up takes both away.
LEMMA HandledTyped ==
    ASSUME NEW c \in Connections, conn[c] \in ConnectionType, link[c] \in LinkType
    PROVE  /\ Handled(c) \in ConnectionType /\ Handled(c).socket = conn[c].socket
           /\ Handled(c).connected = conn[c].connected
           /\ Handled(c).waiting = conn[c].waiting
           /\ \E y \in ConnectionType, n \in Nat :
                /\ Handled(c) = WriteBlock(y, n) /\ y.out = conn[c].out
                /\ y.written = conn[c].written /\ y.connected = conn[c].connected
<1> DEFINE x == conn[c]
           in == x.in \o link[c].wire
           r == Reading(in, x.binary, x.finished)
           res == Result(c)
           y == [x EXCEPT !.in = res.buffer, !.binary = res.binary,
                          !.finished = res.finished, !.handed = x.handed \o res.handed]
<1>1. /\ x.in \in Seq(Bytes) /\ link[c].wire \in Seq(Bytes) /\ x.finished \in BOOLEAN
      /\ x.binary \in BinaryLengths /\ x.handed \in Seq(Seq(Bytes))
  BY DEF ConnectionType, LinkType, BinaryLengths
<1>2. in \in Seq(Bytes) /\ <<>> \in Seq(Seq(Bytes))
  BY <1>1, ConcatProperties, EmptySeq
<1> HIDE DEF in
<1>3. r \in ReadingType
  BY <1>1, <1>2 DEF Reading, ReadingType
<1>4. res \in ReadingType
  <2>1. res = ReadEnd(r) \/ res = ReadData(r)
    BY DEF Result, in
  <2>2. QED
    BY <1>3, <2>1, ReadTyped
<1> HIDE DEF res
<1>5. /\ res.buffer \in Seq(Bytes) /\ res.binary \in {0, BinaryLength}
      /\ res.finished \in BOOLEAN /\ res.handed \in Seq(Seq(Bytes)) /\ res.answers \in Nat
  BY <1>4 DEF ReadingType, BinaryLengths
<1>6. x.handed \o res.handed \in Seq(Seq(Bytes))
  BY <1>1, <1>5, ConcatProperties
<1>7. /\ y \in ConnectionType /\ y.socket = x.socket /\ y.connected = x.connected
      /\ y.waiting = x.waiting /\ y.out = x.out /\ y.written = x.written
  BY <1>5, <1>6 DEF ConnectionType
<1>8. Handled(c) = WriteBlock(y, res.answers)
  BY DEF Handled, res
<1> HIDE DEF y
<1>9. QED
  BY <1>5, <1>7, <1>8, WriteBlockTyped

LEMMA CleanedUpTyped ==
    ASSUME NEW x \in ConnectionType, ServerAssumption, ServerReadAssumption
    PROVE  /\ CleanedUp(x) \in ConnectionType /\ CleanedUp(x).socket = NoSocket
           /\ ~CleanedUp(x).connected /\ CleanedUp(x).waiting = x.waiting
           /\ CleanedUp(x).out = <<>> /\ CleanedUp(x).written = 0
<1>1. /\ x.waiting \in BOOLEAN /\ x.finished \in BOOLEAN /\ x.handed \in Seq(Seq(Bytes))
  BY DEF ConnectionType
<1>2. <<>> \in Seq(Bytes) /\ <<>> \in Seq(Nat)
  BY EmptySeq
<1>3. QED
  BY <1>1, <1>2 DEF CleanedUp, NewConnection, ConnectionType

-----------------------------------------------------------------------------
(* Sequences of timers that hold one for each of the connections W. *)

TimerType == [conn : Connections, expired : BOOLEAN]

OneTimerEach(ts, W) ==
    /\ ts \in Seq(TimerType)
    /\ \A i \in 1 .. Len(ts) : ts[i].conn \in W
    /\ \A i, j \in 1 .. Len(ts) : ts[i].conn = ts[j].conn => i = j
    /\ \A c \in W : \E i \in 1 .. Len(ts) : ts[i].conn = c

\* server_add_timer puts it at the head.
LEMMA TimerAdded ==
    ASSUME NEW ts, NEW W, OneTimerEach(ts, W), NEW c \in Connections \ W
    PROVE  OneTimerEach(<<RestartTimer(c)>> \o ts, W \cup {c})
<1> DEFINE t == RestartTimer(c)
           more == <<t>> \o ts
<1>1. t \in TimerType /\ t.conn = c
  BY DEF RestartTimer, TimerType
<1> HIDE DEF t
<1>2. ts \in Seq(TimerType) /\ Len(ts) \in Nat /\ <<t>> \in Seq(TimerType) /\ Len(<<t>>) = 1
  BY <1>1, LenProperties DEF OneTimerEach
<1>3. /\ more \in Seq(TimerType) /\ Len(more) = Len(ts) + 1 /\ more[1] = t
      /\ \A i \in 1 .. Len(ts) : more[i + 1] = ts[i]
  BY <1>2, ConcatProperties
<1> HIDE DEF more
<1>4. \A i \in 1 .. Len(more) : i = 1 \/ (i - 1 \in 1 .. Len(ts) /\ more[i] = ts[i - 1])
  <2>1. ASSUME NEW i \in 1 .. Len(more), i # 1
        PROVE  i - 1 \in 1 .. Len(ts) /\ (i - 1) + 1 = i
    BY <1>2, <1>3, <2>1
  <2>2. QED
    BY <1>3, <2>1
<1>5. \A i \in 1 .. Len(ts) : i + 1 \in 1 .. Len(more)
  BY <1>2, <1>3
<1>a. /\ \A i \in 1 .. Len(ts) : ts[i].conn \in W
      /\ \A i, j \in 1 .. Len(ts) : ts[i].conn = ts[j].conn => i = j
      /\ \A d \in W : \E i \in 1 .. Len(ts) : ts[i].conn = d
  BY DEF OneTimerEach
<1>b. \A i \in 1 .. Len(more) :
        \/ i = 1 /\ more[i].conn = c
        \/ i # 1 /\ i - 1 \in 1 .. Len(ts) /\ more[i].conn = ts[i - 1].conn
                  /\ more[i].conn \in W /\ more[i].conn # c
  <2>1. ASSUME NEW i \in 1 .. Len(more), i # 1
        PROVE  /\ i - 1 \in 1 .. Len(ts) /\ more[i].conn = ts[i - 1].conn
               /\ more[i].conn \in W /\ more[i].conn # c
    <3>1. i - 1 \in 1 .. Len(ts) /\ more[i] = ts[i - 1]
      BY <1>4, <2>1
    <3>2. ts[i - 1].conn \in W
      BY <1>a, <3>1
    <3>3. QED
      BY <3>1, <3>2
  <2>2. more[1].conn = c
    BY <1>1, <1>3
  <2>3. QED
    BY <2>1, <2>2
<1>6. \A i \in 1 .. Len(more) : more[i].conn \in W \cup {c}
  BY <1>b
<1>7. \A i, j \in 1 .. Len(more) : more[i].conn = more[j].conn => i = j
  <2>1. SUFFICES ASSUME NEW i \in 1 .. Len(more), NEW j \in 1 .. Len(more),
                        more[i].conn = more[j].conn
                 PROVE  i = j
    OBVIOUS
  <2>2. \A k \in 1 .. Len(more) : k = 1 <=> more[k].conn = c
    BY <1>b
  <2>3. CASE i # 1 /\ j # 1
    <3>1. i - 1 \in 1 .. Len(ts) /\ j - 1 \in 1 .. Len(ts) /\ ts[i - 1].conn = ts[j - 1].conn
      BY <1>b, <2>1, <2>3
    <3>2. i - 1 = j - 1
      BY <1>a, <3>1
    <3>3. QED
      BY <3>2
  <2>4. QED
    BY <2>1, <2>2, <2>3
<1>8. \A d \in W \cup {c} : \E i \in 1 .. Len(more) : more[i].conn = d
  <2>1. 1 \in 1 .. Len(more) /\ more[1].conn = c
    BY <1>1, <1>2, <1>3
  <2>2. ASSUME NEW d \in W
        PROVE  \E i \in 1 .. Len(more) : more[i].conn = d
    <3>1. PICK i \in 1 .. Len(ts) : ts[i].conn = d
      BY <1>a
    <3>2. i + 1 \in 1 .. Len(more) /\ more[i + 1] = ts[i]
      BY <1>3, <1>5
    <3>3. QED
      BY <3>1, <3>2
  <2>3. QED
    BY <2>1, <2>2
<1>9. QED
  BY <1>3, <1>6, <1>7, <1>8 DEF OneTimerEach, more, t

\* A timer that has been called is deleted.
LEMMA TimerRemoved ==
    ASSUME NEW ts, NEW W, OneTimerEach(ts, W), NEW m \in 1 .. Len(ts)
    PROVE  OneTimerEach(RemoveAt(ts, m), W \ {ts[m].conn})
<1> DEFINE n == Len(ts)
           before == SubSeq(ts, 1, m - 1)
           after == SubSeq(ts, m + 1, n)
           less == before \o after
           At1(k) == IF k < m THEN k ELSE k + 1
<1>1. n \in Nat /\ ts \in Seq(TimerType) /\ m \in Int /\ \A i \in 1 .. n : ts[i] \in TimerType
  BY LenProperties, ElementOfSeq DEF OneTimerEach
<1>2. RemoveAt(ts, m) = less
  BY DEF RemoveAt
<1>3. 1 .. m - 1 \subseteq 1 .. n /\ m + 1 .. n \subseteq 1 .. n
  BY <1>1
<1> HIDE DEF n
<1>4. /\ before \in Seq(TimerType) /\ Len(before) = m - 1
      /\ \A i \in 1 .. m - 1 : before[i] = ts[i]
  <2>1. /\ before \in Seq(TimerType) /\ Len(before) = (IF 1 <= m - 1 THEN m - 1 - 1 + 1 ELSE 0)
        /\ \A i \in 1 .. m - 1 - 1 + 1 : before[i] = ts[1 + i - 1]
    BY <1>1, <1>3, SubSeqProperties
  <2> HIDE DEF before
  <2>2. QED
    BY <1>1, <2>1 DEF n
<1>5. /\ after \in Seq(TimerType) /\ Len(after) = n - m
      /\ \A i \in 1 .. n - m : after[i] = ts[m + i]
  <2>1. /\ after \in Seq(TimerType)
        /\ Len(after) = (IF m + 1 <= n THEN n - (m + 1) + 1 ELSE 0)
        /\ \A i \in 1 .. n - (m + 1) + 1 : after[i] = ts[(m + 1) + i - 1]
    BY <1>1, <1>3, SubSeqProperties
  <2> HIDE DEF after
  <2>2. n - (m + 1) + 1 = n - m /\ \A i \in 1 .. n - m : (m + 1) + i - 1 = m + i
    BY <1>1
  <2>3. m <= n
    BY <1>1 DEF n
  <2>4. QED
    BY <1>1, <2>1, <2>2, <2>3
<1> HIDE DEF before, after
<1>6. /\ less \in Seq(TimerType) /\ Len(less) = n - 1
      /\ \A k \in 1 .. n - 1 : At1(k) \in 1 .. n /\ At1(k) # m /\ less[k] = ts[At1(k)]
  <2>1. /\ less \in Seq(TimerType) /\ Len(less) = (m - 1) + (n - m)
        /\ \A i \in 1 .. (m - 1) + (n - m) :
             less[i] = IF i <= m - 1 THEN before[i] ELSE after[i - (m - 1)]
    <3>1. /\ less \in Seq(TimerType) /\ Len(less) = Len(before) + Len(after)
          /\ \A i \in 1 .. Len(before) + Len(after) :
               less[i] = IF i <= Len(before) THEN before[i] ELSE after[i - Len(before)]
      BY <1>4, <1>5, ConcatProperties
    <3> HIDE DEF less
    <3>2. QED
      BY <1>4, <1>5, <3>1
  <2> HIDE DEF less
  <2>2. ASSUME NEW k \in 1 .. n - 1
        PROVE  At1(k) \in 1 .. n /\ At1(k) # m /\ less[k] = ts[At1(k)]
    <3>1. k \in 1 .. (m - 1) + (n - m)
      BY <1>1
    <3>2. CASE k < m
      <4>1. k <= m - 1 /\ k \in 1 .. m - 1 /\ At1(k) = k /\ k \in 1 .. n
        BY <1>1, <3>2
      <4>2. less[k] = before[k]
        BY <2>1, <3>1, <4>1
      <4>3. QED
        BY <1>1, <1>4, <3>2, <4>1, <4>2
    <3>3. CASE ~(k < m)
      <4>1. /\ ~(k <= m - 1) /\ k - (m - 1) \in 1 .. n - m /\ At1(k) = k + 1
            /\ m + (k - (m - 1)) = k + 1 /\ k + 1 \in 1 .. n /\ k + 1 # m
        BY <1>1, <3>3
      <4>2. less[k] = after[k - (m - 1)]
        BY <2>1, <3>1, <4>1
      <4>3. QED
        BY <1>5, <4>1, <4>2
    <3>4. QED
      BY <3>2, <3>3
  <2>3. QED
    BY <1>1, <2>1, <2>2
<1> HIDE DEF less
<1>7. \A k \in 1 .. n - 1 : less[k].conn \in W \ {ts[m].conn}
  <2> HIDE DEF At1
  <2>1. SUFFICES ASSUME NEW k \in 1 .. n - 1 PROVE less[k].conn \in W \ {ts[m].conn}
    OBVIOUS
  <2> PICK j : j = At1(k)
    OBVIOUS
  <2>2. j \in 1 .. n /\ j # m /\ less[k] = ts[j]
    BY <1>6
  <2>3. ts[j].conn \in W /\ ts[j].conn # ts[m].conn
    BY <1>1, <2>2 DEF OneTimerEach, n
  <2>4. QED
    BY <2>2, <2>3
<1>8. \A j, k \in 1 .. n - 1 : less[j].conn = less[k].conn => j = k
  <2>1. ASSUME NEW j \in 1 .. n - 1, NEW k \in 1 .. n - 1, less[j].conn = less[k].conn
        PROVE  At1(j) = At1(k)
    <3> HIDE DEF At1
    <3>1. QED
      BY <1>6, <2>1 DEF OneTimerEach, n
  <2>2. \A j, k \in 1 .. n - 1 : At1(j) = At1(k) => j = k
    BY <1>1
  <2>3. QED
    BY <2>1, <2>2
<1>9. ASSUME NEW d \in W \ {ts[m].conn}
      PROVE  \E k \in 1 .. n - 1 : less[k].conn = d
  <2>1. PICK i \in 1 .. n : ts[i].conn = d
    BY DEF OneTimerEach, n
  <2>2. i # m
    BY <2>1
  <2>3. PICK k \in 1 .. n - 1 : At1(k) = i
    <3>1. CASE i < m
      <4>1. i \in 1 .. n - 1 /\ At1(i) = i
        BY <1>1, <3>1 DEF n
      <4>2. QED
        BY <4>1
    <3>2. CASE i > m
      <4>1. i - 1 \in 1 .. n - 1 /\ At1(i - 1) = i
        BY <1>1, <3>2
      <4>2. QED
        BY <4>1
    <3>3. QED
      BY <1>1, <2>2, <3>1, <3>2
  <2> HIDE DEF At1
  <2>4. QED
    BY <1>6, <2>1, <2>3
<1>10. QED
  BY <1>2, <1>6, <1>7, <1>8, <1>9 DEF OneTimerEach

\* Time that passes changes no connection of a timer.
LEMMA TimersAge ==
    ASSUME NEW ts, NEW W, OneTimerEach(ts, W), NEW m \in 1 .. Len(ts)
    PROVE  OneTimerEach([ts EXCEPT ![m].expired = TRUE], W)
<1> DEFINE t == [ts[m] EXCEPT !.expired = TRUE]
           old == [ts EXCEPT ![m] = t]
<1>1. ts \in Seq(TimerType) /\ ts[m] \in TimerType /\ DOMAIN ts = 1 .. Len(ts)
  BY ElementOfSeq, LenProperties DEF OneTimerEach
<1>2. t \in TimerType /\ t.conn = ts[m].conn
  BY <1>1 DEF TimerType
<1> HIDE DEF t
<1>3. old \in Seq(TimerType) /\ Len(old) = Len(ts)
  BY <1>1, <1>2, ExceptSeq
<1>4. \A i \in 1 .. Len(ts) : old[i].conn = ts[i].conn
  BY <1>1, <1>2
<1>5. [ts EXCEPT ![m].expired = TRUE] = old
  BY DEF t
<1> HIDE DEF old
<1>6. QED
  BY <1>3, <1>4, <1>5 DEF OneTimerEach

-----------------------------------------------------------------------------
(* The invariant that keeps descriptors, timers and fields together. *)

FieldsTyped ==
    /\ conn \in [Connections -> ConnectionType]
    /\ link \in [Connections -> RoomyLink]
    /\ pc \in {"idle", "walk", "accept", "timers"}
    /\ cursor \in Connections \cup {ListHead}
    /\ rset \subseteq Sockets /\ wset \subseteq Sockets
    /\ listening \in BOOLEAN /\ knocking \in BOOLEAN

SocketsOwned ==
    \A c \in Connections : HasSocket(c) =>
        /\ c \in Listed
        /\ \A d \in Connections \ {c} : conn[d].socket # conn[c].socket

Waiting == {c \in Listed : conn[c].waiting}
TimersOwned ==
    /\ OneTimerEach(timers, Waiting)
    /\ \A c \in Waiting : ~HasSocket(c) /\ ~conn[c].connected

\* Only what the other end has made is connected without ever having had a
\* connect of its own: an active connection without a socket is not.
NotYet == \A c \in Active : ~HasSocket(c) => ~conn[c].connected

OwnInv == WalkInv /\ FieldsTyped /\ SocketsOwned /\ TimersOwned /\ NotYet

LEMMA ListedAre ==
    ASSUME ListTyped
    PROVE  /\ Listed \subseteq used /\ Listed \subseteq Connections
           /\ \A i \in 1 .. Len(list) : list[i] \in Listed
           /\ \A c \in Listed : \E i \in 1 .. Len(list) : list[i] = c
BY RingElements, ElementOfSeq DEF ListTyped, Listed, ToSet

\* select gives one timer to each connection that has no socket and is to
\* get a new one.
LEMMA RestartsAreOne ==
    ASSUME ListTyped, ListInjective, OneTimerEach(timers, Waiting)
    PROVE  OneTimerEach(WithRestarts[Len(list)], Waiting \cup {c \in Listed : NeedsRestart(c)})
<1> PICK n : n = Len(list)
  OBVIOUS
<1> DEFINE S == Seq(TimerType)
           More(i, ts) == IF NeedsRestart(list[i]) THEN <<RestartTimer(list[i])>> \o ts ELSE ts
           g == [p \in (1 .. n) \X S |-> More(p[1], p[2])]
           Loop(f) == f = [i \in 0 .. n |-> IF i = 0 THEN timers ELSE More(i, f[i - 1])]
           W(k) == Waiting \cup {c \in Listed : \E i \in 1 .. k : c = list[i] /\ NeedsRestart(c)}
<1>1. n \in Nat /\ timers \in S /\ \A i \in 1 .. n : list[i] \in Listed /\ list[i] \in Connections
  BY RingElements, ListedAre DEF OneTimerEach
<1>2. ASSUME NEW i \in 1 .. n, NEW ts \in S
      PROVE  More(i, ts) \in S
  <2>1. <<RestartTimer(list[i])>> \in Seq(TimerType)
    BY <1>1 DEF RestartTimer, TimerType
  <2>2. QED
    BY <2>1, ConcatProperties
<1> HIDE DEF More
<1>3. g \in [(1 .. n) \X S -> S]
  BY <1>2
<1>4. \A i \in 1 .. n, ts \in S : g[<<i, ts>>] = More(i, ts)
  OBVIOUS
<1> HIDE DEF S, g
<1>5. \E f : Loop(f)
  <2>a. \A m \in Nat : \A R : \A b \in R : \A h \in [(1 .. m) \X R -> R] :
          \E f \in [0 .. m -> R] :
            f = [i \in 0 .. m |-> IF i = 0 THEN b ELSE h[<<i, f[i - 1]>>]]
    BY Recursion, Zenon
  <2> DEFINE Loops(f, b, h) == f = [i \in 0 .. n |-> IF i = 0 THEN b ELSE h[<<i, f[i - 1]>>]]
  <2>1. \A R : \A b \in R : \A h \in [(1 .. n) \X R -> R] :
          \E f \in [0 .. n -> R] : Loops(f, b, h)
    BY <1>1, <2>a
  <2> HIDE DEF Loops
  <2>2. \A b \in S : \A h \in [(1 .. n) \X S -> S] : \E f \in [0 .. n -> S] : Loops(f, b, h)
    BY <2>1, Zenon
  <2>3. PICK f \in [0 .. n -> S] : Loops(f, timers, g)
    BY <1>1, <1>3, <2>2, Zenon
  <2>4. 0 \in 0 .. n /\ \A i \in 1 .. n : i \in 0 .. n /\ i # 0 /\ i - 1 \in 0 .. n
    BY <1>1
  <2>5. f[0] = timers /\ \A i \in 1 .. n : f[i] = More(i, f[i - 1])
    BY <1>4, <2>3, <2>4, SMTT(30) DEF Loops
  <2>6. \A i \in 0 .. n : i = 0 \/ i \in 1 .. n
    BY <1>1
  <2>7. \A i \in 0 .. n : f[i] = IF i = 0 THEN timers ELSE More(i, f[i - 1])
    BY <2>4, <2>5, <2>6
  <2>8. f = [i \in 0 .. n |-> f[i]]
    BY <2>3
  <2>9. Loop(f)
    BY <2>7, <2>8
  <2>10. QED
    BY <2>9
<1>6. Loop(WithRestarts)
  <2>1. WithRestarts = CHOOSE h : h = [i \in 0 .. Len(list) |->
           IF i = 0 THEN timers
           ELSE IF NeedsRestart(list[i]) THEN <<RestartTimer(list[i])>> \o h[i - 1]
           ELSE h[i - 1]]
    BY DEF WithRestarts
  <2>2. WithRestarts = CHOOSE h : Loop(h)
    BY <2>1 DEF More
  <2> HIDE DEF Loop
  <2>3. QED
    BY <1>5, <2>2
<1>7. /\ WithRestarts[0] = timers
      /\ \A i \in 1 .. n : WithRestarts[i] = More(i, WithRestarts[i - 1])
  <2>1. 0 \in 0 .. n /\ \A i \in 1 .. n : i \in 0 .. n /\ i # 0
    BY <1>1
  <2>2. QED
    BY <1>6, <2>1
<1> HIDE DEF W
<1> DEFINE T == {k \in 0 .. n : OneTimerEach(WithRestarts[k], W(k))}
<1>8. 0 \in T
  <2>1. W(0) = Waiting
    BY DEF W
  <2>2. QED
    BY <1>1, <1>7, <2>1
<1>9. ASSUME NEW k \in 1 .. n, k - 1 \in T
      PROVE  k \in T
  <2> DEFINE c == list[k]
  <2>1. c \in Listed /\ c \in Connections /\ OneTimerEach(WithRestarts[k - 1], W(k - 1))
    BY <1>1, <1>9
  <2>2. \A i \in 1 .. k : i = k \/ i \in 1 .. k - 1
    BY <1>1
  <2>3. 1 .. k - 1 \subseteq 1 .. k /\ k \in 1 .. k
    BY <1>1
  <2>4. CASE NeedsRestart(c)
    <3>1. W(k) = W(k - 1) \cup {c}
      BY <2>1, <2>2, <2>3, <2>4 DEF W
    <3>2. c \notin Waiting
      BY <2>4 DEF NeedsRestart, Waiting
    <3>3. \A i \in 1 .. k - 1 : list[i] # c
      <4>1. \A i \in 1 .. k - 1 : i \in 1 .. n /\ i # k
        BY <1>1
      <4>2. QED
        BY <4>1, RingElements DEF ListInjective
    <3>4. c \in Connections \ W(k - 1)
      BY <2>1, <3>2, <3>3 DEF W
    <3>5. WithRestarts[k] = <<RestartTimer(c)>> \o WithRestarts[k - 1]
      BY <1>7, <2>4 DEF More
    <3>6. OneTimerEach(WithRestarts[k], W(k))
      <4> HIDE DEF c
      <4>1. QED
        BY <2>1, <3>1, <3>4, <3>5, TimerAdded
    <3>7. QED
      BY <1>1, <3>6
  <2>5. CASE ~NeedsRestart(c)
    <3>1. W(k) = W(k - 1)
      BY <2>2, <2>3, <2>5 DEF W
    <3>2. WithRestarts[k] = WithRestarts[k - 1]
      BY <1>7, <2>5 DEF More
    <3>3. QED
      BY <1>1, <2>1, <3>1, <3>2
  <2>6. QED
    BY <2>4, <2>5
<1>10. n \in T
  <2> HIDE DEF T
  <2>1. 0 .. n \subseteq T
    BY <1>1, <1>8, <1>9, Induction
  <2>2. QED
    BY <1>1, <2>1
<1>11. W(n) = Waiting \cup {c \in Listed : NeedsRestart(c)}
  BY ListedAre DEF W
<1>12. QED
  BY <1>10, <1>11

-----------------------------------------------------------------------------
\* A step that leaves sockets, is_connected and is_waiting_for_restart alone.
LEMMA AllKeep ==
    ASSUME OwnInv, WalkInv', FieldsTyped', list' = list,
           OneTimerEach(timers', Waiting),
           \A d \in Connections : /\ conn'[d].socket = conn[d].socket
                                  /\ conn'[d].connected = conn[d].connected
                                  /\ conn'[d].waiting = conn[d].waiting
    PROVE  OwnInv'
<1>1. Listed' = Listed /\ Listed \subseteq Connections /\ Active \subseteq Connections
  BY ListedAre, ServerAssumption DEF OwnInv, WalkInv, Listed, ServerAssumption, Connections
<1>2. \A d \in Connections : HasSocket(d)' <=> HasSocket(d)
  BY DEF HasSocket
<1>3. Waiting' = Waiting
  BY <1>1 DEF Waiting
<1>4. SocketsOwned'
  BY <1>1, <1>2 DEF OwnInv, SocketsOwned
<1>5. TimersOwned'
  <2>1. OneTimerEach(timers, Waiting)' = OneTimerEach(timers', Waiting')
    BY DEF OneTimerEach
  <2>2. \A d \in Waiting : d \in Connections /\ ~HasSocket(d) /\ ~conn[d].connected
    BY <1>1 DEF OwnInv, TimersOwned, Waiting
  <2>3. \A d \in Waiting' : ~HasSocket(d)' /\ ~conn'[d].connected
    BY <1>2, <1>3, <2>2
  <2>4. QED
    BY <1>3, <2>1, <2>3 DEF TimersOwned
<1>6. NotYet'
  BY <1>1, <1>2 DEF OwnInv, NotYet
<1>7. QED
  BY <1>4, <1>5, <1>6 DEF OwnInv

\* A step that changes these of one connection.
LEMMA OneChanges ==
    ASSUME OwnInv, WalkInv', FieldsTyped', ServerAssumption, NEW c \in Connections,
           \A d \in Connections \ {c} : /\ conn'[d].socket = conn[d].socket
                                        /\ conn'[d].connected = conn[d].connected
                                        /\ conn'[d].waiting = conn[d].waiting
                                        /\ d \in Listed' <=> d \in Listed,
           \/ conn'[c].socket = NoSocket
           \/ c \in Listed' /\ conn'[c].socket \in {conn[c].socket} \cup FreeSockets,
           c \in Active /\ conn'[c].socket = NoSocket => ~conn'[c].connected,
           OneTimerEach(timers', Waiting'),
           c \in Waiting' => conn'[c].socket = NoSocket /\ ~conn'[c].connected
    PROVE  OwnInv'
<1>1. Active \subseteq Connections /\ Listed' \subseteq Connections
  <2>1. ListTyped' => Listed' \subseteq used' /\ used' \subseteq Connections
    BY ListedAre, RingElements, ElementOfSeq DEF ListTyped, Listed, ToSet
  <2>2. QED
    BY <2>1 DEF WalkInv, ServerAssumption, Connections
<1>2. \A d \in Connections : HasSocket(d)' <=> conn'[d].socket # NoSocket
  BY DEF HasSocket
<1>3. \A d \in Connections \ {c} : HasSocket(d)' <=> HasSocket(d)
  BY DEF HasSocket
<1>4. SocketsOwned'
  <2>1. SUFFICES ASSUME NEW d \in Connections, conn'[d].socket # NoSocket
                 PROVE  /\ d \in Listed'
                        /\ \A e \in Connections \ {d} : conn'[e].socket # conn'[d].socket
    BY <1>2 DEF SocketsOwned
  <2>2. \A s \in FreeSockets, e \in Connections : conn[e].socket # s
    BY FreeIsNew
  <2>3. \A e, f \in Connections :
          e # f /\ conn[e].socket # NoSocket => conn[f].socket # conn[e].socket /\ e \in Listed
    BY DEF OwnInv, SocketsOwned, HasSocket
  <2>4. CASE d = c
    <3>1. c \in Listed' /\ conn'[c].socket \in {conn[c].socket} \cup FreeSockets
      BY <2>1, <2>4
    <3>2. ASSUME NEW e \in Connections \ {c}
          PROVE  conn'[e].socket # conn'[c].socket
      BY <2>1, <2>2, <2>3, <2>4, <3>1
    <3>3. QED
      BY <2>4, <3>1, <3>2
  <2>5. CASE d # c
    <3>1. conn'[d].socket = conn[d].socket /\ d \in Listed'
      BY <2>1, <2>3, <2>5
    <3>2. \A e \in Connections \ {c, d} : conn'[e].socket # conn'[d].socket
      BY <2>1, <2>3, <3>1
    <3>3. conn'[c].socket # conn'[d].socket
      BY <2>1, <2>2, <2>3, <2>5, <3>1
    <3>4. QED
      BY <3>1, <3>2, <3>3
  <2>6. QED
    BY <2>4, <2>5
<1>5. TimersOwned'
  <2>1. OneTimerEach(timers, Waiting)' = OneTimerEach(timers', Waiting')
    BY DEF OneTimerEach
  <2>2. ASSUME NEW d \in Waiting', d # c
        PROVE  ~HasSocket(d)' /\ ~conn'[d].connected
    <3>1. d \in Connections /\ d \in Waiting
      BY <1>1, <2>2 DEF Waiting
    <3>2. ~HasSocket(d) /\ ~conn[d].connected
      BY <3>1 DEF OwnInv, TimersOwned
    <3>3. QED
      BY <1>3, <2>2, <3>1, <3>2
  <2>3. c \in Waiting' => ~HasSocket(c)' /\ ~conn'[c].connected
    BY <1>2
  <2>4. QED
    BY <2>1, <2>2, <2>3 DEF TimersOwned
<1>6. NotYet'
  <2>1. \A d \in Active : d # c => (~HasSocket(d)' => ~conn'[d].connected)
    BY <1>1, <1>3 DEF OwnInv, NotYet
  <2>2. c \in Active => (~HasSocket(c)' => ~conn'[c].connected)
    BY <1>2
  <2>3. QED
    BY <2>1, <2>2 DEF NotYet
<1>7. QED
  BY <1>4, <1>5, <1>6 DEF OwnInv

\* One connection and its other end get new fields.
LEMMA FieldsAt ==
    ASSUME OwnInv, NEW c \in Connections, NEW x \in ConnectionType, NEW l \in RoomyLink,
           conn' = [conn EXCEPT ![c] = x], link' = [link EXCEPT ![c] = l]
    PROVE  /\ conn' \in [Connections -> ConnectionType] /\ conn'[c] = x
           /\ link' \in [Connections -> RoomyLink] /\ link'[c] = l
           /\ \A d \in Connections \ {c} : conn'[d] = conn[d] /\ link'[d] = link[d]
BY DEF OwnInv, FieldsTyped

\* Where the loop stands and what it has selected.
LEMMA AtIs ==
    ASSUME OwnInv, ServerAssumption, NEW c \in Connections, At(c)
    PROVE  c \in Listed /\ pc = "walk" /\ (HasSocket(c) => c \notin Waiting)
<1>1. c \in Listed
  BY NextIsAlive DEF At, OwnInv
<1>2. QED
  BY <1>1 DEF At, OwnInv, TimersOwned

LEMMA FieldsOf ==
    ASSUME OwnInv, NEW c \in Connections
    PROVE  /\ conn[c] \in ConnectionType /\ link[c] \in RoomyLink /\ link[c] \in LinkType
           /\ conn[c].socket \in Sockets \cup {NoSocket}
           /\ conn[c].connected \in BOOLEAN /\ conn[c].waiting \in BOOLEAN
<1>1. conn[c] \in ConnectionType /\ link[c] \in RoomyLink
  BY DEF OwnInv, FieldsTyped
<1>2. QED
  BY <1>1 DEF ConnectionType, RoomyLink

\* The list with a new connection at its head.
LEMMA ListedGrows ==
    ASSUME OwnInv, NEW c \in Connections \ used, list' = <<c>> \o list
    PROVE  Listed' = Listed \cup {c} /\ c \notin Listed
<1> DEFINE A == used \cup {c}
<1>1. ListTyped
  BY DEF OwnInv, WalkInv
<1>2. <<c>> \in Seq(A) /\ list \in Seq(A) /\ Len(<<c>>) = 1 /\ Len(list) \in Nat
      /\ DOMAIN list = 1 .. Len(list)
  BY <1>1 DEF ListTyped
<1>3. /\ list' \in Seq(A) /\ Len(list') = Len(list) + 1 /\ list'[1] = c
      /\ \A i \in 1 .. Len(list) : list'[i + 1] = list[i]
  BY <1>2, ConcatProperties
<1>4. DOMAIN list' = 1 .. Len(list) + 1
  BY <1>3, LenProperties
<1>5. Listed' \subseteq Listed \cup {c}
  <2>1. ASSUME NEW i \in 1 .. Len(list) + 1, i # 1
        PROVE  i - 1 \in 1 .. Len(list) /\ (i - 1) + 1 = i
    BY <1>2, <2>1
  <2>2. \A i \in 1 .. Len(list) + 1 : list'[i] \in Listed \cup {c}
    BY <1>2, <1>3, <2>1 DEF Listed, ToSet
  <2>3. QED
    BY <1>4, <2>2 DEF Listed, ToSet
<1>6. Listed \cup {c} \subseteq Listed'
  <2>1. 1 \in 1 .. Len(list) + 1 /\ \A i \in 1 .. Len(list) : i + 1 \in 1 .. Len(list) + 1
    BY <1>2
  <2>2. QED
    BY <1>2, <1>3, <1>4, <2>1 DEF Listed, ToSet
<1>7. QED
  BY <1>1, <1>5, <1>6, ListedAre

-----------------------------------------------------------------------------
\* server_add_connection and server_accept: a connection that was not there.
LEMMA OwnJoins ==
    ASSUME OwnInv, WalkInv', ServerAssumption, ServerReadAssumption,
           NEW c \in Connections \ used, NEW s \in FreeSockets \cup {NoSocket},
           NEW b \in BOOLEAN, c \in Active => ~b, NEW state \in LinkStates,
           conn' = [conn EXCEPT ![c] = NewConnection(s, b)],
           link' = [link EXCEPT ![c] = NewLink(state)],
           list' = <<c>> \o list, timers' = timers,
           pc' \in {"idle", "timers"}, cursor' = cursor, rset' = rset, wset' = wset,
           listening' \in BOOLEAN, knocking' \in BOOLEAN
    PROVE  OwnInv'
<1> DEFINE x == NewConnection(s, b)
<1>1. s \in Sockets \cup {NoSocket}
  BY FreeIsNew
<1>2. x \in ConnectionType /\ NewLink(state) \in RoomyLink
  BY <1>1, NewTyped
<1>3. x.socket = s /\ x.connected = b /\ ~x.waiting
  BY DEF NewConnection
<1> HIDE DEF x
<1>4. /\ conn' \in [Connections -> ConnectionType] /\ conn'[c] = x
      /\ link' \in [Connections -> RoomyLink]
      /\ \A d \in Connections \ {c} : conn'[d] = conn[d]
  BY <1>2, FieldsAt DEF x
<1>5. FieldsTyped'
  BY <1>4 DEF OwnInv, FieldsTyped
<1>6. Listed' = Listed \cup {c} /\ c \notin Listed /\ Listed \subseteq Connections
  BY ListedGrows, ListedAre DEF OwnInv, WalkInv
<1>7. Waiting' = Waiting
  BY <1>3, <1>4, <1>6 DEF Waiting
<1>8. OneTimerEach(timers', Waiting') /\ c \notin Waiting'
  BY <1>3, <1>4, <1>7 DEF OwnInv, TimersOwned, Waiting
<1>9. QED
  BY <1>3, <1>4, <1>5, <1>6, <1>8, OneChanges

LEMMA OwnAdd ==
    ASSUME OwnInv, WalkInv', ServerAssumption, ServerReadAssumption,
           NEW c \in Connections, AddConnection(c)
    PROVE  OwnInv'
<1>1. NewSocket(c) \in FreeSockets \cup {NoSocket}
  BY LowestIsFree DEF NewSocket
<1> PICK s \in FreeSockets \cup {NoSocket} : s = NewSocket(c)
  BY <1>1
<1> PICK state \in LinkStates : LinkFor(s) = NewLink(state)
  BY DEF LinkFor, LinkStates
<1>2. /\ c \in Connections \ used /\ list' = <<c>> \o list /\ timers' = timers
      /\ conn' = [conn EXCEPT ![c] = NewConnection(s, FALSE)]
      /\ link' = [link EXCEPT ![c] = NewLink(state)]
      /\ pc' = "idle" /\ cursor' = cursor /\ rset' = rset /\ wset' = wset
      /\ listening' = listening /\ knocking' = knocking
  BY DEF AddConnection, snapshot
<1>3. listening' \in BOOLEAN /\ knocking' \in BOOLEAN
  BY <1>2 DEF OwnInv, FieldsTyped
<1>4. QED
  BY <1>2, <1>3, OwnJoins

LEMMA OwnAccept ==
    ASSUME OwnInv, WalkInv', ServerAssumption, ServerReadAssumption,
           NEW c \in Connections, Accept(c)
    PROVE  OwnInv'
<1> DEFINE socket == IF FreeSockets = {} THEN NoSocket ELSE Min(FreeSockets)
<1>1. socket \in FreeSockets \cup {NoSocket}
  BY LowestIsFree
<1> PICK s \in FreeSockets \cup {NoSocket} : s = socket
  BY <1>1
<1> PICK state \in LinkStates : state = IF s = NoSocket THEN "none" ELSE "up"
  BY DEF LinkStates
<1>2. /\ c \in Connections \ used /\ list' = <<c>> \o list /\ timers' = timers
      /\ conn' = [conn EXCEPT ![c] = NewConnection(s, TRUE)]
      /\ link' = [link EXCEPT ![c] = NewLink(state)]
      /\ pc' = "timers" /\ cursor' = cursor /\ rset' = rset /\ wset' = wset
      /\ listening' = FALSE
  BY DEF Accept
<1>3. knocking' \in BOOLEAN /\ c \notin Active
  BY DEF Accept, ServerAssumption
<1>4. QED
  BY <1>2, <1>3, OwnJoins

\* server_broadcast_message and the writes of the loop.
LEMMA OwnBroadcast ==
    ASSUME OwnInv, WalkInv', ServerAssumption, Broadcast
    PROVE  OwnInv'
<1> DEFINE x(c) == WriteBlock(conn[c], 1)
<1>1. /\ conn' = [c \in Connections |-> IF c \in Listed THEN Sent(x(c), link[c]) ELSE conn[c]]
      /\ link' = [c \in Connections |-> IF c \in Listed THEN Carried(x(c), link[c]) ELSE link[c]]
      /\ list' = list /\ timers' = timers /\ pc' = pc /\ cursor' = cursor
      /\ rset' = rset /\ wset' = wset /\ listening' = listening /\ knocking' = knocking
  BY DEF Broadcast, snapshot
<1>2. ASSUME NEW c \in Connections
      PROVE  /\ x(c) \in ConnectionType /\ x(c).socket = conn[c].socket
             /\ x(c).connected = conn[c].connected /\ x(c).waiting = conn[c].waiting
  BY FieldsOf, WriteBlockTyped
<1> HIDE DEF x
<1>3. ASSUME NEW c \in Connections
      PROVE  /\ conn'[c] \in ConnectionType /\ conn'[c].socket = conn[c].socket
             /\ conn'[c].connected = conn[c].connected /\ conn'[c].waiting = conn[c].waiting
             /\ link'[c] \in RoomyLink
  BY <1>1, <1>2, FieldsOf, SentTyped
<1>4. conn' \in [Connections -> ConnectionType] /\ link' \in [Connections -> RoomyLink]
  BY <1>1, <1>3
<1>5. FieldsTyped'
  BY <1>1, <1>4 DEF OwnInv, FieldsTyped
<1>6. OneTimerEach(timers', Waiting)
  BY <1>1 DEF OwnInv, TimersOwned
<1>7. QED
  BY <1>1, <1>3, <1>5, <1>6, AllKeep

LEMMA OwnWrite ==
    ASSUME OwnInv, WalkInv', ServerAssumption, NEW c \in Connections, Write(c)
    PROVE  OwnInv'
<1> DEFINE x == Sent(conn[c], link[c])
           l == Carried(conn[c], link[c])
<1>1. /\ x \in ConnectionType /\ x.socket = conn[c].socket /\ l \in RoomyLink
      /\ x.connected = conn[c].connected /\ x.waiting = conn[c].waiting
  BY FieldsOf, SentTyped
<1>2. /\ conn' = [conn EXCEPT ![c] = x] /\ link' = [link EXCEPT ![c] = l]
      /\ list' = list /\ timers' = timers /\ pc' = pc /\ cursor' = cursor
      /\ rset' = rset /\ wset' \subseteq wset /\ listening' = listening /\ knocking' = knocking
  BY DEF Write, Clear
<1> HIDE DEF x, l
<1>3. /\ conn' \in [Connections -> ConnectionType] /\ conn'[c] = x
      /\ link' \in [Connections -> RoomyLink]
      /\ \A d \in Connections \ {c} : conn'[d] = conn[d]
  BY <1>1, <1>2, FieldsAt
<1>4. FieldsTyped'
  BY <1>2, <1>3 DEF OwnInv, FieldsTyped
<1>5. OneTimerEach(timers', Waiting)
  BY <1>2 DEF OwnInv, TimersOwned
<1>6. QED
  BY <1>1, <1>2, <1>3, <1>4, <1>5, AllKeep

\* select, and the restarts that it gives timers.
LEMMA OwnSelect ==
    ASSUME OwnInv, WalkInv', ServerAssumption, Select
    PROVE  OwnInv'
<1> DEFINE R == {c \in Listed : NeedsRestart(c)}
<1>1. /\ conn' = [c \in Connections |->
                   [conn[c] EXCEPT !.waiting = @ \/ (c \in Listed /\ NeedsRestart(c))]]
      /\ link' = link /\ list' = list /\ timers' = WithRestarts[Len(list)]
      /\ pc' = "walk" /\ cursor' = ListHead /\ listening' = knocking /\ knocking' = knocking
  BY DEF Select
<1>2. /\ rset' = {conn[d].socket : d \in {e \in Listed : HasSocket(e) /\ Readable(e)}}
      /\ wset' = {conn[d].socket : d \in {e \in Listed : HasSocket(e) /\ Writable(e)}}
  BY DEF Select, SocketsThat
<1>3. Listed \subseteq Connections
  BY ListedAre DEF OwnInv, WalkInv
<1>4. rset' \subseteq Sockets /\ wset' \subseteq Sockets
  BY <1>2, <1>3, FieldsOf DEF HasSocket
<1>5. ASSUME NEW c \in Connections
      PROVE  /\ conn'[c] \in ConnectionType /\ conn'[c].socket = conn[c].socket
             /\ conn'[c].connected = conn[c].connected
             /\ conn'[c].waiting <=> conn[c].waiting \/ c \in R
  <2>1. conn'[c] = [conn[c] EXCEPT !.waiting = conn[c].waiting \/ c \in R]
    BY <1>1
  <2> HIDE DEF R
  <2>2. QED
    BY <2>1, FieldsOf DEF ConnectionType
<1>6. FieldsTyped'
  <2>1. conn' \in [Connections -> ConnectionType]
    BY <1>1, <1>5
  <2>2. QED
    BY <1>1, <1>4, <2>1 DEF OwnInv, FieldsTyped
<1>7. Listed' = Listed
  BY <1>1 DEF Listed
<1>8. Waiting' = Waiting \cup R
  BY <1>3, <1>5, <1>7 DEF Waiting
<1>9. OneTimerEach(timers', Waiting')
  BY <1>1, <1>8, RestartsAreOne DEF OwnInv, WalkInv, TimersOwned
<1>10. \A d \in Connections : HasSocket(d)' <=> HasSocket(d)
  BY <1>5 DEF HasSocket
<1>11. SocketsOwned'
  BY <1>5, <1>7, <1>10 DEF OwnInv, SocketsOwned
<1>12. TimersOwned'
  <2>1. OneTimerEach(timers, Waiting)' = OneTimerEach(timers', Waiting')
    BY DEF OneTimerEach
  <2>2. \A d \in Waiting : ~HasSocket(d) /\ ~conn[d].connected
    BY DEF OwnInv, TimersOwned
  <2>3. \A d \in R : ~HasSocket(d) /\ ~conn[d].connected
    BY DEF OwnInv, NotYet, NeedsRestart
  <2>4. \A d \in Waiting' : d \in Connections /\ ~HasSocket(d) /\ ~conn[d].connected
    BY <1>3, <1>8, <2>2, <2>3 DEF Waiting
  <2>5. QED
    BY <1>5, <1>9, <1>10, <2>1, <2>4 DEF TimersOwned
<1>13. NotYet'
  <2>1. Active \subseteq Connections
    BY DEF ServerAssumption, Connections
  <2>2. QED
    BY <1>5, <1>10, <2>1 DEF OwnInv, NotYet
<1>14. QED
  BY <1>6, <1>11, <1>12, <1>13 DEF OwnInv

\* The connect has ended, one way or the other.
LEMMA OwnFinish ==
    ASSUME OwnInv, WalkInv', ServerAssumption, ServerReadAssumption,
           NEW c \in Connections, FinishConnect(c)
    PROVE  OwnInv'
<1>1. /\ HasSocket(c) /\ ~conn[c].connected /\ At(c)
      /\ list' = list /\ timers' = timers /\ pc' = pc /\ cursor' = cursor
      /\ rset' = rset /\ wset' \subseteq wset /\ listening' = listening /\ knocking' = knocking
  BY DEF FinishConnect, Selected, Clear
<1>2. c \in Listed /\ c \notin Waiting /\ Listed' = Listed
  BY <1>1, AtIs DEF Listed
<1>3. PICK x \in ConnectionType, l \in RoomyLink :
        /\ conn' = [conn EXCEPT ![c] = x] /\ link' = [link EXCEPT ![c] = l]
        /\ x.waiting = conn[c].waiting
        /\ x.socket = conn[c].socket \/ (x.socket = NoSocket /\ ~x.connected)
  <2>1. CASE conn' = [conn EXCEPT ![c].connected = TRUE] /\ link' = link
    <3> DEFINE x == [conn[c] EXCEPT !.connected = TRUE]
    <3>1. x \in ConnectionType /\ x.waiting = conn[c].waiting /\ x.socket = conn[c].socket
      BY FieldsOf DEF ConnectionType
    <3>2. conn' = [conn EXCEPT ![c] = x]
      BY <2>1
    <3>3. link' = [link EXCEPT ![c] = link[c]]
      BY <2>1 DEF OwnInv, FieldsTyped
    <3> HIDE DEF x
    <3>4. QED
      BY <3>1, <3>2, <3>3, FieldsOf
  <2>2. CASE conn' = [conn EXCEPT ![c].socket = NoSocket] /\ link' = [link EXCEPT ![c] = NewLink("none")]
    <3> DEFINE x == [conn[c] EXCEPT !.socket = NoSocket]
    <3>1. /\ x \in ConnectionType /\ x.waiting = conn[c].waiting /\ x.socket = NoSocket
          /\ x.connected = conn[c].connected
      BY FieldsOf DEF ConnectionType
    <3>2. conn' = [conn EXCEPT ![c] = x]
      BY <2>2
    <3>3. NewLink("none") \in RoomyLink
      BY NewTyped DEF LinkStates
    <3> HIDE DEF x
    <3>4. QED
      BY <1>1, <2>2, <3>1, <3>2, <3>3
  <2>3. QED
    BY <2>1, <2>2 DEF FinishConnect
<1>4. /\ conn' \in [Connections -> ConnectionType] /\ conn'[c] = x
      /\ link' \in [Connections -> RoomyLink]
      /\ \A d \in Connections \ {c} : conn'[d] = conn[d]
  BY <1>3, FieldsAt
<1>5. FieldsTyped'
  BY <1>1, <1>4 DEF OwnInv, FieldsTyped
<1>6. Listed \subseteq Connections
  BY ListedAre DEF OwnInv, WalkInv
<1>7. Waiting' = Waiting
  BY <1>2, <1>3, <1>4, <1>6 DEF Waiting
<1>8. OneTimerEach(timers', Waiting') /\ c \notin Waiting'
  BY <1>1, <1>2, <1>7 DEF OwnInv, TimersOwned
<1>9. conn'[c].socket = NoSocket => ~conn'[c].connected
  BY <1>1, <1>3, <1>4 DEF HasSocket
<1>10. QED
  BY <1>2, <1>3, <1>4, <1>5, <1>8, <1>9, OneChanges

\* Reading goes on.
LEMMA OwnReadOn ==
    ASSUME OwnInv, WalkInv', ServerAssumption, NEW c \in Connections, ReadOn(c)
    PROVE  OwnInv'
<1> DEFINE y == Handled(c)
           x == Sent(y, link[c])
           k == Carried(y, link[c])
           l == [k EXCEPT !.wire = <<>>]
<1>1. /\ x \in ConnectionType /\ x.socket = conn[c].socket /\ k \in RoomyLink
      /\ x.connected = conn[c].connected /\ x.waiting = conn[c].waiting
  <2>1. /\ y \in ConnectionType /\ y.socket = conn[c].socket
        /\ y.connected = conn[c].connected /\ y.waiting = conn[c].waiting
    BY FieldsOf, HandledTyped
  <2> HIDE DEF y
  <2>2. QED
    BY <2>1, FieldsOf, SentTyped
<1>2. /\ conn' = [conn EXCEPT ![c] = x] /\ link' = [link EXCEPT ![c] = l]
      /\ list' = list /\ timers' = timers /\ pc' = pc /\ cursor' = c
      /\ rset' \subseteq rset /\ wset' = wset /\ listening' = listening /\ knocking' = knocking
  BY DEF ReadOn, ReadNow, Clear
<1> HIDE DEF x, k
<1>3. l \in RoomyLink
  <2>1. k \in LinkType /\ <<>> \in Seq(Bytes) /\ Len(k.way) <= Window
    BY <1>1, EmptySeq DEF RoomyLink
  <2>2. l \in LinkType /\ l.way = k.way
    BY <2>1 DEF LinkType
  <2>3. QED
    BY <2>1, <2>2 DEF RoomyLink
<1> HIDE DEF l
<1>4. /\ conn' \in [Connections -> ConnectionType] /\ conn'[c] = x
      /\ link' \in [Connections -> RoomyLink]
      /\ \A d \in Connections \ {c} : conn'[d] = conn[d]
  BY <1>1, <1>2, <1>3, FieldsAt
<1>5. FieldsTyped'
  BY <1>2, <1>4 DEF OwnInv, FieldsTyped
<1>6. OneTimerEach(timers', Waiting)
  BY <1>2 DEF OwnInv, TimersOwned
<1>7. QED
  BY <1>1, <1>2, <1>4, <1>5, <1>6, AllKeep

\* The end of the stream, for a connection that is to be made again.
LEMMA OwnReadRestart ==
    ASSUME OwnInv, WalkInv', ServerAssumption, ServerReadAssumption,
           NEW c \in Connections, ReadRestart(c)
    PROVE  OwnInv'
<1> DEFINE y == CleanedUp(Handled(c))
           x == [y EXCEPT !.waiting = TRUE]
<1>1. y \in ConnectionType /\ y.socket = NoSocket /\ ~y.connected
  <2>1. Handled(c) \in ConnectionType
    BY FieldsOf, HandledTyped
  <2>2. QED
    BY <2>1, CleanedUpTyped
<1>2. /\ conn' = [conn EXCEPT ![c] = x] /\ link' = [link EXCEPT ![c] = NewLink("none")]
      /\ list' = list /\ timers' = <<RestartTimer(c)>> \o timers /\ pc' = pc /\ cursor' = c
      /\ rset' \subseteq rset /\ wset' = wset /\ listening' = listening /\ knocking' = knocking
      /\ At(c) /\ HasSocket(c)
  BY DEF ReadRestart, ReadNow, Clear, Selected
<1> HIDE DEF y
<1>3. x \in ConnectionType /\ x.socket = NoSocket /\ ~x.connected /\ x.waiting
  BY <1>1 DEF ConnectionType
<1> HIDE DEF x
<1>4. NewLink("none") \in RoomyLink
  BY NewTyped DEF LinkStates
<1>5. /\ conn' \in [Connections -> ConnectionType] /\ conn'[c] = x
      /\ link' \in [Connections -> RoomyLink]
      /\ \A d \in Connections \ {c} : conn'[d] = conn[d]
  BY <1>2, <1>3, <1>4, FieldsAt
<1>6. FieldsTyped'
  BY <1>2, <1>5 DEF OwnInv, FieldsTyped
<1>7. c \in Listed /\ c \notin Waiting /\ Listed' = Listed /\ Listed \subseteq Connections
  BY <1>2, AtIs, ListedAre DEF Listed, OwnInv, WalkInv
<1>8. Waiting' = Waiting \cup {c}
  BY <1>3, <1>5, <1>7 DEF Waiting
<1>9. OneTimerEach(timers', Waiting')
  BY <1>2, <1>7, <1>8, TimerAdded DEF OwnInv, TimersOwned
<1>10. QED
  BY <1>3, <1>5, <1>6, <1>7, <1>9, OneChanges

\* The end of the stream, or a quit: out of the list.
LEMMA OwnReadClose ==
    ASSUME OwnInv, WalkInv', ServerAssumption, ServerReadAssumption,
           NEW c \in Connections, ReadClose(c)
    PROVE  OwnInv'
<1> DEFINE x == CleanedUp(Handled(c))
<1>1. x \in ConnectionType /\ x.socket = NoSocket /\ ~x.connected
  <2>1. Handled(c) \in ConnectionType
    BY FieldsOf, HandledTyped
  <2>2. QED
    BY <2>1, CleanedUpTyped
<1>2. /\ conn' = [conn EXCEPT ![c] = x] /\ link' = [link EXCEPT ![c] = NewLink("none")]
      /\ list' = Without(c) /\ timers' = timers /\ pc' = pc /\ cursor' = Next1(c)
      /\ rset' \subseteq rset /\ wset' = wset /\ listening' = listening /\ knocking' = knocking
      /\ At(c) /\ HasSocket(c)
  BY DEF ReadClose, ReadNow, Clear, Selected
<1> HIDE DEF x
<1>3. NewLink("none") \in RoomyLink
  BY NewTyped DEF LinkStates
<1>4. /\ conn' \in [Connections -> ConnectionType] /\ conn'[c] = x
      /\ link' \in [Connections -> RoomyLink]
      /\ \A d \in Connections \ {c} : conn'[d] = conn[d]
  BY <1>1, <1>2, <1>3, FieldsAt
<1>5. ListTyped /\ ListInjective /\ ListHead \notin Connections
  BY DEF OwnInv, WalkInv, ServerAssumption
<1>6. c \in Listed /\ c \notin Waiting /\ Listed \subseteq Connections
  BY <1>2, <1>5, AtIs, ListedAre
<1>7. Listed' = Listed \ {c}
  BY <1>2, <1>5, <1>6, WithoutOne DEF Listed
<1>8. cursor' \in Connections \cup {ListHead}
  BY <1>2, <1>5, <1>6, NextOfMember
<1>9. FieldsTyped'
  BY <1>2, <1>4, <1>8 DEF OwnInv, FieldsTyped
<1>10. Waiting' = Waiting
  BY <1>4, <1>6, <1>7 DEF Waiting
<1>11. OneTimerEach(timers', Waiting') /\ c \notin Waiting'
  BY <1>2, <1>6, <1>10 DEF OwnInv, TimersOwned
<1>12. QED
  BY <1>1, <1>4, <1>7, <1>9, <1>11, OneChanges

\* restart_connection_callback.
LEMMA RestartFields ==
    ASSUME OwnInv, ServerAssumption, ServerReadAssumption, RestartConnection
    PROVE  \E i \in 1 .. Len(timers), c \in Waiting, x \in ConnectionType, l \in RoomyLink :
             /\ c = timers[i].conn /\ timers' = RemoveAt(timers, i)
             /\ conn' = [conn EXCEPT ![c] = x] /\ link' = [link EXCEPT ![c] = l]
             /\ x.socket \in FreeSockets \cup {NoSocket} /\ ~x.waiting /\ ~x.connected
             /\ x.out = conn[c].out /\ x.written = conn[c].written
             /\ x.in = conn[c].in /\ x.binary = conn[c].binary /\ x.handed = <<>>
             /\ \E state : l = NewLink(state)
<1> PICK i : i = Min(Expired)
  OBVIOUS
<1> PICK c : c = timers[i].conn
  OBVIOUS
<1> PICK s : s = NewSocket(c)
  OBVIOUS
<1>1. timers \in Seq(TimerType) /\ Len(timers) \in Nat /\ DOMAIN timers = 1 .. Len(timers)
  BY LenProperties DEF OwnInv, TimersOwned, OneTimerEach
<1>2. i \in 1 .. Len(timers)
  <2>1. Expired \subseteq 1 .. Len(timers) /\ Expired # {}
    BY <1>1 DEF Expired, RestartConnection
  <2>2. Expired \subseteq Nat /\ Expired \in SUBSET Int
    BY <1>1, <2>1
  <2>3. PICK m \in Expired : \A y \in Expired : m <= y
    BY <2>1, <2>2, Smallest
  <2>4. Min(Expired) = m
    BY <2>2, <2>3, MinIs
  <2>5. QED
    BY <2>1, <2>4
<1>3. c \in Connections /\ c \in Waiting /\ c \in Listed
  <2>1. timers[i] \in TimerType
    BY <1>1, <1>2, ElementOfSeq
  <2>2. \A j \in 1 .. Len(timers) : timers[j].conn \in Waiting
    BY DEF OwnInv, TimersOwned, OneTimerEach
  <2>3. QED
    BY <1>2, <2>1, <2>2 DEF TimerType, Waiting
<1>4. ~HasSocket(c) /\ ~conn[c].connected
  BY <1>3 DEF OwnInv, TimersOwned
<1>5. s \in FreeSockets \cup {NoSocket}
  BY LowestIsFree DEF NewSocket
<1>6. s \in Sockets \cup {NoSocket}
  BY <1>5, FreeIsNew
<1> PICK state \in LinkStates : LinkFor(s) = NewLink(state)
  BY DEF LinkFor, LinkStates
<1> DEFINE x == [conn[c] EXCEPT !.waiting = FALSE, !.socket = s, !.handed = <<>>]
<1>7. /\ conn' = [conn EXCEPT ![c].waiting = FALSE, ![c].socket = s, ![c].handed = <<>>]
      /\ link' = [link EXCEPT ![c] = NewLink(state)] /\ timers' = RemoveAt(timers, i)
  BY DEF RestartConnection
<1>8. conn' = [conn EXCEPT ![c] = x]
  BY <1>3, <1>7 DEF OwnInv, FieldsTyped
<1>9. /\ x \in ConnectionType /\ x.socket = s /\ ~x.waiting
      /\ x.connected = conn[c].connected /\ x.out = conn[c].out /\ x.written = conn[c].written
      /\ x.in = conn[c].in /\ x.binary = conn[c].binary /\ x.handed = <<>>
  <2>1. conn[c] \in ConnectionType /\ <<>> \in Seq(Seq(Bytes))
    BY <1>3, FieldsOf, EmptySeq
  <2> PICK old : old = conn[c]
    OBVIOUS
  <2> DEFINE new == [old EXCEPT !.waiting = FALSE, !.socket = s, !.handed = <<>>]
  <2>2. new \in ConnectionType
    BY <1>6, <2>1 DEF ConnectionType
  <2>3. /\ new.socket = s /\ ~new.waiting /\ new.connected = old.connected
        /\ new.out = old.out /\ new.written = old.written
        /\ new.in = old.in /\ new.binary = old.binary /\ new.handed = <<>>
    BY <2>1 DEF ConnectionType
  <2>4. x = new
    OBVIOUS
  <2> HIDE DEF x, new
  <2>5. QED
    BY <2>2, <2>3, <2>4
<1> HIDE DEF x
<1>10. NewLink(state) \in RoomyLink
  BY NewTyped
<1>11. link' = [link EXCEPT ![c] = NewLink(state)] /\ timers' = RemoveAt(timers, i)
  BY <1>7
<1>12. /\ c = timers[i].conn /\ timers' = RemoveAt(timers, i)
       /\ conn' = [conn EXCEPT ![c] = x] /\ link' = [link EXCEPT ![c] = NewLink(state)]
       /\ x.socket \in FreeSockets \cup {NoSocket} /\ ~x.waiting /\ ~x.connected
       /\ x.out = conn[c].out /\ x.written = conn[c].written
       /\ x.in = conn[c].in /\ x.binary = conn[c].binary /\ x.handed = <<>>
       /\ \E t : NewLink(state) = NewLink(t)
  BY <1>4, <1>5, <1>8, <1>9, <1>11
<1>13. i \in 1 .. Len(timers) /\ c \in Waiting /\ x \in ConnectionType
  BY <1>2, <1>3, <1>9
<1> PICK l : l = NewLink(state)
  OBVIOUS
<1>14. QED
  BY <1>10, <1>12, <1>13

LEMMA OwnRestart ==
    ASSUME OwnInv, WalkInv', ServerAssumption, ServerReadAssumption, RestartConnection
    PROVE  OwnInv'
<1>1. PICK i \in 1 .. Len(timers), c \in Waiting, x \in ConnectionType, l \in RoomyLink :
        /\ c = timers[i].conn /\ timers' = RemoveAt(timers, i)
        /\ conn' = [conn EXCEPT ![c] = x] /\ link' = [link EXCEPT ![c] = l]
        /\ x.socket \in FreeSockets \cup {NoSocket} /\ ~x.waiting /\ ~x.connected
  BY RestartFields
<1>2. /\ list' = list /\ pc' = pc /\ cursor' = cursor
      /\ rset' = rset /\ wset' = wset /\ listening' = listening /\ knocking' = knocking
  BY DEF RestartConnection, snapshot
<1>3. Listed' = Listed /\ Listed \subseteq Connections /\ c \in Listed /\ c \in Connections
  BY <1>2, ListedAre DEF Listed, OwnInv, WalkInv, Waiting
<1>4. /\ conn' \in [Connections -> ConnectionType] /\ conn'[c] = x
      /\ link' \in [Connections -> RoomyLink]
      /\ \A d \in Connections \ {c} : conn'[d] = conn[d]
  <2>1. c \in Connections /\ x \in ConnectionType /\ l \in RoomyLink
    BY <1>3
  <2>2. /\ conn \in [Connections -> ConnectionType] /\ link \in [Connections -> RoomyLink]
        /\ conn' = [conn EXCEPT ![c] = x] /\ link' = [link EXCEPT ![c] = l]
    BY <1>1 DEF OwnInv, FieldsTyped
  <2>3. QED
    BY <2>1, <2>2
<1>5. FieldsTyped'
  BY <1>2, <1>4 DEF OwnInv, FieldsTyped
<1>6. Waiting' = Waiting \ {c}
  BY <1>1, <1>3, <1>4 DEF Waiting
<1>7. OneTimerEach(timers', Waiting')
  BY <1>1, <1>6, TimerRemoved DEF OwnInv, TimersOwned
<1>8. QED
  BY <1>1, <1>3, <1>4, <1>5, <1>6, <1>7, OneChanges

\* The other ends change their side of the wires only.
LEMMA OwnPeer ==
    ASSUME OwnInv, WalkInv', ServerAssumption, NEW c \in Connections, Peer(c)
    PROVE  OwnInv'
<1>1. /\ list' = list /\ conn' = conn /\ timers' = timers /\ pc' = pc /\ cursor' = cursor
      /\ rset' = rset /\ wset' = wset /\ listening' = listening /\ knocking' = knocking
  BY DEF Peer, snapshot
<1>2. PICK l \in RoomyLink : link' = [link EXCEPT ![c] = l]
  <2> DEFINE old == link[c]
  <2>1. old \in LinkType /\ Len(old.way) <= Window /\ Window \in Nat
    BY FieldsOf DEF RoomyLink, ServerAssumption
  <2>2. ASSUME NEW state \in LinkStates, link' = [link EXCEPT ![c].state = state]
        PROVE  \E l \in RoomyLink : link' = [link EXCEPT ![c] = l]
    <3> DEFINE l == [old EXCEPT !.state = state]
    <3>1. l \in LinkType /\ l.way = old.way /\ link' = [link EXCEPT ![c] = l]
      BY <2>1, <2>2 DEF LinkType
    <3> HIDE DEF l
    <3>2. QED
      BY <2>1, <3>1 DEF RoomyLink
  <2>3. CASE ConnectEnds(c)
    BY <2>2, <2>3 DEF ConnectEnds, LinkStates
  <2>4. CASE PeerCloses(c)
    BY <2>2, <2>4 DEF PeerCloses, LinkStates
  <2>5. CASE PeerSends(c)
    <3>1. PICK b \in PeerBytes : link' = [link EXCEPT ![c].sent = Append(@, b),
                                                      ![c].wire = Append(@, b)]
      BY <2>5 DEF PeerSends
    <3> DEFINE l == [old EXCEPT !.sent = Append(old.sent, b), !.wire = Append(old.wire, b)]
    <3>2. Append(old.sent, b) \in Seq(Bytes) /\ Append(old.wire, b) \in Seq(Bytes)
      BY <2>1, Appended DEF LinkType, ServerAssumption
    <3>3. l \in LinkType /\ l.way = old.way
      BY <2>1, <3>2 DEF LinkType
    <3>4. link' = [link EXCEPT ![c] = l]
      BY <3>1 DEF OwnInv, FieldsTyped
    <3> HIDE DEF l
    <3>5. QED
      BY <2>1, <3>3, <3>4 DEF RoomyLink
  <2>6. CASE PeerReceives(c)
    <3> DEFINE l == [old EXCEPT !.got = Append(old.got, Head(old.way)), !.way = Tail(old.way)]
    <3>1. link' = [link EXCEPT ![c].got = Append(@, Head(link[c].way)), ![c].way = Tail(@)]
      BY <2>6 DEF PeerReceives
    <3>2. old.way # <<>> /\ old.way \in Seq(Nat) /\ old.got \in Seq(Nat)
      BY <2>1, <2>6 DEF PeerReceives, LinkType
    <3>3. /\ Head(old.way) \in Nat /\ Tail(old.way) \in Seq(Nat)
          /\ Len(Tail(old.way)) = Len(old.way) - 1 /\ Len(old.way) \in Nat
      BY <3>2, HeadTailProperties, LenProperties
    <3>4. Append(old.got, Head(old.way)) \in Seq(Nat)
      BY <3>2, <3>3, Appended
    <3>5. l \in LinkType /\ l.way = Tail(old.way)
      BY <2>1, <3>3, <3>4 DEF LinkType
    <3>6. link' = [link EXCEPT ![c] = l]
      BY <3>1 DEF OwnInv, FieldsTyped
    <3>7. Len(l.way) <= Window
      BY <2>1, <3>3, <3>5
    <3> HIDE DEF l
    <3>8. QED
      BY <3>5, <3>6, <3>7 DEF RoomyLink
  <2>7. QED
    BY <2>3, <2>4, <2>5, <2>6 DEF Peer
<1>3. link' \in [Connections -> RoomyLink]
  BY <1>2 DEF OwnInv, FieldsTyped
<1>4. FieldsTyped'
  BY <1>1, <1>3 DEF OwnInv, FieldsTyped
<1>5. OneTimerEach(timers', Waiting)
  BY <1>1 DEF OwnInv, TimersOwned
<1>6. QED
  BY <1>1, <1>4, <1>5, AllKeep

\* Time, and the steps that only move the loop.
LEMMA OwnQuiet ==
    ASSUME OwnInv, WalkInv', ServerAssumption,
           \/ Second \/ EndOfWalk \/ AcceptNothing \/ EndOfCycle \/ Knock
           \/ \E c \in Connections : Pass(c)
           \/ UNCHANGED vars
    PROVE  OwnInv'
<1>1. list' = list /\ conn' = conn /\ link' = link
  BY DEF Second, EndOfWalk, AcceptNothing, EndOfCycle, Knock, Pass, vars
<1>2. FieldsTyped'
  <2>1. CASE Second \/ UNCHANGED vars
    BY <1>1, <2>1 DEF OwnInv, FieldsTyped, Second, vars, snapshot
  <2>2. CASE EndOfWalk \/ AcceptNothing \/ EndOfCycle \/ Knock
    BY <1>1, <2>2 DEF OwnInv, FieldsTyped, EndOfWalk, AcceptNothing, EndOfCycle, Knock, snapshot
  <2>3. CASE \E c \in Connections : Pass(c)
    BY <1>1, <2>3 DEF OwnInv, FieldsTyped, Pass, snapshot
  <2>4. QED
    BY <2>1, <2>2, <2>3
<1>3. OneTimerEach(timers', Waiting)
  <2>1. OneTimerEach(timers, Waiting)
    BY DEF OwnInv, TimersOwned
  <2>2. CASE Second
    <3>1. PICK i \in DOMAIN timers : timers' = [timers EXCEPT ![i].expired = TRUE]
      BY <2>2 DEF Second
    <3>2. i \in 1 .. Len(timers)
      BY <2>1, LenProperties DEF OneTimerEach
    <3>3. QED
      BY <2>1, <3>1, <3>2, TimersAge
  <2>3. CASE ~Second
    BY <2>1, <2>3 DEF EndOfWalk, AcceptNothing, EndOfCycle, Knock, Pass, vars
  <2>4. QED
    BY <2>2, <2>3
<1>4. QED
  BY <1>1, <1>2, <1>3, AllKeep

-----------------------------------------------------------------------------
LEMMA OwnInit ==
    ASSUME Init, ServerAssumption, ServerReadAssumption
    PROVE  OwnInv
<1>1. WalkInv
  BY WalkInit
<1>2. /\ conn = [c \in Connections |-> NewConnection(NoSocket, FALSE)]
      /\ link = [c \in Connections |-> NewLink("none")] /\ list = <<>> /\ timers = <<>>
      /\ pc = "idle" /\ cursor = ListHead /\ rset = {} /\ wset = {}
      /\ listening = FALSE /\ knocking = FALSE
  BY DEF Init
<1>3. FieldsTyped
  <2>1. NewConnection(NoSocket, FALSE) \in ConnectionType /\ NewLink("none") \in RoomyLink
    BY NewTyped DEF LinkStates
  <2>2. QED
    BY <1>2, <2>1 DEF FieldsTyped
<1>4. \A c \in Connections : ~HasSocket(c) /\ ~conn[c].connected
  BY <1>2 DEF HasSocket, NewConnection
<1>5. Listed = {} /\ Waiting = {}
  BY <1>2 DEF Listed, ToSet, Waiting
<1>6. OneTimerEach(timers, Waiting)
  <2>1. timers \in Seq(TimerType) /\ Len(timers) = 0
    BY <1>2, EmptySeq
  <2>2. QED
    BY <1>5, <2>1 DEF OneTimerEach
<1>7. SocketsOwned /\ TimersOwned /\ NotYet
  BY <1>4, <1>5, <1>6 DEF SocketsOwned, TimersOwned, NotYet, ServerAssumption, Connections
<1>8. QED
  BY <1>1, <1>3, <1>7 DEF OwnInv

LEMMA OwnStep ==
    ASSUME OwnInv, ServerAssumption, ServerReadAssumption, [Next]_vars
    PROVE  OwnInv'
<1>1. WalkInv'
  BY WalkStep DEF OwnInv
<1>2. ASSUME NEW c \in Connections, AddConnection(c) \/ Accept(c) \/ Peer(c)
      PROVE  OwnInv'
  BY <1>1, <1>2, OwnAdd, OwnAccept, OwnPeer
<1>3. ASSUME NEW c \in Connections, FinishConnect(c) \/ Write(c) \/ Read(c)
      PROVE  OwnInv'
  BY <1>1, <1>3, OwnFinish, OwnWrite, OwnReadOn, OwnReadRestart, OwnReadClose DEF Read
<1>4. CASE Select \/ Broadcast \/ RestartConnection
  BY <1>1, <1>4, OwnSelect, OwnBroadcast, OwnRestart
<1>5. CASE \/ Second \/ EndOfWalk \/ AcceptNothing \/ EndOfCycle \/ Knock
           \/ \E c \in Connections : Pass(c)
           \/ UNCHANGED vars
  BY <1>1, <1>5, OwnQuiet
<1>6. QED
  BY <1>2, <1>3, <1>4, <1>5 DEF Next, Cycle

\* server.c never lets go of a descriptor that it still uses: lists, fields,
\* descriptors and timers fit together in every state.
THEOREM OwnAlways == Spec => []OwnInv
<1>1. Init => OwnInv
  BY OwnInit, ServerAssumption, ServerReadAssumption
<1>2. OwnInv /\ [Next]_vars => OwnInv'
  BY OwnStep, ServerAssumption, ServerReadAssumption
<1>3. QED
  BY <1>1, <1>2, PTL DEF Spec

\* Fields, list and wires have their types, and a descriptor belongs to one
\* connection of the list, although the lowest free one is given out again
\* by create_socket and accept in the cycle in which it was closed.
THEOREM ServerTypeOK == Spec => []TypeOK
<1>1. ASSUME OwnInv
      PROVE  TypeOK
  <2>1. /\ list \in Seq(used) /\ used \subseteq Connections /\ IsInjective(list)
    BY <1>1 DEF OwnInv, WalkInv, ListTyped, ListInjective, IsInjective
  <2>2. timers \in Seq([conn : Connections, expired : BOOLEAN])
    BY <1>1 DEF OwnInv, TimersOwned, OneTimerEach, TimerType
  <2>3. link \in [Connections -> LinkType]
    BY <1>1 DEF OwnInv, FieldsTyped, RoomyLink
  <2>4. QED
    BY <1>1, <2>1, <2>2, <2>3 DEF OwnInv, FieldsTyped, SocketsOwned, TypeOK
<1>2. QED
  BY <1>1, OwnAlways, PTL

\* Every restart timer stands for one waiting connection of the list, and
\* every such connection has one, whenever select, a read at the end of a
\* stream and restart_connection_callback add and delete them.
THEOREM ServerTimersMatch == Spec => []TimersMatch
<1>1. ASSUME OwnInv
      PROVE  TimersMatch
  <2>1. OneTimerEach(timers, Waiting) /\ DOMAIN timers = 1 .. Len(timers)
    BY <1>1, LenProperties DEF OwnInv, TimersOwned, OneTimerEach
  <2>2. \A c \in Waiting : c \in Listed /\ conn[c].waiting /\ ~HasSocket(c) /\ ~conn[c].connected
    BY <1>1 DEF OwnInv, TimersOwned, Waiting
  <2>3. \A c \in Listed : conn[c].waiting => c \in Waiting
    BY DEF Waiting
  <2>4. QED
    BY <2>1, <2>2, <2>3 DEF TimersMatch, OneTimerEach
<1>2. QED
  BY <1>1, OwnAlways, PTL

-----------------------------------------------------------------------------
(* The snapshot of select stays true while the loop goes through it. *)

\* A step of the loop, or of another end during it, that changes c only.
LEMMA SnapshotKept ==
    ASSUME OwnInv, SnapshotIsTrue, pc = "walk", Listed' \subseteq Listed,
           NEW c \in Connections,
           \A d \in Connections \ {c} : conn'[d] = conn[d] /\ link'[d] = link[d],
           rset' \subseteq rset, wset' \subseteq wset,
           HasSocket(c)' /\ conn'[c].socket \in rset' => Readable(c)',
           HasSocket(c)' /\ conn'[c].socket \in wset' => Writable(c)'
    PROVE  SnapshotIsTrue'
<1>1. Listed \subseteq Connections
  BY ListedAre DEF OwnInv, WalkInv
<1>2. ASSUME NEW d \in Listed', d # c, HasSocket(d)'
      PROVE  /\ conn'[d].socket \in rset' => Readable(d)'
             /\ conn'[d].socket \in wset' => Writable(d)'
  <2>1. d \in Listed /\ conn'[d] = conn[d] /\ link'[d] = link[d]
    BY <1>1, <1>2
  <2>2. HasSocket(d)
    BY <1>2, <2>1 DEF HasSocket
  <2>3. /\ conn[d].socket \in rset => Readable(d)
        /\ conn[d].socket \in wset => Writable(d)
    BY <2>1, <2>2 DEF SnapshotIsTrue
  <2>4. (Readable(d)' <=> Readable(d)) /\ (Writable(d)' <=> Writable(d))
    BY <2>1 DEF Readable, Writable
  <2>5. QED
    BY <2>1, <2>3, <2>4
<1>3. QED
  BY <1>2 DEF SnapshotIsTrue

LEMMA SnapshotStep ==
    ASSUME OwnInv, OwnInv', SnapshotIsTrue, ServerAssumption, [Next]_vars
    PROVE  SnapshotIsTrue'
<1>1. ASSUME NEW c \in Connections, AddConnection(c) \/ Accept(c)
      PROVE  SnapshotIsTrue'
  BY <1>1 DEF AddConnection, Accept, SnapshotIsTrue
<1>2. CASE EndOfWalk \/ AcceptNothing \/ EndOfCycle \/ RestartConnection \/ Broadcast
  BY <1>2 DEF EndOfWalk, AcceptNothing, EndOfCycle, RestartConnection, Broadcast, SnapshotIsTrue
<1>3. CASE Select
  <2>1. /\ conn' = [c \in Connections |->
                     [conn[c] EXCEPT !.waiting = @ \/ (c \in Listed /\ NeedsRestart(c))]]
        /\ link' = link /\ list' = list
    BY <1>3 DEF Select
  <2>2. /\ rset' = {conn[d].socket : d \in {e \in Listed : HasSocket(e) /\ Readable(e)}}
        /\ wset' = {conn[d].socket : d \in {e \in Listed : HasSocket(e) /\ Writable(e)}}
    BY <1>3 DEF Select, SocketsThat
  <2>3. Listed' = Listed /\ Listed \subseteq Connections
    BY <2>1, ListedAre DEF Listed, OwnInv, WalkInv
  <2>4. ASSUME NEW c \in Listed
        PROVE  /\ conn'[c].socket = conn[c].socket /\ conn'[c].connected = conn[c].connected
               /\ conn'[c].out = conn[c].out
    <3>1. conn[c] \in ConnectionType
      BY <2>3, FieldsOf
    <3>2. conn'[c] = [conn[c] EXCEPT !.waiting = @ \/ (c \in Listed /\ NeedsRestart(c))]
      BY <2>1, <2>3
    <3>3. QED
      BY <3>1, <3>2 DEF ConnectionType
  <2>5. \A c, d \in Listed : HasSocket(c) /\ conn[c].socket = conn[d].socket => c = d
    BY <2>3 DEF OwnInv, SocketsOwned
  <2>6. ASSUME NEW c \in Listed, HasSocket(c)'
        PROVE  /\ conn'[c].socket \in rset' => Readable(c)'
               /\ conn'[c].socket \in wset' => Writable(c)'
    <3>1. (Readable(c)' <=> Readable(c)) /\ (Writable(c)' <=> Writable(c))
      BY <2>1, <2>4 DEF Readable, Writable
    <3>2. HasSocket(c)
      BY <2>4, <2>6 DEF HasSocket
    <3>3. conn[c].socket \in rset' => Readable(c)
      BY <2>2, <2>5, <3>2
    <3>4. conn[c].socket \in wset' => Writable(c)
      BY <2>2, <2>5, <3>2
    <3>5. QED
      BY <2>4, <3>1, <3>3, <3>4
  <2>7. QED
    BY <2>3, <2>6 DEF SnapshotIsTrue
<1>4. ASSUME NEW c \in Connections, FinishConnect(c)
      PROVE  SnapshotIsTrue'
  <2>1. /\ At(c) /\ HasSocket(c) /\ ~conn[c].connected /\ list' = list
        /\ rset' = rset /\ wset' = wset \ {conn[c].socket}
    BY <1>4 DEF FinishConnect, Selected, Clear
  <2>2. c \in Listed /\ pc = "walk" /\ Listed' = Listed
    BY <2>1, AtIs DEF Listed
  <2>3. conn[c].socket \notin rset
    BY <2>1, <2>2 DEF SnapshotIsTrue, Readable
  <2>4. /\ \A d \in Connections \ {c} : conn'[d] = conn[d] /\ link'[d] = link[d]
        /\ conn'[c].socket \in {conn[c].socket, NoSocket}
    <3>1. conn \in [Connections -> ConnectionType]
      BY DEF OwnInv, FieldsTyped
    <3>2. conn[c] \in ConnectionType
      BY <3>1
    <3>3. \A d \in Connections \ {c} : conn'[d] = conn[d] /\ link'[d] = link[d]
      BY <1>4, <3>1 DEF FinishConnect, OwnInv, FieldsTyped
    <3>4. CASE conn' = [conn EXCEPT ![c].connected = TRUE]
      BY <3>1, <3>2, <3>3, <3>4 DEF ConnectionType
    <3>5. CASE conn' = [conn EXCEPT ![c].socket = NoSocket]
      BY <3>1, <3>2, <3>3, <3>5 DEF ConnectionType
    <3>6. QED
      BY <1>4, <3>3, <3>4, <3>5 DEF FinishConnect
  <2>5. HasSocket(c)' => conn'[c].socket \notin rset' /\ conn'[c].socket \notin wset'
    BY <2>1, <2>3, <2>4 DEF HasSocket
  <2>6. QED
    BY <2>1, <2>2, <2>4, <2>5, SnapshotKept
<1>5. ASSUME NEW c \in Connections, Write(c)
      PROVE  SnapshotIsTrue'
  <2>1. /\ At(c) /\ HasSocket(c) /\ list' = list
        /\ rset' = rset /\ wset' = wset \ {conn[c].socket}
        /\ conn' = [conn EXCEPT ![c] = Sent(conn[c], link[c])]
        /\ link' = [link EXCEPT ![c] = Carried(conn[c], link[c])]
    BY <1>5 DEF Write, Selected, Clear
  <2>2. c \in Listed /\ pc = "walk" /\ Listed' = Listed
    BY <2>1, AtIs DEF Listed
  <2>3. /\ \A d \in Connections \ {c} : conn'[d] = conn[d] /\ link'[d] = link[d]
        /\ conn'[c].socket = conn[c].socket /\ conn'[c].connected = conn[c].connected
        /\ link'[c].wire = link[c].wire /\ link'[c].state = link[c].state
    <3>1. /\ Sent(conn[c], link[c]) \in ConnectionType
          /\ Carried(conn[c], link[c]) \in RoomyLink
          /\ Sent(conn[c], link[c]).socket = conn[c].socket
          /\ Sent(conn[c], link[c]).connected = conn[c].connected
          /\ Carried(conn[c], link[c]).wire = link[c].wire
          /\ Carried(conn[c], link[c]).state = link[c].state
      BY FieldsOf, SentTyped
    <3>2. /\ conn'[c] = Sent(conn[c], link[c]) /\ link'[c] = Carried(conn[c], link[c])
          /\ \A d \in Connections \ {c} : conn'[d] = conn[d] /\ link'[d] = link[d]
      BY <2>1, <3>1, FieldsAt
    <3>3. QED
      BY <3>1, <3>2
  <2>4. conn'[c].socket \in rset' => Readable(c)'
    BY <2>1, <2>2, <2>3 DEF SnapshotIsTrue, Readable
  <2>5. conn'[c].socket \notin wset'
    BY <2>1, <2>3
  <2>6. QED
    BY <2>1, <2>2, <2>3, <2>4, <2>5, SnapshotKept
<1>6. ASSUME NEW c \in Connections, Read(c)
      PROVE  SnapshotIsTrue'
  <2>1. /\ At(c) /\ HasSocket(c) /\ conn[c].socket \notin wset
        /\ rset' = rset \ {conn[c].socket} /\ wset' = wset
    BY <1>6 DEF Read, ReadOn, ReadRestart, ReadClose, ReadNow, Selected, Clear
  <2>2. c \in Listed /\ pc = "walk"
    BY <2>1, AtIs
  <2>3. Listed' \subseteq Listed
    BY <1>6, <2>2, WithoutOne DEF Read, ReadOn, ReadRestart, ReadClose, OwnInv, WalkInv, Listed
  <2>4. PICK x, l : /\ conn' = [conn EXCEPT ![c] = x] /\ link' = [link EXCEPT ![c] = l]
                    /\ x.socket \in {conn[c].socket, NoSocket}
    <3>1. Handled(c) \in ConnectionType /\ Handled(c).socket = conn[c].socket
      BY FieldsOf, HandledTyped
    <3>2. Sent(Handled(c), link[c]).socket = conn[c].socket
      BY <3>1, FieldsOf, SentTyped
    <3>3. /\ CleanedUp(Handled(c)) \in ConnectionType
          /\ CleanedUp(Handled(c)).socket = NoSocket
      BY <3>1, CleanedUpTyped, ServerReadAssumption
    <3>4. [CleanedUp(Handled(c)) EXCEPT !.waiting = TRUE].socket = NoSocket
      BY <3>3 DEF ConnectionType
    <3>5. CASE ReadOn(c)
      BY <3>2, <3>5 DEF ReadOn
    <3>6. CASE ReadRestart(c)
      BY <3>4, <3>6 DEF ReadRestart
    <3>7. CASE ReadClose(c)
      BY <3>3, <3>7 DEF ReadClose
    <3>8. QED
      BY <1>6, <3>5, <3>6, <3>7 DEF Read
  <2>5. /\ conn'[c] = x
        /\ \A d \in Connections \ {c} : conn'[d] = conn[d] /\ link'[d] = link[d]
    BY <2>4 DEF OwnInv, FieldsTyped
  <2>6. HasSocket(c)' => conn'[c].socket \notin rset' /\ conn'[c].socket \notin wset'
    BY <2>1, <2>4, <2>5 DEF HasSocket
  <2>7. QED
    BY <2>1, <2>2, <2>3, <2>5, <2>6, SnapshotKept
<1>7. ASSUME NEW c \in Connections, Peer(c), pc = "walk"
      PROVE  SnapshotIsTrue'
  <2>1. conn' = conn /\ list' = list /\ rset' = rset /\ wset' = wset
    BY <1>7 DEF Peer, snapshot
  <2>2. Listed' = Listed /\ (HasSocket(c) => c \in Listed)
    BY <2>1 DEF Listed, OwnInv, SocketsOwned
  <2>3. \A d \in Connections \ {c} : link'[d] = link[d]
    BY <1>7 DEF Peer, ConnectEnds, PeerSends, PeerReceives, PeerCloses, OwnInv, FieldsTyped
  <2>4. (Readable(c) => Readable(c)') /\ (Writable(c) => Writable(c)')
    <3>1. link \in [Connections -> RoomyLink] /\ link[c] \in LinkType
      BY FieldsOf DEF OwnInv, FieldsTyped
    <3>2. CASE ConnectEnds(c)
      <4>1. /\ link'[c].wire = link[c].wire /\ link'[c].way = link[c].way
            /\ link[c].state = "connecting" /\ link'[c].state \in {"up", "refused"}
        BY <3>1, <3>2 DEF ConnectEnds, LinkType
      <4>2. QED
        BY <2>1, <4>1 DEF Readable, Writable
    <3>3. CASE PeerSends(c)
      <4>1. PICK b \in PeerBytes : link' = [link EXCEPT ![c].sent = Append(@, b),
                                                        ![c].wire = Append(@, b)]
        BY <3>3 DEF PeerSends
      <4>2. /\ link'[c].wire = Append(link[c].wire, b) /\ link'[c].way = link[c].way
            /\ link'[c].state = link[c].state
        BY <3>1, <4>1 DEF LinkType
      <4>3. Append(link[c].wire, b) # <<>>
        BY <3>1, AppendProperties DEF LinkType, ServerAssumption
      <4>4. QED
        BY <2>1, <4>2, <4>3 DEF Readable, Writable
    <3>4. CASE PeerReceives(c)
      <4>1. link' = [link EXCEPT ![c].got = Append(@, Head(link[c].way)), ![c].way = Tail(@)]
            /\ link[c].way # <<>> /\ link[c].state = "up"
        BY <3>4 DEF PeerReceives
      <4>2. /\ link'[c].wire = link[c].wire /\ link'[c].way = Tail(link[c].way)
            /\ link'[c].state = link[c].state
        BY <3>1, <4>1 DEF LinkType
      <4>3. Len(Tail(link[c].way)) < Len(link[c].way)
        <5>1. link[c].way \in Seq(Nat) /\ Len(link[c].way) \in Nat
          BY <3>1, LenProperties DEF LinkType
        <5>2. QED
          BY <4>1, <5>1, HeadTailProperties
      <4>4. /\ Len(link[c].way) \in Nat /\ Len(Tail(link[c].way)) \in Nat /\ Window \in Nat
            /\ Len(link[c].way) <= Window
        <5>1. link[c].way \in Seq(Nat) /\ Tail(link[c].way) \in Seq(Nat)
          BY <3>1, <4>1, HeadTailProperties DEF LinkType
        <5>2. Len(link[c].way) <= Window
          BY FieldsOf DEF RoomyLink
        <5>3. QED
          BY <5>1, <5>2, LenProperties DEF ServerAssumption
      <4>5. Len(Tail(link[c].way)) < Window
        BY <4>3, <4>4
      <4>6. QED
        BY <2>1, <4>2, <4>5 DEF Readable, Writable
    <3>5. CASE PeerCloses(c)
      <4>1. /\ link'[c].wire = link[c].wire /\ link'[c].way = link[c].way
            /\ link[c].state = "up" /\ link'[c].state = "closed"
        BY <3>1, <3>5 DEF PeerCloses, LinkType
      <4>2. QED
        BY <2>1, <4>1 DEF Readable, Writable
    <3>6. QED
      BY <1>7, <3>2, <3>3, <3>4, <3>5 DEF Peer
  <2>5. /\ HasSocket(c)' /\ conn'[c].socket \in rset' => Readable(c)'
        /\ HasSocket(c)' /\ conn'[c].socket \in wset' => Writable(c)'
    BY <1>7, <2>1, <2>2, <2>4 DEF SnapshotIsTrue, HasSocket
  <2>6. QED
    BY <1>7, <2>1, <2>2, <2>3, <2>5, SnapshotKept
<1>8. ASSUME NEW c \in Connections, Peer(c), pc # "walk"
      PROVE  SnapshotIsTrue'
  BY <1>8 DEF Peer, SnapshotIsTrue
<1>9. CASE Second \/ Knock \/ (\E c \in Connections : Pass(c)) \/ UNCHANGED vars
  <2>1. /\ list' = list /\ conn' = conn /\ link' = link /\ pc' = pc
        /\ rset' = rset /\ wset' = wset
    BY <1>9 DEF Second, Knock, Pass, vars, snapshot
  <2>2. QED
    BY <2>1 DEF SnapshotIsTrue, Listed, HasSocket, Readable, Writable
<1>10. QED
  BY <1>1, <1>2, <1>3, <1>4, <1>5, <1>6, <1>7, <1>8, <1>9 DEF Next, Cycle

\* A descriptor that is left in the sets of select can be read or written,
\* so that server_connection_read never takes an empty socket for the end of
\* its stream, although descriptors are closed during the loop.
THEOREM ServerSnapshotIsTrue == Spec => []SnapshotIsTrue
<1>1. Init => SnapshotIsTrue
  BY DEF Init, SnapshotIsTrue
<1>2. OwnInv /\ OwnInv' /\ SnapshotIsTrue /\ [Next]_vars => SnapshotIsTrue'
  BY SnapshotStep, ServerAssumption
<1>3. QED
  BY <1>1, <1>2, OwnAlways, PTL DEF Spec

-----------------------------------------------------------------------------
(* Messages are numbered in the order in which they are written. *)

\* Those that the other end got, those on the way to it and those in the
\* buffer are all, in order, and before the connect has ended all of them
\* are in the buffer.
InOrder(x, l) ==
    /\ l.state # "closed" => l.got \o l.way \o x.out = [i \in 1 .. x.written |-> i]
    /\ ~x.connected => /\ l.got = <<>> /\ l.way = <<>>
                       /\ x.out = [i \in 1 .. x.written |-> i]
Order == \A c \in Connections : InOrder(conn[c], link[c])

LEMMA Associative ==
    \A s, t, u \in Seq(Nat) : (s \o t) \o u = s \o (t \o u)
<1>1. \A S : \A s, t, u \in Seq(S) : (s \o t) \o u = s \o (t \o u)
  BY ConcatAssociative, ZenonT(30)
<1>2. QED
  BY <1>1, SMT

LEMMA NumbersGoOn ==
    ASSUME NEW k \in Nat, NEW n \in Nat
    PROVE  [i \in 1 .. k |-> i] \o [i \in 1 .. n |-> k + i] = [i \in 1 .. k + n |-> i]
<1> DEFINE s == [i \in 1 .. k |-> i]
           t == [i \in 1 .. n |-> k + i]
           u == [i \in 1 .. k + n |-> i]
<1>1. s \in Seq(Nat) /\ Len(s) = k /\ t \in Seq(Nat) /\ Len(t) = n
  BY Numbered
<1>2. u \in Seq(Nat) /\ Len(u) = k + n
  BY Numbered
<1>3. \A i \in 1 .. k : s[i] = i
  OBVIOUS
<1>4. \A i \in 1 .. n : t[i] = k + i
  OBVIOUS
<1>5. \A i \in 1 .. k + n : u[i] = i
  OBVIOUS
<1> HIDE DEF s, t, u
<1>6. /\ s \o t \in Seq(Nat) /\ Len(s \o t) = k + n
      /\ \A i \in 1 .. k + n : (s \o t)[i] = IF i <= k THEN s[i] ELSE t[i - k]
  BY <1>1, ConcatProperties
<1>7. ASSUME NEW i \in 1 .. k + n
      PROVE  (s \o t)[i] = u[i]
  <2>1. CASE i <= k
    <3>1. i \in 1 .. k
      BY <2>1
    <3>2. QED
      BY <1>3, <1>5, <1>6, <2>1, <3>1
  <2>2. CASE ~(i <= k)
    <3>1. i - k \in 1 .. n /\ k + (i - k) = i
      BY <2>2
    <3>2. QED
      BY <1>4, <1>5, <1>6, <2>2, <3>1
  <2>3. QED
    BY <2>1, <2>2
<1>8. s \o t = u
  BY <1>2, <1>6, <1>7, SeqEqual
<1>9. QED
  BY <1>8 DEF s, t, u

\* server_connection_write_block goes on with the numbers.
LEMMA WriteInOrder ==
    ASSUME NEW x \in ConnectionType, NEW l \in LinkType, NEW n \in Nat, InOrder(x, l)
    PROVE  InOrder(WriteBlock(x, n), l)
<1> DEFINE old == [i \in 1 .. x.written |-> i]
           more == [i \in 1 .. n |-> x.written + i]
           new == [i \in 1 .. x.written + n |-> i]
           before == l.got \o l.way
<1>1. x.written \in Nat /\ x.out \in Seq(Nat) /\ l.got \in Seq(Nat) /\ l.way \in Seq(Nat)
  BY DEF ConnectionType, LinkType
<1>2. more \in Seq(Nat) /\ old \o more = new
  BY <1>1, Numbered, NumbersGoOn
<1>3. before \in Seq(Nat)
  BY <1>1, ConcatProperties
<1>4. /\ l.state # "closed" => before \o x.out = old
      /\ ~x.connected => l.got = <<>> /\ l.way = <<>> /\ x.out = old
  BY DEF InOrder
<1> HIDE DEF old, more, new, before
<1>5. before \o (x.out \o more) = (before \o x.out) \o more
  BY <1>1, <1>2, <1>3, Associative, ZenonT(30)
<1>6. CASE x.socket = NoSocket
  BY <1>6 DEF WriteBlock
<1>7. CASE x.socket # NoSocket
  <2>1. WriteBlock(x, n) = [x EXCEPT !.written = x.written + n, !.out = x.out \o more]
    BY <1>7 DEF WriteBlock, more
  <2> DEFINE y == WriteBlock(x, n)
  <2>2. y.written = x.written + n /\ y.out = x.out \o more /\ y.connected = x.connected
    BY <2>1 DEF ConnectionType
  <2> HIDE DEF y
  <2>3. new = [i \in 1 .. y.written |-> i]
    BY <2>2 DEF new
  <2>4. l.state # "closed" => before \o y.out = new
    BY <1>2, <1>4, <1>5, <2>2
  <2>5. ~y.connected => l.got = <<>> /\ l.way = <<>> /\ y.out = new
    BY <1>2, <1>4, <2>2
  <2>6. InOrder(y, l)
    BY <2>3, <2>4, <2>5 DEF InOrder, before
  <2>7. QED
    BY <2>6 DEF y
<1>8. QED
  BY <1>6, <1>7

\* server_connection_write takes from the front of the buffer what it sends.
LEMMA SendInOrder ==
    ASSUME NEW x \in ConnectionType, NEW l \in RoomyLink, ServerAssumption, InOrder(x, l)
    PROVE  InOrder(Sent(x, l), Carried(x, l))
<1> DEFINE m == Sendable(x, l)
           n == Len(x.out)
           rest == SubSeq(x.out, m + 1, n)
           sent == SubSeq(x.out, 1, m)
           y == Sent(x, l)
           k == Carried(x, l)
<1>1. /\ x.out \in Seq(Nat) /\ n \in Nat /\ l.got \in Seq(Nat) /\ l.way \in Seq(Nat)
      /\ l \in LinkType
  BY LenProperties DEF ConnectionType, RoomyLink, LinkType
<1>2. m \in 0 .. n
  BY SendableFits
<1>3. ~x.connected => m = 0
  BY DEF Sendable
<1>4. y = [x EXCEPT !.out = rest] /\ k = [l EXCEPT !.way = l.way \o sent]
  BY DEF Sent, Carried
<1> HIDE DEF m
<1>5. /\ y.out = rest /\ y.written = x.written /\ y.connected = x.connected
      /\ k.way = l.way \o sent /\ k.got = l.got /\ k.state = l.state
  <2> HIDE DEF y, k, rest, sent
  <2>1. QED
    BY <1>1, <1>4 DEF ConnectionType, LinkType
<1>6. sent \o rest = x.out
  <2>1. 1 \in 1 .. n + 1 /\ m \in 1 - 1 .. n /\ n \in m .. n
    BY <1>1, <1>2
  <2>2. sent \o rest = SubSeq(x.out, 1, n)
    BY <1>1, <2>1, ConcatAdjacentSubSeq
  <2>3. QED
    BY <1>1, <2>2, SubSeqFull
<1>7. sent \in Seq(Nat) /\ rest \in Seq(Nat)
  <2>1. \A i \in 1 .. n : x.out[i] \in Nat
    BY <1>1, ElementOfSeq
  <2>2. 1 .. m \subseteq 1 .. n /\ m + 1 .. n \subseteq 1 .. n /\ m \in Int
    BY <1>1, <1>2
  <2>3. QED
    BY <1>1, <2>1, <2>2, SubSeqProperties
<1>8. m = 0 => sent = <<>> /\ rest = x.out
  <2>1. m = 0 => sent = <<>>
    BY <1>2, SubSeqEmpty
  <2>2. m = 0 => rest = x.out
    BY <1>1, SubSeqFull
  <2>3. QED
    BY <2>1, <2>2
<1> HIDE DEF y, k, sent, rest, n
<1>9. l.got \o (l.way \o sent) \o rest = l.got \o l.way \o x.out
  <2>1. l.way \o sent \in Seq(Nat) /\ l.got \o l.way \in Seq(Nat)
    BY <1>1, <1>7, ConcatProperties
  <2>2. l.got \o (l.way \o sent) = (l.got \o l.way) \o sent
    BY <1>1, <1>7, Associative, ZenonT(30)
  <2>3. ((l.got \o l.way) \o sent) \o rest = (l.got \o l.way) \o (sent \o rest)
    BY <1>7, <2>1, Associative, ZenonT(30)
  <2>4. QED
    BY <1>6, <2>2, <2>3
<1>10. k.state # "closed" => k.got \o k.way \o y.out = [i \in 1 .. y.written |-> i]
  BY <1>5, <1>9 DEF InOrder
<1>11. ~y.connected => k.got = <<>> /\ k.way = <<>> /\ y.out = [i \in 1 .. y.written |-> i]
  <2>1. ASSUME ~y.connected
        PROVE  /\ l.got = <<>> /\ l.way = <<>> /\ x.out = [i \in 1 .. x.written |-> i]
               /\ sent = <<>> /\ rest = x.out
    BY <1>3, <1>5, <1>8, <2>1 DEF InOrder
  <2>2. <<>> \o <<>> = <<>>
    BY ConcatEmptySeq, EmptySeq
  <2>3. QED
    BY <1>5, <2>1, <2>2
<1>12. QED
  BY <1>10, <1>11 DEF InOrder, y, k

\* A new socket begins with what is in the buffer.
LEMMA NewInOrder ==
    ASSUME NEW x \in ConnectionType, NEW state, x.out = [i \in 1 .. x.written |-> i]
    PROVE  InOrder(x, NewLink(state))
<1>1. NewLink(state).got = <<>> /\ NewLink(state).way = <<>>
  BY DEF NewLink
<1>2. <<>> \o <<>> = <<>> /\ <<>> \o x.out = x.out
  BY ConcatEmptySeq, EmptySeq DEF ConnectionType
<1>3. NewLink(state).got \o NewLink(state).way \o x.out = x.out
  BY <1>1, <1>2
<1>4. QED
  BY <1>1, <1>3 DEF InOrder

LEMMA NothingInOrder ==
    ASSUME NEW x, x.out = <<>>, x.written = 0
    PROVE  x.out = [i \in 1 .. x.written |-> i]
<1>1. <<>> = [i \in 1 .. 0 |-> i]
  BY Numbered
<1>2. QED
  BY <1>1

LEMMA OrderAt ==
    ASSUME OwnInv, Order, NEW c \in Connections, NEW x \in ConnectionType, NEW l \in RoomyLink,
           conn' = [conn EXCEPT ![c] = x], link' = [link EXCEPT ![c] = l], InOrder(x, l)
    PROVE  Order'
<1>1. /\ conn'[c] = x /\ link'[c] = l
      /\ \A d \in Connections \ {c} : conn'[d] = conn[d] /\ link'[d] = link[d]
  BY FieldsAt
<1>2. \A d \in Connections : InOrder(conn'[d], link'[d])
  BY <1>1 DEF Order
<1>3. QED
  BY <1>2 DEF Order, InOrder

LEMMA OrderSame ==
    ASSUME Order, conn' = conn, link' = link
    PROVE  Order'
BY DEF Order, InOrder

\* What the other end receives is taken from the front of what is on the way.
LEMMA OrderPeer ==
    ASSUME OwnInv, Order, ServerAssumption, NEW c \in Connections, Peer(c)
    PROVE  Order'
<1> DEFINE x == conn[c]
           old == link[c]
<1>1. conn' = conn /\ x \in ConnectionType /\ old \in LinkType /\ InOrder(x, old)
      /\ conn \in [Connections -> ConnectionType] /\ link \in [Connections -> RoomyLink]
  BY FieldsOf DEF Peer, Order, OwnInv, FieldsTyped
<1>2. SUFFICES InOrder(x, link'[c]) /\ \A d \in Connections \ {c} : link'[d] = link[d]
  <2>1. ASSUME InOrder(x, link'[c]), \A d \in Connections \ {c} : link'[d] = link[d]
        PROVE  \A d \in Connections : InOrder(conn'[d], link'[d])
    BY <1>1, <2>1 DEF Order
  <2>2. QED
    BY <2>1 DEF Order, InOrder
<1>3. \A d \in Connections \ {c} : link'[d] = link[d]
  BY <1>1 DEF Peer, ConnectEnds, PeerSends, PeerReceives, PeerCloses
<1>4. CASE ConnectEnds(c) \/ PeerSends(c) \/ PeerCloses(c)
  <2>1. link'[c].got = old.got /\ link'[c].way = old.way
    <3>1. CASE ConnectEnds(c)
      BY <1>1, <3>1 DEF ConnectEnds, LinkType
    <3>2. CASE PeerSends(c)
      BY <1>1, <3>2 DEF PeerSends, LinkType
    <3>3. CASE PeerCloses(c)
      BY <1>1, <3>3 DEF PeerCloses, LinkType
    <3>4. QED
      BY <1>4, <3>1, <3>2, <3>3
  <2>2. old.state # "closed"
    BY <1>4 DEF ConnectEnds, PeerSends, PeerCloses
  <2>3. QED
    BY <1>1, <1>3, <2>1, <2>2 DEF InOrder
<1>5. CASE PeerReceives(c)
  <2> DEFINE h == Head(old.way)
             t == Tail(old.way)
  <2>1. /\ old.way # <<>> /\ old.state = "up" /\ old.way \in Seq(Nat) /\ old.got \in Seq(Nat)
        /\ x.connected
    BY <1>1, <1>5 DEF PeerReceives, LinkType, InOrder
  <2>2. link'[c].got = Append(old.got, h) /\ link'[c].way = t
    BY <1>1, <1>5 DEF PeerReceives, LinkType
  <2>3. h \in Nat /\ t \in Seq(Nat) /\ <<h>> \in Seq(Nat)
    BY <2>1, HeadTailProperties
  <2>4. <<h>> \o t = old.way
    <3>1. Len(old.way) \in Nat /\ Len(old.way) # 0
      BY <2>1, LenProperties
    <3>2. 1 \in 1 .. Len(old.way) /\ Len(old.way) \in 1 .. Len(old.way)
      BY <3>1
    <3>3. SubSeq(old.way, 1, Len(old.way)) = <<old.way[1]>> \o SubSeq(old.way, 1 + 1, Len(old.way))
      BY <2>1, <3>2, SubSeqRecursiveFirst
    <3>4. SubSeq(old.way, 1, Len(old.way)) = old.way
      BY <2>1, SubSeqFull
    <3>5. t = SubSeq(old.way, 2, Len(old.way)) /\ h = old.way[1]
      BY <2>1, TailIsSubSeq
    <3>6. QED
      BY <3>3, <3>4, <3>5
  <2>5. Append(old.got, h) = old.got \o <<h>>
    BY <2>1, <2>3, AppendIsConcat
  <2> HIDE DEF h, t
  <2>6. (old.got \o <<h>>) \o t = old.got \o (<<h>> \o t)
    BY <2>1, <2>3, Associative, ZenonT(30)
  <2>7. link'[c].got \o link'[c].way = old.got \o old.way
    BY <2>2, <2>4, <2>5, <2>6
  <2>8. link'[c].got \o link'[c].way \o x.out = [i \in 1 .. x.written |-> i]
    BY <1>1, <2>1, <2>7 DEF InOrder
  <2>9. QED
    BY <1>3, <2>1, <2>8 DEF InOrder
<1>6. QED
  BY <1>4, <1>5 DEF Peer

LEMMA OrderStep ==
    ASSUME OwnInv, Order, ServerAssumption, ServerReadAssumption, [Next]_vars
    PROVE  Order'
<1>1. ASSUME NEW c \in Connections, AddConnection(c) \/ Accept(c)
      PROVE  Order'
  <2>1. PICK s \in Sockets \cup {NoSocket}, b \in BOOLEAN, state \in LinkStates :
          /\ conn' = [conn EXCEPT ![c] = NewConnection(s, b)]
          /\ link' = [link EXCEPT ![c] = NewLink(state)]
    <3>1. CASE AddConnection(c)
      <4>1. NewSocket(c) \in Sockets \cup {NoSocket}
        BY LowestIsFree, FreeIsNew DEF NewSocket
      <4>2. PICK state \in LinkStates : LinkFor(NewSocket(c)) = NewLink(state)
        BY DEF LinkFor, LinkStates
      <4>3. QED
        BY <3>1, <4>1, <4>2 DEF AddConnection
    <3>2. CASE Accept(c)
      <4> DEFINE socket == IF FreeSockets = {} THEN NoSocket ELSE Min(FreeSockets)
      <4>1. socket \in Sockets \cup {NoSocket}
        BY LowestIsFree, FreeIsNew
      <4> DEFINE state == IF socket = NoSocket THEN "none" ELSE "up"
      <4>2. state \in LinkStates
        BY DEF LinkStates
      <4>3. conn' = [conn EXCEPT ![c] = NewConnection(socket, TRUE)]
            /\ link' = [link EXCEPT ![c] = NewLink(state)]
        BY <3>2 DEF Accept
      <4> HIDE DEF socket, state
      <4>4. QED
        BY <4>1, <4>2, <4>3
    <3>3. QED
      BY <1>1, <3>1, <3>2
  <2> DEFINE x == NewConnection(s, b)
  <2>2. x \in ConnectionType /\ NewLink(state) \in RoomyLink
    BY NewTyped
  <2>3. x.out = <<>> /\ x.written = 0
    BY DEF NewConnection
  <2> HIDE DEF x
  <2>4. InOrder(x, NewLink(state))
    BY <2>2, <2>3, NothingInOrder, NewInOrder
  <2>5. conn' = [conn EXCEPT ![c] = x]
    BY <2>1 DEF x
  <2>6. QED
    BY <2>1, <2>2, <2>4, <2>5, OrderAt
<1>2. CASE Broadcast
  <2> DEFINE x(c) == WriteBlock(conn[c], 1)
  <2>1. /\ conn' = [c \in Connections |-> IF c \in Listed THEN Sent(x(c), link[c]) ELSE conn[c]]
        /\ link' = [c \in Connections |-> IF c \in Listed THEN Carried(x(c), link[c]) ELSE link[c]]
    BY <1>2 DEF Broadcast
  <2>2. ASSUME NEW c \in Connections
        PROVE  InOrder(conn'[c], link'[c])
    <3>1. InOrder(conn[c], link[c]) /\ conn[c] \in ConnectionType /\ link[c] \in RoomyLink
          /\ link[c] \in LinkType
      BY FieldsOf DEF Order
    <3>2. x(c) \in ConnectionType /\ InOrder(x(c), link[c])
      BY <3>1, WriteBlockTyped, WriteInOrder
    <3> HIDE DEF x
    <3>3. InOrder(Sent(x(c), link[c]), Carried(x(c), link[c]))
      BY <3>1, <3>2, SendInOrder
    <3>4. CASE c \in Listed
      BY <2>1, <3>3, <3>4
    <3>5. CASE c \notin Listed
      BY <2>1, <3>1, <3>5
    <3>6. QED
      BY <3>4, <3>5
  <2>3. QED
    BY <2>2 DEF Order, InOrder
<1>3. CASE Select
  <2>1. /\ conn' = [c \in Connections |->
                     [conn[c] EXCEPT !.waiting = @ \/ (c \in Listed /\ NeedsRestart(c))]]
        /\ link' = link
    BY <1>3 DEF Select
  <2>2. ASSUME NEW c \in Connections
        PROVE  /\ conn'[c].out = conn[c].out /\ conn'[c].written = conn[c].written
               /\ conn'[c].connected = conn[c].connected
    <3>1. conn'[c] = [conn[c] EXCEPT !.waiting = @ \/ (c \in Listed /\ NeedsRestart(c))]
      BY <2>1
    <3>2. QED
      BY <3>1, FieldsOf DEF ConnectionType
  <2>3. QED
    BY <2>1, <2>2 DEF Order, InOrder
<1>4. ASSUME NEW c \in Connections, FinishConnect(c)
      PROVE  Order'
  <2>1. /\ conn[c] \in ConnectionType /\ link[c] \in RoomyLink /\ InOrder(conn[c], link[c])
        /\ ~conn[c].connected
    BY <1>4, FieldsOf DEF Order, FinishConnect
  <2>2. CASE conn' = [conn EXCEPT ![c].connected = TRUE] /\ link' = link
    <3> DEFINE x == [conn[c] EXCEPT !.connected = TRUE]
    <3>1. /\ x \in ConnectionType /\ x.connected /\ x.out = conn[c].out
          /\ x.written = conn[c].written
      BY <2>1 DEF ConnectionType
    <3>2. conn' = [conn EXCEPT ![c] = x] /\ link' = [link EXCEPT ![c] = link[c]]
      BY <2>2 DEF OwnInv, FieldsTyped
    <3> HIDE DEF x
    <3>3. InOrder(x, link[c])
      BY <2>1, <3>1 DEF InOrder
    <3>4. QED
      BY <2>1, <3>1, <3>2, <3>3, OrderAt
  <2>3. CASE conn' = [conn EXCEPT ![c].socket = NoSocket] /\ link' = [link EXCEPT ![c] = NewLink("none")]
    <3> DEFINE x == [conn[c] EXCEPT !.socket = NoSocket]
    <3>1. x \in ConnectionType /\ x.out = conn[c].out /\ x.written = conn[c].written
      BY <2>1 DEF ConnectionType
    <3>2. conn' = [conn EXCEPT ![c] = x] /\ NewLink("none") \in RoomyLink
      BY <2>3, NewTyped DEF LinkStates
    <3> HIDE DEF x
    <3>3. x.out = [i \in 1 .. x.written |-> i]
      BY <2>1, <3>1 DEF InOrder
    <3>4. QED
      BY <2>3, <3>1, <3>2, <3>3, NewInOrder, OrderAt
  <2>4. QED
    BY <1>4, <2>2, <2>3 DEF FinishConnect
<1>5. ASSUME NEW c \in Connections, Write(c)
      PROVE  Order'
  <2>1. conn[c] \in ConnectionType /\ link[c] \in RoomyLink /\ InOrder(conn[c], link[c])
    BY FieldsOf DEF Order
  <2>2. /\ conn' = [conn EXCEPT ![c] = Sent(conn[c], link[c])]
        /\ link' = [link EXCEPT ![c] = Carried(conn[c], link[c])]
    BY <1>5 DEF Write
  <2>3. QED
    BY <2>1, <2>2, SentTyped, SendInOrder, OrderAt
<1>6. ASSUME NEW c \in Connections, ReadOn(c)
      PROVE  Order'
  <2> DEFINE k == Carried(Handled(c), link[c])
             x == Sent(Handled(c), link[c])
             l == [k EXCEPT !.wire = <<>>]
  <2>1. /\ conn[c] \in ConnectionType /\ link[c] \in RoomyLink /\ InOrder(conn[c], link[c])
        /\ link[c] \in LinkType
    BY FieldsOf DEF Order
  <2>2. PICK y \in ConnectionType, n \in Nat :
          /\ Handled(c) = WriteBlock(y, n) /\ y.out = conn[c].out
          /\ y.written = conn[c].written /\ y.connected = conn[c].connected
    BY <2>1, HandledTyped
  <2>3. InOrder(y, link[c])
    BY <2>1, <2>2 DEF InOrder
  <2>4. Handled(c) \in ConnectionType /\ InOrder(Handled(c), link[c])
    BY <2>1, <2>2, <2>3, WriteBlockTyped, WriteInOrder
  <2>5. x \in ConnectionType /\ k \in RoomyLink /\ InOrder(x, k)
    BY <2>1, <2>4, SentTyped, SendInOrder
  <2>6. conn' = [conn EXCEPT ![c] = x] /\ link' = [link EXCEPT ![c] = l]
    BY <1>6 DEF ReadOn
  <2> HIDE DEF x, k
  <2>7. l \in RoomyLink /\ l.got = k.got /\ l.way = k.way /\ l.state = k.state
    <3>1. k \in LinkType /\ <<>> \in Seq(Bytes) /\ Len(k.way) <= Window
      BY <2>5, EmptySeq DEF RoomyLink
    <3>2. l \in LinkType /\ l.got = k.got /\ l.way = k.way /\ l.state = k.state
      BY <3>1 DEF LinkType
    <3>3. QED
      BY <3>1, <3>2 DEF RoomyLink
  <2> HIDE DEF l
  <2>8. InOrder(x, l)
    BY <2>5, <2>7 DEF InOrder
  <2>9. QED
    BY <2>5, <2>6, <2>7, <2>8, OrderAt
<1>7. ASSUME NEW c \in Connections, ReadRestart(c) \/ ReadClose(c)
      PROVE  Order'
  <2> DEFINE y == CleanedUp(Handled(c))
             z == [y EXCEPT !.waiting = TRUE]
  <2>1. y \in ConnectionType /\ y.out = <<>> /\ y.written = 0
    <3>1. Handled(c) \in ConnectionType
      BY FieldsOf, HandledTyped
    <3>2. QED
      BY <3>1, CleanedUpTyped
  <2>2. /\ conn' = [conn EXCEPT ![c] = y] \/ conn' = [conn EXCEPT ![c] = z]
        /\ link' = [link EXCEPT ![c] = NewLink("none")]
    BY <1>7 DEF ReadRestart, ReadClose
  <2> HIDE DEF y
  <2>3. z \in ConnectionType /\ z.out = <<>> /\ z.written = 0
    BY <2>1 DEF ConnectionType
  <2> HIDE DEF z
  <2>4. PICK x \in ConnectionType :
          conn' = [conn EXCEPT ![c] = x] /\ x.out = <<>> /\ x.written = 0
    BY <2>1, <2>2, <2>3
  <2>5. InOrder(x, NewLink("none")) /\ NewLink("none") \in RoomyLink
    BY <2>4, NothingInOrder, NewInOrder, NewTyped DEF LinkStates
  <2>6. QED
    BY <2>2, <2>4, <2>5, OrderAt
<1>8. CASE RestartConnection
  <2>1. PICK i \in 1 .. Len(timers), c \in Waiting, x \in ConnectionType, l \in RoomyLink :
          /\ conn' = [conn EXCEPT ![c] = x] /\ link' = [link EXCEPT ![c] = l]
          /\ x.out = conn[c].out /\ x.written = conn[c].written
          /\ \E state : l = NewLink(state)
    BY <1>8, RestartFields
  <2>2. c \in Connections /\ ~conn[c].connected
    BY ListedAre DEF OwnInv, WalkInv, TimersOwned, Waiting
  <2>3. x.out = [j \in 1 .. x.written |-> j]
    BY <2>1, <2>2 DEF Order, InOrder
  <2>4. QED
    BY <2>1, <2>2, <2>3, NewInOrder, OrderAt
<1>9. CASE \/ Second \/ EndOfWalk \/ AcceptNothing \/ EndOfCycle \/ Knock
           \/ \E c \in Connections : Pass(c)
           \/ UNCHANGED vars
  <2>1. conn' = conn /\ link' = link
    BY <1>9 DEF Second, EndOfWalk, AcceptNothing, EndOfCycle, Knock, Pass, vars
  <2>2. QED
    BY <2>1, OrderSame
<1>10. QED
  BY <1>1, <1>2, <1>3, <1>4, <1>5, <1>6, <1>7, <1>8, <1>9, OrderPeer DEF Next, Cycle, Read

\* The other end gets the messages of server_connection_write_block in the
\* order in which they were written, none of them twice and none left out,
\* however much of the buffer each send takes and through every restart.
THEOREM ServerMessagesInOrder == Spec => []MessagesInOrder
<1>1. Init => Order
  <2>1. ASSUME Init, NEW c \in Connections
        PROVE  InOrder(conn[c], link[c])
    <3>1. conn[c] = NewConnection(NoSocket, FALSE) /\ link[c] = NewLink("none")
      BY <2>1 DEF Init
    <3>2. conn[c] \in ConnectionType /\ conn[c].out = <<>> /\ conn[c].written = 0
      <4>1. NewConnection(NoSocket, FALSE) \in ConnectionType
        BY NewTyped, ServerAssumption, ServerReadAssumption
      <4>2. QED
        BY <3>1, <4>1 DEF NewConnection
    <3>3. QED
      <4>1. conn[c].out = [i \in 1 .. conn[c].written |-> i]
        BY <3>2, NothingInOrder
      <4>2. InOrder(conn[c], NewLink("none"))
        BY <3>2, <4>1, NewInOrder
      <4>3. QED
        BY <3>1, <4>2
  <2>2. QED
    BY <2>1 DEF Order
<1>2. OwnInv /\ Order /\ [Next]_vars => Order'
  BY OrderStep, ServerAssumption, ServerReadAssumption
<1>3. Order => MessagesInOrder
  BY DEF Order, InOrder, MessagesInOrder
<1>4. QED
  BY <1>1, <1>2, <1>3, OwnAlways, PTL DEF Spec

-----------------------------------------------------------------------------
(* The lines and blocks of a stream. *)

Stream == Seq(Bytes)
Pieces == Seq(Seq(Bytes))

LEMMA AnyAssociative ==
    \A S : \A s, t, u \in Seq(S) : (s \o t) \o u = s \o (t \o u)
BY ConcatAssociative, ZenonT(30)

LEMMA StreamAssociative ==
    \A s, t, u \in Stream : (s \o t) \o u = s \o (t \o u)
<1> PICK S : S = Bytes
  OBVIOUS
<1>1. \A s, t, u \in Seq(S) : (s \o t) \o u = s \o (t \o u)
  BY ConcatAssociative
<1>2. QED
  BY <1>1 DEF Stream

LEMMA Together ==
    ASSUME NEW S, NEW s \in Seq(S), NEW t \in Seq(S)
    PROVE  /\ s \o t \in Seq(S) /\ Len(s \o t) = Len(s) + Len(t)
           /\ SubSeq(s \o t, 1, Len(s)) = s
           /\ SubSeq(s \o t, Len(s) + 1, Len(s \o t)) = t
<1> DEFINE u == s \o t
           m == Len(s)
           n == Len(u)
<1>1. /\ u \in Seq(S) /\ n = m + Len(t) /\ m \in Nat /\ Len(t) \in Nat
      /\ \A i \in 1 .. m + Len(t) : u[i] = IF i <= m THEN s[i] ELSE t[i - m]
  BY ConcatProperties, LenProperties
<1> HIDE DEF u, m, n
<1>2. \A i \in 1 .. n : u[i] \in S
  BY <1>1, ElementOfSeq DEF n
<1>3. 1 .. m \subseteq 1 .. n /\ m + 1 .. n \subseteq 1 .. n
  BY <1>1
<1>4. /\ SubSeq(u, 1, m) \in Seq(S) /\ Len(SubSeq(u, 1, m)) = m
      /\ \A i \in 1 .. m : SubSeq(u, 1, m)[i] = u[i]
  <2>1. /\ SubSeq(u, 1, m) \in Seq(S)
        /\ Len(SubSeq(u, 1, m)) = IF 1 <= m THEN m - 1 + 1 ELSE 0
        /\ \A i \in 1 .. m - 1 + 1 : SubSeq(u, 1, m)[i] = u[1 + i - 1]
    <3>1. 1 \in Int /\ m \in Int /\ \A i \in 1 .. m : u[i] \in S
      BY <1>1, <1>2, <1>3
    <3>2. QED
      BY <3>1, SubSeqProperties
  <2>2. m - 1 + 1 = m /\ (1 <= m \/ m = 0) /\ \A i \in 1 .. m : 1 + i - 1 = i
    BY <1>1
  <2>3. QED
    BY <1>1, <2>1, <2>2
<1>5. /\ SubSeq(u, m + 1, n) \in Seq(S) /\ Len(SubSeq(u, m + 1, n)) = Len(t)
      /\ \A i \in 1 .. Len(t) : SubSeq(u, m + 1, n)[i] = u[m + i]
  <2>1. /\ SubSeq(u, m + 1, n) \in Seq(S)
        /\ Len(SubSeq(u, m + 1, n)) = IF m + 1 <= n THEN n - (m + 1) + 1 ELSE 0
        /\ \A i \in 1 .. n - (m + 1) + 1 : SubSeq(u, m + 1, n)[i] = u[(m + 1) + i - 1]
    <3>1. m + 1 \in Int /\ n \in Int /\ \A i \in m + 1 .. n : u[i] \in S
      BY <1>1, <1>2, <1>3
    <3>2. QED
      BY <3>1, SubSeqProperties
  <2>2. /\ n - (m + 1) + 1 = Len(t) /\ (m + 1 <= n \/ Len(t) = 0)
        /\ \A i \in 1 .. Len(t) : (m + 1) + i - 1 = m + i
    BY <1>1
  <2>3. QED
    BY <1>1, <2>1, <2>2
<1>6. ASSUME NEW i \in 1 .. m PROVE SubSeq(u, 1, m)[i] = s[i]
  <2>1. i \in 1 .. m + Len(t) /\ i <= m
    BY <1>1
  <2>2. u[i] = s[i]
    BY <1>1, <2>1
  <2>3. QED
    BY <1>4, <2>2
<1>7. \A i \in 1 .. Len(t) : SubSeq(u, m + 1, n)[i] = t[i]
  <2>1. \A i \in 1 .. Len(t) : m + i \in 1 .. m + Len(t) /\ ~(m + i <= m) /\ (m + i) - m = i
    BY <1>1
  <2>2. QED
    BY <1>1, <1>5, <2>1
<1>8. SubSeq(u, 1, m) = s
  BY <1>4, <1>6, SeqEqual DEF m
<1>9. SubSeq(u, m + 1, n) = t
  BY <1>5, <1>7, SeqEqual
<1>10. QED
  BY <1>1, <1>8, <1>9 DEF u, m, n

LEMMA ElementsTogether ==
    ASSUME NEW S, NEW s \in Seq(S), NEW t \in Seq(S)
    PROVE  ToSet(s \o t) = ToSet(s) \cup ToSet(t)
<1>1. /\ Len(s) \in Nat /\ Len(t) \in Nat /\ DOMAIN s = 1 .. Len(s) /\ DOMAIN t = 1 .. Len(t)
      /\ DOMAIN (s \o t) = 1 .. Len(s) + Len(t)
      /\ \A i \in 1 .. Len(s) + Len(t) : (s \o t)[i] = IF i <= Len(s) THEN s[i] ELSE t[i - Len(s)]
  <2>1. s \o t \in Seq(S) /\ Len(s \o t) = Len(s) + Len(t)
    BY ConcatProperties
  <2>2. DOMAIN (s \o t) = 1 .. Len(s) + Len(t)
    BY <2>1, LenProperties
  <2>3. QED
    BY <2>2, ConcatProperties, LenProperties
<1> DEFINE u == s \o t
<1> HIDE DEF u
<1>2. \A i \in 1 .. Len(s) : i \in 1 .. Len(s) + Len(t) /\ i <= Len(s)
  BY <1>1
<1>3. \A i \in 1 .. Len(t) : /\ Len(s) + i \in 1 .. Len(s) + Len(t) /\ ~(Len(s) + i <= Len(s))
                             /\ (Len(s) + i) - Len(s) = i
  BY <1>1
<1>4. \A i \in 1 .. Len(s) + Len(t) : i \in 1 .. Len(s) \/ (~(i <= Len(s)) /\ i - Len(s) \in 1 .. Len(t))
  BY <1>1
<1>5. \A i \in 1 .. Len(s) : u[i] = s[i] /\ i \in DOMAIN u
  BY <1>1, <1>2 DEF u
<1>6. \A i \in 1 .. Len(t) : u[Len(s) + i] = t[i] /\ Len(s) + i \in DOMAIN u
  BY <1>1, <1>3 DEF u
<1>7. \A i \in DOMAIN u : (i \in 1 .. Len(s) /\ u[i] = s[i]) \/ (i - Len(s) \in 1 .. Len(t) /\ u[i] = t[i - Len(s)])
  BY <1>1, <1>2, <1>4 DEF u
<1>8. ToSet(u) = ToSet(s) \cup ToSet(t)
  BY <1>1, <1>5, <1>6, <1>7 DEF ToSet
<1>9. QED
  BY <1>8 DEF u

LEMMA BytesDiffer ==
    ASSUME ServerReadAssumption
    PROVE  Quit # Binary
<1>1. SUFFICES ASSUME Quit = Binary PROVE FALSE
  OBVIOUS
<1> DEFINE A == {Terminator}
           B == A \cup {Binary}
           C == B \cup {Ask}
           D == C \cup {Letter}
<1>2. Bytes = D
  BY <1>1 DEF Bytes
<1>3. IsFiniteSet(A) /\ Cardinality(A) = 1
  BY FS_Singleton
<1> HIDE DEF A
<1>4. IsFiniteSet(B) /\ Cardinality(B) \in {1, 2}
  BY <1>3, FS_AddElement
<1> HIDE DEF B
<1>5. IsFiniteSet(C) /\ Cardinality(C) \in {1, 2, 3}
  BY <1>4, FS_AddElement
<1> HIDE DEF C
<1>6. IsFiniteSet(D) /\ Cardinality(D) \in {1, 2, 3, 4}
  BY <1>5, FS_AddElement
<1>7. QED
  BY <1>2, <1>6 DEF ServerReadAssumption

\* What a sequence is cut into.
LEMMA TwoParts ==
    ASSUME NEW S, NEW s \in Seq(S), NEW m \in Nat, m <= Len(s)
    PROVE  /\ SubSeq(s, 1, m) \in Seq(S) /\ Len(SubSeq(s, 1, m)) = m
           /\ \A i \in 1 .. m : SubSeq(s, 1, m)[i] = s[i]
           /\ SubSeq(s, m + 1, Len(s)) \in Seq(S)
           /\ Len(SubSeq(s, m + 1, Len(s))) = Len(s) - m
           /\ \A i \in 1 .. Len(s) - m : SubSeq(s, m + 1, Len(s))[i] = s[m + i]
<1> PICK n : n = Len(s)
  OBVIOUS
<1>1. n \in Nat /\ \A i \in 1 .. n : s[i] \in S
  BY LenProperties, ElementOfSeq
<1>2. 1 .. m \subseteq 1 .. n /\ m + 1 .. n \subseteq 1 .. n
  BY <1>1
<1>3. /\ SubSeq(s, 1, m) \in Seq(S)
      /\ Len(SubSeq(s, 1, m)) = IF 1 <= m THEN m - 1 + 1 ELSE 0
      /\ \A i \in 1 .. m - 1 + 1 : SubSeq(s, 1, m)[i] = s[1 + i - 1]
  <2>1. 1 \in Int /\ m \in Int /\ \A i \in 1 .. m : s[i] \in S
    BY <1>1, <1>2
  <2>2. QED
    BY <2>1, SubSeqProperties
<1>4. /\ SubSeq(s, m + 1, n) \in Seq(S)
      /\ Len(SubSeq(s, m + 1, n)) = IF m + 1 <= n THEN n - (m + 1) + 1 ELSE 0
      /\ \A i \in 1 .. n - (m + 1) + 1 : SubSeq(s, m + 1, n)[i] = s[(m + 1) + i - 1]
  <2>1. m + 1 \in Int /\ n \in Int /\ \A i \in m + 1 .. n : s[i] \in S
    BY <1>1, <1>2
  <2>2. QED
    BY <2>1, SubSeqProperties
<1>5. m - 1 + 1 = m /\ (1 <= m \/ m = 0) /\ \A i \in 1 .. m : 1 + i - 1 = i
  BY <1>1
<1>6. /\ n - (m + 1) + 1 = n - m /\ (m + 1 <= n \/ n - m = 0)
      /\ \A i \in 1 .. n - m : (m + 1) + i - 1 = m + i
  BY <1>1
<1>7. /\ SubSeq(s, 1, m) \in Seq(S) /\ Len(SubSeq(s, 1, m)) = m
      /\ \A i \in 1 .. m : SubSeq(s, 1, m)[i] = s[i]
  BY <1>3, <1>5
<1>8. /\ SubSeq(s, m + 1, n) \in Seq(S) /\ Len(SubSeq(s, m + 1, n)) = n - m
      /\ \A i \in 1 .. n - m : SubSeq(s, m + 1, n)[i] = s[m + i]
  BY <1>4, <1>6
<1>9. QED
  BY <1>7, <1>8

\* The first terminator of a stream.
LEMMA LineEndIs ==
    ASSUME NEW s \in Stream, HasLine(s)
    PROVE  /\ LineEnd(s) \in 1 .. Len(s) /\ s[LineEnd(s)] = Terminator
           /\ FirstLine(s) \in Stream /\ AfterLine(s) \in Stream
           /\ Len(AfterLine(s)) \in Nat /\ Len(AfterLine(s)) < Len(s)
<1> DEFINE T == {i \in DOMAIN s : s[i] = Terminator}
<1>1. DOMAIN s = 1 .. Len(s) /\ Len(s) \in Nat
  BY LenProperties DEF Stream
<1>2. T # {} /\ T \subseteq Nat /\ T \in SUBSET Int
  BY <1>1 DEF HasLine, ToSet
<1>3. PICK m \in T : \A y \in T : m <= y
  BY <1>2, Smallest
<1> HIDE DEF T
<1>4. LineEnd(s) = m
  BY <1>2, <1>3, MinIs DEF LineEnd, T
<1>5. m \in 1 .. Len(s) /\ s[m] = Terminator
  BY <1>1, <1>3 DEF T
<1>6. m - 1 \in Nat /\ m - 1 <= Len(s) /\ m \in Nat /\ m <= Len(s)
  BY <1>1, <1>5
<1>7. FirstLine(s) \in Stream
  BY <1>4, <1>6, TwoParts DEF FirstLine, Stream
<1>8. AfterLine(s) \in Stream /\ Len(AfterLine(s)) = Len(s) - m
  BY <1>4, <1>6, TwoParts DEF AfterLine, Stream
<1>9. QED
  BY <1>1, <1>4, <1>5, <1>7, <1>8

LEMMA BlockEndIs ==
    ASSUME NEW s \in Stream, ~(Len(s) < BinaryLength), ServerReadAssumption
    PROVE  /\ SubSeq(s, 1, BinaryLength) \in Stream /\ AfterBlock(s) \in Stream
           /\ Len(AfterBlock(s)) < Len(s)
<1>1. Len(s) \in Nat /\ BinaryLength \in Nat /\ BinaryLength <= Len(s) /\ BinaryLength # 0
  BY LenProperties DEF Stream, ServerReadAssumption
<1>2. QED
  BY <1>1, TwoParts DEF Stream, AfterBlock

-----------------------------------------------------------------------------
(* The recursive definition of Frames defines a function: what it says of  *)
(* a stream depends on shorter ones.                                       *)

FrameBody(f, s) ==
    LET line == FirstLine(s)
        rest == AfterLine(s)
    IN  IF ~HasLine(s) THEN <<>>
        ELSE IF line = <<>> THEN f[rest]
        ELSE <<line>> \o
             (IF Head(line) = Quit \/ (Head(line) = Binary /\ Len(rest) < BinaryLength) THEN <<>>
              ELSE IF Head(line) = Binary
              THEN <<SubSeq(rest, 1, BinaryLength)>> \o f[AfterBlock(rest)]
              ELSE f[rest])

\* The same, a case at a time.
BlockThen(f, s) ==
    IF Len(s) < BinaryLength THEN <<>>
    ELSE <<SubSeq(s, 1, BinaryLength)>> \o f[AfterBlock(s)]

LEMMA BodyCases ==
    ASSUME NEW s \in Stream, NEW f, ServerReadAssumption
    PROVE  /\ ~HasLine(s) => FrameBody(f, s) = <<>>
           /\ HasLine(s) /\ FirstLine(s) = <<>> => FrameBody(f, s) = f[AfterLine(s)]
           /\ HasLine(s) /\ FirstLine(s) # <<>> /\ Head(FirstLine(s)) = Binary =>
                FrameBody(f, s) = <<FirstLine(s)>> \o BlockThen(f, AfterLine(s))
           /\ HasLine(s) /\ FirstLine(s) # <<>> /\ Head(FirstLine(s)) \notin {Binary, Quit} =>
                FrameBody(f, s) = <<FirstLine(s)>> \o f[AfterLine(s)]
           /\ HasLine(s) /\ FirstLine(s) # <<>> /\ Head(FirstLine(s)) = Quit =>
                FrameBody(f, s) = <<FirstLine(s)>> \o <<>>
<1>1. CASE ~HasLine(s)
  BY <1>1 DEF FrameBody
<1>2. CASE HasLine(s) /\ FirstLine(s) = <<>>
  BY <1>2 DEF FrameBody
<1>3. CASE HasLine(s) /\ FirstLine(s) # <<>>
  <2>1. CASE Head(FirstLine(s)) = Binary
    <3>1. Quit # Binary
      BY BytesDiffer
    <3>2. QED
      BY <1>3, <2>1, <3>1 DEF FrameBody, BlockThen
  <2>2. CASE Head(FirstLine(s)) # Binary
    BY <1>3, <2>2 DEF FrameBody
  <2>3. QED
    BY <2>1, <2>2
<1>4. QED
  BY <1>1, <1>2, <1>3

Shorter(t, s) == Len(t) < Len(s)

LEMMA BodyLocal ==
    ASSUME NEW s \in Stream, NEW f, NEW g, ServerReadAssumption,
           \A t \in Stream : Shorter(t, s) => f[t] = g[t]
    PROVE  FrameBody(f, s) = FrameBody(g, s)
<1>1. CASE ~HasLine(s)
  BY <1>1, BodyCases
<1>2. CASE HasLine(s)
  <2> DEFINE line == FirstLine(s)
             rest == AfterLine(s)
  <2>1. rest \in Stream /\ Len(rest) \in Nat /\ Len(rest) < Len(s) /\ Len(s) \in Nat
    BY <1>2, LineEndIs, LenProperties DEF Stream
  <2>2. f[rest] = g[rest]
    BY <2>1 DEF Shorter
  <2>3. BlockThen(f, rest) = BlockThen(g, rest)
    <3>1. CASE Len(rest) < BinaryLength
      BY <3>1 DEF BlockThen
    <3>2. CASE ~(Len(rest) < BinaryLength)
      <4>1. AfterBlock(rest) \in Stream /\ Len(AfterBlock(rest)) < Len(rest)
        BY <2>1, <3>2, BlockEndIs
      <4>2. Len(AfterBlock(rest)) \in Nat
        BY <4>1, LenProperties DEF Stream
      <4>3. Len(AfterBlock(rest)) < Len(s)
        BY <2>1, <4>1, <4>2
      <4>4. f[AfterBlock(rest)] = g[AfterBlock(rest)]
        BY <4>1, <4>3 DEF Shorter
      <4>5. QED
        BY <3>2, <4>4 DEF BlockThen
    <3>3. QED
      BY <3>1, <3>2
  <2>4. CASE line = <<>>
    BY <1>2, <2>2, <2>4, BodyCases
  <2>5. CASE line # <<>> /\ Head(line) = Binary
    BY <1>2, <2>3, <2>5, BodyCases
  <2>6. CASE line # <<>> /\ Head(line) = Quit
    BY <1>2, <2>6, BodyCases
  <2>7. CASE line # <<>> /\ Head(line) \notin {Binary, Quit}
    BY <1>2, <2>2, <2>7, BodyCases
  <2>8. QED
    BY <2>4, <2>5, <2>6, <2>7
<1>3. QED
  BY <1>1, <1>2

LEMMA OnePiece ==
    ASSUME NEW x \in Stream, NEW p \in Pieces
    PROVE  <<x>> \o p \in Pieces /\ <<>> \in Pieces
<1>1. <<x>> \in Pieces /\ <<>> \in Pieces
  BY DEF Pieces, Stream
<1>2. QED
  BY <1>1, ConcatProperties DEF Pieces

LEMMA BodyTyped ==
    ASSUME NEW s \in Stream, NEW f, ServerReadAssumption,
           \A t \in Stream : Shorter(t, s) => f[t] \in Pieces
    PROVE  FrameBody(f, s) \in Pieces
<1>0. <<>> \in Pieces /\ s \in Stream
  BY EmptySeq DEF Pieces
<1>1. CASE ~HasLine(s)
  BY <1>0, <1>1, BodyCases
<1>2. CASE HasLine(s)
  <2> DEFINE line == FirstLine(s)
             rest == AfterLine(s)
  <2>1. /\ rest \in Stream /\ Len(rest) \in Nat /\ Len(rest) < Len(s) /\ Len(s) \in Nat
        /\ line \in Stream
    BY <1>2, LineEndIs, LenProperties DEF Stream
  <2>2. f[rest] \in Pieces
    BY <2>1 DEF Shorter
  <2>3. BlockThen(f, rest) \in Pieces
    <3>1. CASE Len(rest) < BinaryLength
      BY <1>0, <3>1 DEF BlockThen
    <3>2. CASE ~(Len(rest) < BinaryLength)
      <4>1. /\ AfterBlock(rest) \in Stream /\ Len(AfterBlock(rest)) < Len(rest)
            /\ SubSeq(rest, 1, BinaryLength) \in Stream
        BY <2>1, <3>2, BlockEndIs
      <4>2. Len(AfterBlock(rest)) \in Nat
        BY <4>1, LenProperties DEF Stream
      <4>3. Len(AfterBlock(rest)) < Len(s)
        BY <2>1, <4>1, <4>2
      <4>4. f[AfterBlock(rest)] \in Pieces
        BY <4>1, <4>3 DEF Shorter
      <4>5. <<SubSeq(rest, 1, BinaryLength)>> \o f[AfterBlock(rest)] \in Pieces
        BY <4>1, <4>4, OnePiece
      <4>6. QED
        BY <3>2, <4>5 DEF BlockThen
    <3>3. QED
      BY <3>1, <3>2
  <2>4. CASE line = <<>>
    BY <1>2, <2>2, <2>4, BodyCases
  <2>5. CASE line # <<>> /\ Head(line) = Binary
    <3>1. <<line>> \o BlockThen(f, rest) \in Pieces
      BY <2>1, <2>3, OnePiece
    <3>2. QED
      BY <1>2, <2>5, <3>1, BodyCases
  <2>6. CASE line # <<>> /\ Head(line) = Quit
    <3>1. <<line>> \o <<>> \in Pieces
      BY <1>0, <2>1, OnePiece
    <3>2. QED
      BY <1>2, <2>6, <3>1, BodyCases
  <2>7. CASE line # <<>> /\ Head(line) \notin {Binary, Quit}
    <3>1. <<line>> \o f[rest] \in Pieces
      BY <2>1, <2>2, OnePiece
    <3>2. QED
      BY <1>2, <2>7, <3>1, BodyCases
  <2>8. QED
    BY <2>4, <2>5, <2>6, <2>7
<1>3. QED
  BY <1>1, <1>2

Unfolds(k, f) ==
    /\ f \in [Stream -> Pieces]
    /\ \A s \in Stream : Len(s) < k => f[s] = FrameBody(f, s)

LEMMA SomeUnfold ==
    ASSUME NEW n \in Nat, ServerReadAssumption
    PROVE  \E f : Unfolds(n, f)
<1> DEFINE T == {k \in 0 .. n : \E f : Unfolds(k, f)}
<1>1. 0 \in T
  <2> DEFINE f == [s \in Stream |-> <<>>]
  <2>1. f \in [Stream -> Pieces]
    BY EmptySeq DEF Pieces
  <2>2. \A s \in Stream : ~(Len(s) < 0)
    BY LenProperties DEF Stream
  <2> HIDE DEF f
  <2>3. Unfolds(0, f)
    BY <2>1, <2>2 DEF Unfolds
  <2>4. QED
    BY <2>3
<1>2. ASSUME NEW k \in 1 .. n, k - 1 \in T PROVE k \in T
  <2>1. PICK f : Unfolds(k - 1, f)
    BY <1>2
  <2> DEFINE g == [s \in Stream |-> FrameBody(f, s)]
  <2>2. \A s \in Stream : FrameBody(f, s) \in Pieces
    BY <2>1, BodyTyped DEF Unfolds
  <2>3. g \in [Stream -> Pieces]
    BY <2>2
  <2>4. \A s \in Stream : g[s] = FrameBody(f, s)
    OBVIOUS
  <2> HIDE DEF g
  <2>5. ASSUME NEW s \in Stream, Len(s) < k PROVE g[s] = FrameBody(g, s)
    <3>1. \A t \in Stream : Len(t) \in Nat
      BY LenProperties DEF Stream
    <3>2. ASSUME NEW t \in Stream, Shorter(t, s) PROVE f[t] = g[t]
      <4>1. Len(t) < k - 1
        BY <2>5, <3>1, <3>2 DEF Shorter
      <4>2. QED
        BY <2>1, <2>4, <4>1 DEF Unfolds
    <3>3. FrameBody(f, s) = FrameBody(g, s)
      BY <3>2, BodyLocal
    <3>4. QED
      BY <2>4, <3>3
  <2>6. Unfolds(k, g)
    BY <2>3, <2>5 DEF Unfolds
  <2>7. QED
    BY <2>6
<1> HIDE DEF T
<1>3. 0 .. n \subseteq T
  BY <1>1, <1>2, Induction
<1>4. n \in T
  BY <1>3
<1>5. QED
  BY <1>4 DEF T

LEMMA UnfoldAlike ==
    ASSUME NEW k \in Nat, NEW m \in Nat, NEW f, NEW g, Unfolds(k, f), Unfolds(m, g),
           NEW s \in Stream, Len(s) < k, Len(s) < m, ServerReadAssumption
    PROVE  f[s] = g[s]
<1> SUFFICES ASSUME f[s] # g[s] PROVE FALSE
  OBVIOUS
<1> DEFINE T == {n \in Nat : \E t \in Stream : Len(t) = n /\ n < k /\ n < m /\ f[t] # g[t]}
<1>1. T \subseteq Nat /\ T # {}
  <2>1. Len(s) \in Nat
    BY LenProperties DEF Stream
  <2>2. Len(s) \in T
    BY <2>1
  <2>3. QED
    BY <2>2
<1>2. PICK n \in T : \A y \in T : n <= y
  BY <1>1, Smallest
<1>3. PICK t \in Stream : Len(t) = n /\ n < k /\ n < m /\ f[t] # g[t]
  BY <1>2
<1>4. ASSUME NEW u \in Stream, Shorter(u, t) PROVE f[u] = g[u]
  <2>1. Len(u) \in Nat /\ n \in Nat /\ Len(u) < n
    BY <1>2, <1>3, <1>4, LenProperties DEF Stream, Shorter
  <2>2. Len(u) \notin T /\ Len(u) < k /\ Len(u) < m
    BY <1>2, <1>3, <2>1
  <2>3. QED
    BY <2>1, <2>2
<1>5. FrameBody(f, t) = FrameBody(g, t)
  BY <1>4, BodyLocal
<1>6. QED
  BY <1>3, <1>5 DEF Unfolds

LEMMA FramesExist ==
    ASSUME ServerReadAssumption
    PROVE  \E f : f = [s \in Stream |-> FrameBody(f, s)]
<1> DEFINE Some(s) == CHOOSE f : Unfolds(Len(s) + 1, f)
           F == [s \in Stream |-> Some(s)[s]]
<1>0. \A s \in Stream : Len(s) \in Nat
  BY LenProperties DEF Stream
<1>1. \A s \in Stream : Unfolds(Len(s) + 1, Some(s))
  <2>1. SUFFICES ASSUME NEW s \in Stream PROVE Unfolds(Len(s) + 1, Some(s))
    OBVIOUS
  <2>2. Len(s) + 1 \in Nat
    BY <1>0
  <2>3. \E f : Unfolds(Len(s) + 1, f)
    BY <2>2, SomeUnfold
  <2>4. QED
    BY <2>3
<1>2. \A s \in Stream : F[s] = Some(s)[s]
  OBVIOUS
<1>3. DOMAIN F = Stream /\ F = [s \in Stream |-> F[s]]
  OBVIOUS
<1> HIDE DEF Some, F
<1>4. ASSUME NEW s \in Stream PROVE F[s] = FrameBody(F, s)
  <2> DEFINE f == Some(s)
  <2>1. f[s] = FrameBody(f, s)
    BY <1>0, <1>1 DEF Unfolds
  <2>2. ASSUME NEW t \in Stream, Shorter(t, s) PROVE f[t] = F[t]
    <3>1. /\ Len(t) + 1 \in Nat /\ Len(s) + 1 \in Nat /\ Len(t) < Len(s) + 1
          /\ Len(t) < Len(t) + 1
      BY <1>0, <2>2 DEF Shorter
    <3>2. f[t] = Some(t)[t]
      BY <1>1, <3>1, UnfoldAlike
    <3>3. QED
      BY <1>2, <3>2
  <2> HIDE DEF f
  <2>3. FrameBody(f, s) = FrameBody(F, s)
    BY <2>2, BodyLocal
  <2>4. QED
    BY <1>2, <2>1, <2>3 DEF f
<1>5. F = [s \in Stream |-> FrameBody(F, s)]
  BY <1>3, <1>4
<1>6. QED
  BY <1>5

LEMMA FramesUnfold ==
    ASSUME ServerReadAssumption
    PROVE  \A s \in Stream : Frames[s] = FrameBody(Frames, s) /\ Frames[s] \in Pieces
<1> DEFINE Is(f) == f = [s \in Stream |-> FrameBody(f, s)]
<1>1. Frames = CHOOSE f : Is(f)
  BY DEF Frames, FrameBody, Stream
<1>2. \E f : Is(f)
  BY FramesExist
<1>3. Is(Frames)
  <2> HIDE DEF Is
  <2>1. QED
    BY <1>1, <1>2
<1>4. \A s \in Stream : Frames[s] = FrameBody(Frames, s)
  <2> DEFINE F == Frames
  <2>1. F = [s \in Stream |-> FrameBody(F, s)]
    BY <1>3
  <2> HIDE DEF F
  <2>2. \A s \in Stream : F[s] = FrameBody(F, s)
    BY <2>1
  <2>3. QED
    BY <2>2 DEF F
<1>5. ASSUME NEW s \in Stream PROVE Frames[s] \in Pieces
  <2> SUFFICES ASSUME Frames[s] \notin Pieces PROVE FALSE
    OBVIOUS
  <2> DEFINE T == {n \in Nat : \E t \in Stream : Len(t) = n /\ Frames[t] \notin Pieces}
  <2>0. \A t \in Stream : Len(t) \in Nat
    BY LenProperties DEF Stream
  <2>1. T \subseteq Nat /\ T # {}
    BY <2>0
  <2>2. PICK n \in T : \A y \in T : n <= y
    BY <2>1, Smallest
  <2>3. PICK t \in Stream : Len(t) = n /\ Frames[t] \notin Pieces
    BY <2>2
  <2>4. ASSUME NEW u \in Stream, Shorter(u, t) PROVE Frames[u] \in Pieces
    <3>1. Len(u) \in Nat /\ n \in Nat /\ Len(u) < n
      BY <2>0, <2>2, <2>3, <2>4 DEF Shorter
    <3>2. Len(u) \notin T
      BY <2>2, <3>1
    <3>3. QED
      BY <3>1, <3>2
  <2>5. FrameBody(Frames, t) \in Pieces
    BY <2>4, BodyTyped
  <2>6. QED
    BY <1>4, <2>3, <2>5
<1>6. QED
  BY <1>4, <1>5

-----------------------------------------------------------------------------
(* What reading hands to the hooks is what Frames says of the bytes.       *)

\* What is still to come when a connection is at rest, of the bytes in its
\* buffer and of those that follow.
RestOf(binary, buffer, w) ==
    IF binary = 0 THEN Frames[buffer \o w] ELSE BlockThen(Frames, buffer \o w)

LEMMA RestTyped ==
    ASSUME NEW buffer \in Stream, NEW binary, NEW w \in Stream, ServerReadAssumption
    PROVE  RestOf(binary, buffer, w) \in Pieces
<1>1. buffer \o w \in Stream
  BY ConcatProperties DEF Stream
<1>2. ASSUME NEW s \in Stream PROVE BlockThen(Frames, s) \in Pieces
  <2>1. CASE Len(s) < BinaryLength
    BY <2>1, EmptySeq DEF BlockThen, Pieces
  <2>2. CASE ~(Len(s) < BinaryLength)
    <3>1. <<SubSeq(s, 1, BinaryLength)>> \o Frames[AfterBlock(s)] \in Pieces
      BY <2>2, BlockEndIs, FramesUnfold, OnePiece
    <3>2. QED
      BY <2>2, <3>1 DEF BlockThen
  <2>3. QED
    BY <2>1, <2>2
<1>3. QED
  BY <1>1, <1>2, FramesUnfold DEF RestOf

LEMMA PiecesAssociative ==
    \A p, q, r \in Pieces : (p \o q) \o r = p \o (q \o r)
<1> PICK S : S = Seq(Bytes)
  OBVIOUS
<1>1. \A p, q, r \in Seq(S) : (p \o q) \o r = p \o (q \o r)
  BY ConcatAssociative
<1>2. QED
  BY <1>1 DEF Pieces

\* The first line of a stream is what stands before its first terminator.
LEMMA LineThen ==
    ASSUME NEW line \in Stream, ~HasLine(line), NEW w \in Stream
    PROVE  LET s == line \o (<<Terminator>> \o w)
           IN  s \in Stream /\ HasLine(s) /\ FirstLine(s) = line /\ AfterLine(s) = w
<1> DEFINE end == <<Terminator>>
           s == line \o (end \o w)
           m == Len(line)
<1>1. end \in Stream /\ Len(end) = 1 /\ end[1] = Terminator
  BY DEF Stream, Bytes
<1> HIDE DEF end
<1>2. /\ line \o end \in Stream /\ end \o w \in Stream /\ s \in Stream
      /\ Len(line \o end) = m + 1 /\ m \in Nat
      /\ (line \o end) \o w = s
  <2>1. line \o end \in Stream /\ end \o w \in Stream /\ Len(line \o end) = m + Len(end)
    BY <1>1, ConcatProperties DEF Stream
  <2>2. s \in Stream /\ (line \o end) \o w = s
    BY <1>1, <2>1, ConcatProperties, StreamAssociative DEF Stream
  <2>3. QED
    BY <1>1, <2>1, <2>2, LenProperties DEF Stream
<1>3. SubSeq(s, 1, m) = line
  BY <1>2, Together DEF Stream
<1>4. SubSeq(s, m + 2, Len(s)) = w
  <2>1. SubSeq(s, (m + 1) + 1, Len(s)) = w
    BY <1>2, Together DEF Stream
  <2>2. (m + 1) + 1 = m + 2
    BY <1>2
  <2>3. QED
    BY <2>1, <2>2
<1>5. /\ \A i \in 1 .. m : s[i] = line[i] /\ s[i] # Terminator
      /\ s[m + 1] = Terminator /\ m + 1 \in DOMAIN s
  <2>1. /\ Len(s) = m + Len(end \o w) /\ Len(end \o w) = 1 + Len(w) /\ Len(w) \in Nat
        /\ DOMAIN s = 1 .. Len(s) /\ DOMAIN line = 1 .. m
    BY <1>1, <1>2, ConcatProperties, LenProperties DEF Stream
  <2>2. \A i \in 1 .. m + Len(end \o w) : s[i] = IF i <= m THEN line[i] ELSE (end \o w)[i - m]
    BY <1>2, ConcatProperties DEF Stream
  <2>3. \A i \in 1 .. Len(end) + Len(w) : (end \o w)[i] = IF i <= Len(end) THEN end[i] ELSE w[i - Len(end)]
    BY <1>1, ConcatProperties DEF Stream
  <2>4. (end \o w)[1] = Terminator
    BY <1>1, <2>1, <2>3
  <2>5. /\ m + 1 \in 1 .. m + Len(end \o w) /\ ~(m + 1 <= m) /\ (m + 1) - m = 1
        /\ \A i \in 1 .. m : i \in 1 .. m + Len(end \o w) /\ i <= m
    BY <1>2, <2>1
  <2>6. \A i \in 1 .. m : line[i] # Terminator
    BY <2>1 DEF HasLine, ToSet
  <2>7. QED
    BY <2>1, <2>2, <2>4, <2>5, <2>6
<1> HIDE DEF s, m
<1>6. DOMAIN s \subseteq Nat /\ \A i \in DOMAIN s : i \in 1 .. m \/ m + 1 <= i
  BY <1>2, LenProperties DEF Stream
<1>7. LineEnd(s) = m + 1
  <2> DEFINE T == {i \in DOMAIN s : s[i] = Terminator}
  <2>1. T \in SUBSET Int /\ m + 1 \in T /\ \A i \in T : m + 1 <= i
    BY <1>5, <1>6
  <2> HIDE DEF T
  <2>2. Min(T) = m + 1
    BY <2>1, MinIs
  <2>3. QED
    BY <2>2 DEF LineEnd, T
<1>8. HasLine(s)
  BY <1>5 DEF HasLine, ToSet
<1>9. FirstLine(s) = line
  <2>1. (m + 1) - 1 = m
    BY <1>2
  <2>2. QED
    BY <1>3, <1>7, <2>1 DEF FirstLine
<1>10. AfterLine(s) = w
  <2>1. (m + 1) + 1 = m + 2
    BY <1>2
  <2>2. QED
    BY <1>4, <1>7, <2>1 DEF AfterLine
<1>11. s \in Stream /\ HasLine(s) /\ FirstLine(s) = line /\ AfterLine(s) = w
  BY <1>2, <1>8, <1>9, <1>10
<1>12. QED
  BY <1>11 DEF s, end

\* A byte is taken from what is to come, or stays in it.
LEMMA ByteKeepsRest ==
    ASSUME NEW a \in ReadingType, NEW byte \in Bytes, NEW w \in Stream,
           a.binary = 0 => ~HasLine(a.buffer), ~ParseByte(a, byte).finished,
           ServerReadAssumption
    PROVE  LET b == ParseByte(a, byte)
           IN  a.handed \o RestOf(a.binary, a.buffer, <<byte>> \o w)
                 = b.handed \o RestOf(b.binary, b.buffer, w)
<1> DEFINE b == ParseByte(a, byte)
           one == <<byte>>
<1>1. /\ a.buffer \in Stream /\ a.binary \in BinaryLengths /\ a.finished \in BOOLEAN
      /\ a.handed \in Pieces
      /\ a = [buffer |-> a.buffer, binary |-> a.binary, finished |-> a.finished,
              handed |-> a.handed, answers |-> a.answers]
  BY DEF ReadingType, Stream, Pieces
<1>2. one \in Stream /\ one \o w \in Stream /\ <<>> \in Stream /\ <<>> \o w = w
  <2>1. one \in Stream
    BY DEF Stream
  <2>2. QED
    BY <2>1, ConcatProperties, ConcatEmptySeq, EmptySeq DEF Stream
<1>3. BinaryLength \in Nat /\ BinaryLength # 0
  BY DEF ServerReadAssumption
<1>4. CASE ~(AwaitsText(a) /\ byte = Terminator)
  <2>1. b = [a EXCEPT !.buffer = Append(a.buffer, byte)]
    BY <1>4 DEF ParseByte
  <2>2. b.handed = a.handed /\ b.binary = a.binary /\ b.buffer = Append(a.buffer, byte)
    BY <1>1, <2>1
  <2>3. Append(a.buffer, byte) = a.buffer \o one
    BY <1>1, AppendIsConcat DEF Stream
  <2>4. (a.buffer \o one) \o w = a.buffer \o (one \o w)
    BY <1>1, <1>2, StreamAssociative
  <2>5. RestOf(a.binary, a.buffer, one \o w) = RestOf(b.binary, b.buffer, w)
    BY <2>2, <2>3, <2>4 DEF RestOf
  <2>6. QED
    BY <2>2, <2>5
<1>5. CASE AwaitsText(a) /\ byte = Terminator /\ a.buffer = <<>>
  <2>1. b = [a EXCEPT !.buffer = <<>>]
    BY <1>5 DEF ParseByte
  <2>2. b.handed = a.handed /\ b.binary = 0 /\ a.binary = 0 /\ b.buffer = <<>>
    BY <1>1, <1>5, <2>1 DEF AwaitsText
  <2> DEFINE s == a.buffer \o (one \o w)
  <2>3. s \in Stream /\ HasLine(s) /\ FirstLine(s) = <<>> /\ AfterLine(s) = w
    BY <1>1, <1>5, <2>2, LineThen
  <2>4. Frames[s] = Frames[w]
    <3>1. FrameBody(Frames, s) = Frames[w]
      BY <2>3, BodyCases
    <3>2. QED
      BY <2>3, <3>1, FramesUnfold
  <2>5. RestOf(a.binary, a.buffer, one \o w) = RestOf(b.binary, b.buffer, w)
    BY <1>2, <2>2, <2>4 DEF RestOf
  <2>6. QED
    BY <2>2, <2>5
<1>6. CASE AwaitsText(a) /\ byte = Terminator /\ a.buffer # <<>>
  <2> DEFINE line == a.buffer
             s == line \o (one \o w)
  <2>1. b = CallLineHook([a EXCEPT !.buffer = <<>>], line)
    BY <1>6 DEF ParseByte
  <2>2. /\ b.handed = Append(a.handed, line) /\ b.buffer = <<>> /\ a.binary = 0
        /\ b.binary = (IF Head(line) = Binary THEN BinaryLength ELSE 0)
        /\ Head(line) # Quit
    BY <1>1, <1>6, <2>1 DEF CallLineHook, AwaitsText
  <2>3. s \in Stream /\ HasLine(s) /\ FirstLine(s) = line /\ AfterLine(s) = w
    BY <1>1, <1>6, <2>2, LineThen
  <2> DEFINE more == RestOf(b.binary, b.buffer, w)
  <2>4. Frames[s] = <<line>> \o more
    <3>1. FrameBody(Frames, s) = <<line>> \o more
      <4>1. CASE Head(line) = Binary
        <5>1. more = BlockThen(Frames, w)
          BY <1>2, <1>3, <2>2, <4>1 DEF RestOf
        <5>2. QED
          BY <1>6, <2>3, <4>1, <5>1, BodyCases
      <4>2. CASE Head(line) # Binary
        <5>1. more = Frames[w]
          BY <1>2, <2>2, <4>2 DEF RestOf
        <5>2. QED
          BY <1>6, <2>2, <2>3, <4>2, <5>1, BodyCases
      <4>3. QED
        BY <4>1, <4>2
    <3>2. QED
      BY <2>3, <3>1, FramesUnfold
  <2>5. more \in Pieces
    BY <1>2, <2>2, RestTyped
  <2>6. RestOf(a.binary, a.buffer, one \o w) = <<line>> \o more
    BY <2>2, <2>4 DEF RestOf
  <2>7. a.handed \o (<<line>> \o more) = (a.handed \o <<line>>) \o more
    <3>1. <<line>> \in Pieces
      BY <1>1 DEF Pieces, Stream
    <3>2. QED
      BY <1>1, <2>5, <3>1, PiecesAssociative
  <2>8. a.handed \o <<line>> = b.handed
    BY <1>1, <2>2, AppendIsConcat DEF Pieces, Stream
  <2>9. QED
    BY <2>6, <2>7, <2>8
<1>7. QED
  BY <1>4, <1>5, <1>6

\* And so is a block.
LEMMA BlockKeepsRest ==
    ASSUME NEW a \in ReadingType, NEW w \in Stream, ServerReadAssumption
    PROVE  LET b == ReadBinary(a)
           IN  a.handed \o RestOf(a.binary, a.buffer, w)
                 = b.handed \o RestOf(b.binary, b.buffer, w)
<1> DEFINE b == ReadBinary(a)
<1>1. /\ a.buffer \in Stream /\ a.binary \in BinaryLengths /\ a.handed \in Pieces
      /\ a = [buffer |-> a.buffer, binary |-> a.binary, finished |-> a.finished,
              handed |-> a.handed, answers |-> a.answers]
  BY DEF ReadingType, Stream, Pieces
<1>2. CASE a.binary = 0 \/ Len(a.buffer) < a.binary
  BY <1>2 DEF ReadBinary
<1>3. CASE ~(a.binary = 0 \/ Len(a.buffer) < a.binary)
  <2>1. a.binary = BinaryLength /\ BinaryLength \in Nat /\ BinaryLength # 0
    BY <1>1, <1>3 DEF BinaryLengths, ServerReadAssumption
  <2> DEFINE block == SubSeq(a.buffer, 1, BinaryLength)
             behind == SubSeq(a.buffer, BinaryLength + 1, Len(a.buffer))
             s == a.buffer \o w
  <2>2. b.handed = Append(a.handed, block) /\ b.buffer = behind /\ b.binary = 0
    <3>1. b = [a EXCEPT !.handed = Append(a.handed, SubSeq(a.buffer, 1, a.binary)),
                        !.buffer = SubSeq(a.buffer, a.binary + 1, Len(a.buffer)),
                        !.binary = 0]
      BY <1>3 DEF ReadBinary
    <3>2. QED
      BY <1>1, <2>1, <3>1
  <2>3. block \in Stream /\ behind \in Stream /\ Len(block) = BinaryLength
    <3>1. BinaryLength <= Len(a.buffer)
      BY <1>1, <1>3, <2>1, LenProperties DEF Stream
    <3>2. QED
      BY <1>1, <2>1, <3>1, TwoParts DEF Stream
  <2>4. a.buffer = block \o behind
    <3>1. Len(a.buffer) \in Nat /\ BinaryLength <= Len(a.buffer)
      BY <1>1, <1>3, <2>1, LenProperties DEF Stream
    <3>2. block \o behind = SubSeq(a.buffer, 1, Len(a.buffer))
      <4>1. 1 \in 1 .. Len(a.buffer) + 1 /\ BinaryLength \in 1 - 1 .. Len(a.buffer)
            /\ Len(a.buffer) \in BinaryLength .. Len(a.buffer)
        BY <2>1, <3>1
      <4>2. QED
        BY <1>1, <4>1, ConcatAdjacentSubSeq DEF Stream
    <3>3. SubSeq(a.buffer, 1, Len(a.buffer)) = a.buffer
      BY <1>1, SubSeqFull DEF Stream
    <3>4. QED
      BY <3>2, <3>3
  <2> HIDE DEF block, behind
  <2>5. s \in Stream /\ behind \o w \in Stream /\ s = block \o (behind \o w)
    BY <2>3, <2>4, ConcatProperties, StreamAssociative DEF Stream
  <2> HIDE DEF s
  <2>6. /\ SubSeq(s, 1, BinaryLength) = block /\ AfterBlock(s) = behind \o w
        /\ ~(Len(s) < BinaryLength)
    <3> PICK q : q = behind \o w
      OBVIOUS
    <3>1. q \in Stream /\ s = block \o q /\ Len(q) \in Nat
      BY <2>5, LenProperties DEF Stream
    <3>2. /\ SubSeq(block \o q, 1, Len(block)) = block
          /\ SubSeq(block \o q, Len(block) + 1, Len(block \o q)) = q
          /\ Len(block \o q) = Len(block) + Len(q)
      <4>1. block \in Seq(Bytes) /\ q \in Seq(Bytes)
        BY <2>3, <3>1 DEF Stream
      <4>2. \A t, u \in Seq(Bytes) :
              /\ SubSeq(t \o u, 1, Len(t)) = t
              /\ SubSeq(t \o u, Len(t) + 1, Len(t \o u)) = u
              /\ Len(t \o u) = Len(t) + Len(u)
        BY Together
      <4>3. QED
        BY <4>1, <4>2
    <3>3. ~(Len(s) < BinaryLength)
      BY <2>1, <2>3, <3>1, <3>2
    <3>4. QED
      BY <2>3, <3>1, <3>2, <3>3 DEF AfterBlock
  <2>7. RestOf(a.binary, a.buffer, w) = <<block>> \o Frames[behind \o w]
    BY <2>1, <2>6 DEF RestOf, BlockThen, s
  <2>8. RestOf(b.binary, b.buffer, w) = Frames[behind \o w] /\ Frames[behind \o w] \in Pieces
    BY <2>2, <2>5, FramesUnfold DEF RestOf
  <2>9. a.handed \o (<<block>> \o Frames[behind \o w]) = Append(a.handed, block) \o Frames[behind \o w]
    <3>1. <<block>> \in Pieces
      BY <2>3 DEF Pieces, Stream
    <3>2. Append(a.handed, block) = a.handed \o <<block>>
      BY <1>1, <2>3, AppendIsConcat DEF Pieces, Stream
    <3>3. (a.handed \o <<block>>) \o Frames[behind \o w] = a.handed \o (<<block>> \o Frames[behind \o w])
      BY <1>1, <2>8, <3>1, PiecesAssociative
    <3>4. QED
      BY <3>2, <3>3
  <2>10. QED
    BY <2>2, <2>7, <2>8, <2>9
<1>4. QED
  BY <1>2, <1>3

\* Text mode has no line end in the buffer and needs no byte that asks for a
\* block.
TextMode(a, S) ==
    /\ a.binary = 0 => ~HasLine(a.buffer)
    /\ ToSet(a.buffer) \subseteq S
    /\ Binary \notin S => a.binary = 0

LEMMA ByteKeepsMode ==
    ASSUME NEW a \in ReadingType, NEW byte \in Bytes, NEW S, byte \in S, TextMode(a, S),
           ~ParseByte(a, byte).finished
    PROVE  TextMode(ParseByte(a, byte), S) /\ ~a.finished
<1> DEFINE b == ParseByte(a, byte)
<1> PICK one : one = <<byte>>
  OBVIOUS
<1>1. /\ a.buffer \in Stream /\ a.finished \in BOOLEAN
      /\ a = [buffer |-> a.buffer, binary |-> a.binary, finished |-> a.finished,
              handed |-> a.handed, answers |-> a.answers]
  BY DEF ReadingType, Stream
<1>2. ToSet(<<>>) = {}
  BY DEF ToSet
<1>3. CASE ~(AwaitsText(a) /\ byte = Terminator)
  <2>1. b = [a EXCEPT !.buffer = Append(a.buffer, byte)]
    BY <1>3 DEF ParseByte
  <2>2. b.finished = a.finished /\ b.binary = a.binary /\ b.buffer = Append(a.buffer, byte)
    BY <1>1, <2>1
  <2>3. ToSet(b.buffer) = ToSet(a.buffer) \cup {byte}
    <3>1. one \in Stream /\ ToSet(one) = {byte}
      <4>1. one \in Stream
        BY DEF Stream
      <4>2. DOMAIN one = {1} /\ one[1] = byte
        OBVIOUS
      <4>3. ToSet(one) = {one[i] : i \in {1}}
        BY <4>2 DEF ToSet
      <4>4. QED
        BY <4>1, <4>2, <4>3
    <3>2. ToSet(a.buffer \o one) = ToSet(a.buffer) \cup ToSet(one)
      <4>1. \A t, u \in Seq(Bytes) : ToSet(t \o u) = ToSet(t) \cup ToSet(u)
        BY ElementsTogether
      <4>2. QED
        BY <1>1, <3>1, <4>1 DEF Stream
    <3>3. Append(a.buffer, byte) = a.buffer \o one
      BY <1>1, AppendIsConcat DEF Stream
    <3>4. QED
      BY <2>2, <3>1, <3>2, <3>3
  <2>4. QED
    BY <1>3, <2>2, <2>3 DEF TextMode, HasLine, AwaitsText
<1>4. CASE AwaitsText(a) /\ byte = Terminator /\ a.buffer = <<>>
  <2>1. b = [a EXCEPT !.buffer = <<>>]
    BY <1>4 DEF ParseByte
  <2>2. b.binary = 0 /\ b.buffer = <<>> /\ ~a.finished
    BY <1>1, <1>4, <2>1 DEF AwaitsText
  <2>3. QED
    BY <1>2, <2>2 DEF TextMode, HasLine
<1>5. CASE AwaitsText(a) /\ byte = Terminator /\ a.buffer # <<>>
  <2>1. b = CallLineHook([a EXCEPT !.buffer = <<>>], a.buffer)
    BY <1>5 DEF ParseByte
  <2>2. /\ b.buffer = <<>> /\ a.binary = 0 /\ ~a.finished
        /\ b.binary = (IF Head(a.buffer) = Binary THEN BinaryLength ELSE 0)
    BY <1>1, <1>5, <2>1 DEF CallLineHook, AwaitsText
  <2>3. Head(a.buffer) \in ToSet(a.buffer)
    <3>1. Len(a.buffer) \in Nat \ {0} /\ DOMAIN a.buffer = 1 .. Len(a.buffer)
      BY <1>1, <1>5, EmptySeq, LenProperties DEF Stream
    <3>2. 1 \in DOMAIN a.buffer /\ Head(a.buffer) = a.buffer[1]
      BY <1>1, <3>1 DEF Stream
    <3>3. QED
      BY <3>2 DEF ToSet
  <2>4. QED
    BY <1>2, <2>2, <2>3 DEF TextMode, HasLine
<1>6. QED
  BY <1>3, <1>4, <1>5

\* The loop over the bytes.
LEMMA LoopKeepsRest ==
    ASSUME NEW r \in ReadingType, r.binary = 0, r.handed = <<>>, ~ReadLines(r).finished,
           ServerReadAssumption
    PROVE  LET a == ReadLines(r)
           IN  /\ TextMode(a, ToSet(r.buffer))
               /\ \A w \in Stream :
                    Frames[r.buffer \o w] = a.handed \o RestOf(a.binary, a.buffer, w)
<1> DEFINE buf == r.buffer
           n == Len(buf)
           S == ToSet(buf)
           Kept(i, a) ==
             ~a.finished =>
               /\ TextMode(a, S)
               /\ \A w \in Stream :
                    Frames[SubSeq(buf, 1, i) \o w] = a.handed \o RestOf(a.binary, a.buffer, w)
<1>1. /\ buf \in Stream /\ n \in Nat /\ DOMAIN buf = 1 .. n
      /\ \A i \in 1 .. n : buf[i] \in Bytes /\ buf[i] \in S
  <2>1. buf \in Stream /\ n \in Nat /\ DOMAIN buf = 1 .. n
    BY LenProperties DEF ReadingType, Stream
  <2>2. QED
    BY <2>1, ElementOfSeq DEF Stream, ToSet
<1>2. PICK after \in [0 .. n -> ReadingType] :
         /\ after[0] = [r EXCEPT !.buffer = <<>>]
         /\ \A i \in 1 .. n : after[i] = ParseByte(after[i - 1], buf[i])
         /\ ReadLines(r) = after[n]
  BY TurnsOfTheLoop
<1>3. Kept(0, after[0])
  <2> DEFINE a == after[0]
  <2>1. a.buffer = <<>> /\ a.binary = 0 /\ a.handed = <<>>
    BY <1>2 DEF ReadingType
  <2>2. TextMode(a, S)
    BY <2>1 DEF TextMode, HasLine, ToSet
  <2>3. ASSUME NEW w \in Stream
        PROVE  Frames[SubSeq(buf, 1, 0) \o w] = a.handed \o RestOf(a.binary, a.buffer, w)
    <3>1. SubSeq(buf, 1, 0) = <<>>
      BY SubSeqEmpty
    <3>2. <<>> \o w = w
      BY ConcatEmptySeq DEF Stream
    <3>3. Frames[w] \in Pieces
      BY FramesUnfold
    <3>4. <<>> \o Frames[w] = Frames[w]
      BY <3>3, ConcatEmptySeq DEF Pieces
    <3>5. QED
      BY <2>1, <3>1, <3>2, <3>4 DEF RestOf
  <2>4. QED
    BY <2>2, <2>3
<1>4. ASSUME NEW i \in 1 .. n, Kept(i - 1, after[i - 1]) PROVE Kept(i, after[i])
  <2> DEFINE a == after[i - 1]
             b == after[i]
             one == <<buf[i]>>
  <2>1. a \in ReadingType /\ b = ParseByte(a, buf[i]) /\ buf[i] \in Bytes /\ buf[i] \in S
    BY <1>1, <1>2
  <2> HIDE DEF a, b
  <2>2. SUFFICES ASSUME ~b.finished
                 PROVE  /\ TextMode(b, S)
                        /\ \A w \in Stream :
                             Frames[SubSeq(buf, 1, i) \o w] = b.handed \o RestOf(b.binary, b.buffer, w)
    BY DEF b
  <2>3. ~a.finished \/ a.finished
    OBVIOUS
  <2>4. ~a.finished
    <3>1. ASSUME a.finished PROVE FALSE
      <4>1. a.finished \in BOOLEAN
        BY <2>1 DEF ReadingType
      <4>2. b = [a EXCEPT !.buffer = Append(a.buffer, buf[i])]
        BY <2>1, <3>1 DEF ParseByte, AwaitsText
      <4>3. b.finished = a.finished
        BY <2>1, <4>2 DEF ReadingType
      <4>4. QED
        BY <2>2, <3>1, <4>3
    <3>2. QED
      BY <3>1
  <2>5. /\ TextMode(a, S)
        /\ \A w \in Stream :
             Frames[SubSeq(buf, 1, i - 1) \o w] = a.handed \o RestOf(a.binary, a.buffer, w)
    BY <1>4, <2>4 DEF a
  <2>6. TextMode(b, S)
    BY <2>1, <2>2, <2>5, ByteKeepsMode
  <2>7. ASSUME NEW w \in Stream
        PROVE  Frames[SubSeq(buf, 1, i) \o w] = b.handed \o RestOf(b.binary, b.buffer, w)
    <3> DEFINE before == SubSeq(buf, 1, i - 1)
    <3>1. one \in Stream /\ one \o w \in Stream
      <4>1. one \in Stream
        BY <2>1 DEF Stream
      <4>2. QED
        BY <4>1, ConcatProperties DEF Stream
    <3>2. before \in Stream /\ SubSeq(buf, 1, i) = before \o one
      <4>1. i - 1 \in Nat /\ i - 1 <= n
        BY <1>1
      <4>2. before \in Stream
        BY <1>1, <4>1, TwoParts DEF Stream
      <4>3. before \o SubSeq(buf, (i - 1) + 1, i) = SubSeq(buf, 1, i)
        <5>1. 1 \in 1 .. n + 1 /\ i - 1 \in 1 - 1 .. n /\ i \in i - 1 .. n
          BY <1>1
        <5>2. QED
          BY <1>1, <5>1, ConcatAdjacentSubSeq DEF Stream
      <4>4. SubSeq(buf, i, i) = one /\ (i - 1) + 1 = i
        <5>1. i \in Int /\ \A j \in i .. i : buf[j] \in Bytes
          BY <1>1
        <5>2. /\ SubSeq(buf, i, i) \in Seq(Bytes) /\ Len(SubSeq(buf, i, i)) = IF i <= i THEN i - i + 1 ELSE 0
              /\ \A j \in 1 .. i - i + 1 : SubSeq(buf, i, i)[j] = buf[i + j - 1]
          BY <5>1, SubSeqProperties
        <5>3. Len(SubSeq(buf, i, i)) = 1 /\ SubSeq(buf, i, i)[1] = buf[i] /\ (i - 1) + 1 = i
          BY <5>1, <5>2
        <5>4. SubSeq(buf, i, i) = one
          BY <3>1, <5>2, <5>3, SeqEqual DEF Stream
        <5>5. QED
          BY <5>3, <5>4
      <4>5. QED
        BY <4>2, <4>3, <4>4
    <3>3. SubSeq(buf, 1, i) \o w = before \o (one \o w)
      <4>1. (before \o one) \o w = before \o (one \o w)
        <5> HIDE DEF before, one
        <5>1. QED
          BY <3>1, <3>2, StreamAssociative
      <4>2. QED
        BY <3>2, <4>1
    <3>4. a.handed \o RestOf(a.binary, a.buffer, one \o w) = b.handed \o RestOf(b.binary, b.buffer, w)
      BY <2>1, <2>2, <2>5, ByteKeepsRest DEF TextMode
    <3>5. QED
      BY <2>5, <3>1, <3>3, <3>4
  <2>8. QED
    BY <2>6, <2>7
<1>5. Kept(n, after[n])
  <2> DEFINE T == {i \in 0 .. n : Kept(i, after[i])}
  <2> HIDE DEF Kept
  <2>1. 0 \in T
    BY <1>1, <1>3
  <2>2. ASSUME NEW i \in 1 .. n, i - 1 \in T PROVE i \in T
    BY <1>1, <1>4, <2>2
  <2> HIDE DEF T
  <2>3. 0 .. n \subseteq T
    BY <1>1, <2>1, <2>2, Induction
  <2>4. QED
    BY <1>1, <2>3 DEF T
<1>6. SubSeq(buf, 1, n) = buf
  BY <1>1, SubSeqFull DEF Stream
<1>7. QED
  BY <1>2, <1>5, <1>6

\* What arrives is handed over, or kept for later.
LEMMA ReadKeepsRest ==
    ASSUME NEW r \in ReadingType, NEW b, b = ReadData(r), r.handed = <<>>, ~b.finished,
           ServerReadAssumption
    PROVE  /\ \A w \in Stream :
                RestOf(r.binary, r.buffer, w) = b.handed \o RestOf(b.binary, b.buffer, w)
           /\ ToSet(b.buffer) \subseteq ToSet(r.buffer)
           /\ r.binary = 0 /\ Binary \notin ToSet(r.buffer) => b.binary = 0 /\ ~HasLine(b.buffer)
<1> DEFINE a == ReadLines(r)
<1> PICK buffer, binary : buffer = r.buffer /\ binary = r.binary
  OBVIOUS
<1>1. /\ buffer \in Stream /\ binary \in BinaryLengths /\ b = ReadBinary(a)
      /\ r.buffer = buffer /\ r.binary = binary /\ r.handed = <<>>
  BY DEF ReadingType, ReadData, Stream
<1>2. a \in ReadingType
  <2>1. CASE binary = 0
    <3>1. Len(r.buffer) \in 0 .. Len(r.buffer)
      BY <1>1, LenProperties DEF Stream
    <3>2. PICK after \in [0 .. Len(r.buffer) -> ReadingType] :
             ReadLines(r) = after[Len(r.buffer)]
      BY <1>1, <2>1, TurnsOfTheLoop
    <3>3. QED
      BY <3>1, <3>2
  <2>2. CASE binary # 0
    BY <1>1, <2>2 DEF ReadLines
  <2>3. QED
    BY <2>1, <2>2
<1> HIDE DEF a
<1>3. /\ b.finished = a.finished
      /\ a.binary = 0 => b = a
      /\ b.buffer = a.buffer \/ (Len(a.buffer) >= a.binary /\ a.binary \in Nat /\ a.binary # 0
                                 /\ b.buffer = SubSeq(a.buffer, a.binary + 1, Len(a.buffer)))
  <2>1. CASE a.binary = 0 \/ Len(a.buffer) < a.binary
    BY <1>1, <2>1 DEF ReadBinary
  <2>2. CASE ~(a.binary = 0 \/ Len(a.buffer) < a.binary)
    <3>1. a.binary \in Nat /\ Len(a.buffer) \in Nat
      BY <1>2, LenProperties DEF ReadingType, BinaryLengths, ServerReadAssumption
    <3>2. b = [a EXCEPT !.handed = Append(a.handed, SubSeq(a.buffer, 1, a.binary)),
                        !.buffer = SubSeq(a.buffer, a.binary + 1, Len(a.buffer)),
                        !.binary = 0]
      BY <1>1, <2>2 DEF ReadBinary
    <3>3. b.finished = a.finished /\ b.buffer = SubSeq(a.buffer, a.binary + 1, Len(a.buffer))
      BY <1>2, <3>2 DEF ReadingType
    <3>4. QED
      BY <2>2, <3>1, <3>3
  <2>3. QED
    BY <2>1, <2>2
<1>4. ToSet(b.buffer) \subseteq ToSet(a.buffer)
  <2>1. CASE b.buffer = a.buffer
    BY <2>1
  <2>2. CASE b.buffer # a.buffer
    <3> DEFINE m == a.binary
               rest == SubSeq(a.buffer, m + 1, Len(a.buffer))
    <3>1. /\ m \in Nat /\ m <= Len(a.buffer) /\ b.buffer = rest /\ a.buffer \in Seq(Bytes)
          /\ Len(a.buffer) \in Nat
      <4>1. a.buffer \in Seq(Bytes) /\ Len(a.buffer) \in Nat
        BY <1>2, LenProperties DEF ReadingType
      <4>2. QED
        BY <1>3, <2>2, <4>1
    <3>2. /\ rest \in Seq(Bytes) /\ Len(rest) = Len(a.buffer) - m
          /\ \A i \in 1 .. Len(a.buffer) - m : rest[i] = a.buffer[m + i]
      <4>1. \A t \in Seq(Bytes), k \in Nat : k <= Len(t) =>
              /\ SubSeq(t, k + 1, Len(t)) \in Seq(Bytes)
              /\ Len(SubSeq(t, k + 1, Len(t))) = Len(t) - k
              /\ \A i \in 1 .. Len(t) - k : SubSeq(t, k + 1, Len(t))[i] = t[k + i]
        BY TwoParts
      <4>2. QED
        BY <3>1, <4>1
    <3> HIDE DEF m, rest
    <3>3. DOMAIN rest = 1 .. Len(a.buffer) - m /\ DOMAIN a.buffer = 1 .. Len(a.buffer)
      BY <3>1, <3>2, LenProperties
    <3>4. \A i \in 1 .. Len(a.buffer) - m : m + i \in 1 .. Len(a.buffer)
      BY <3>1
    <3>5. ToSet(rest) \subseteq ToSet(a.buffer)
      BY <3>2, <3>3, <3>4 DEF ToSet
    <3>6. QED
      BY <3>1, <3>5
  <2>3. QED
    BY <2>1, <2>2
<1>5. /\ \A w \in Stream : RestOf(binary, buffer, w) = a.handed \o RestOf(a.binary, a.buffer, w)
      /\ ToSet(a.buffer) \subseteq ToSet(buffer)
      /\ binary = 0 /\ Binary \notin ToSet(buffer) => a.binary = 0 /\ ~HasLine(a.buffer)
  <2>1. CASE binary = 0
    <3>1. ~ReadLines(r).finished
      BY <1>1, <1>3 DEF a
    <3>2. /\ TextMode(a, ToSet(buffer))
          /\ \A w \in Stream : Frames[buffer \o w] = a.handed \o RestOf(a.binary, a.buffer, w)
      BY <1>1, <2>1, <3>1, LoopKeepsRest DEF a
    <3>3. QED
      BY <2>1, <3>2 DEF TextMode, RestOf
  <2>2. CASE binary # 0
    <3>1. a.handed = <<>> /\ a.binary = binary /\ a.buffer = buffer
      BY <1>1, <2>2 DEF ReadLines, a
    <3>2. ASSUME NEW w \in Stream
          PROVE  RestOf(binary, buffer, w) = <<>> \o RestOf(binary, buffer, w)
      <4>1. RestOf(binary, buffer, w) \in Pieces
        BY <1>1, RestTyped
      <4>2. QED
        BY <4>1, ConcatEmptySeq DEF Pieces
    <3>3. QED
      BY <2>2, <3>1, <3>2
  <2>3. QED
    BY <2>1, <2>2
<1>6. ASSUME NEW w \in Stream
      PROVE  RestOf(binary, buffer, w) = b.handed \o RestOf(b.binary, b.buffer, w)
  <2>1. LET v == ReadBinary(a)
        IN  a.handed \o RestOf(a.binary, a.buffer, w) = v.handed \o RestOf(v.binary, v.buffer, w)
    BY <1>2, BlockKeepsRest, ServerReadAssumption
  <2>2. RestOf(binary, buffer, w) = a.handed \o RestOf(a.binary, a.buffer, w)
    BY <1>5
  <2> PICK v : v = ReadBinary(a)
    OBVIOUS
  <2>3. v = b
    BY <1>1
  <2>4. a.handed \o RestOf(a.binary, a.buffer, w) = v.handed \o RestOf(v.binary, v.buffer, w)
    BY <2>1
  <2>5. QED
    BY <2>2, <2>3, <2>4
<1>7. \A w \in Stream : RestOf(r.binary, r.buffer, w) = b.handed \o RestOf(b.binary, b.buffer, w)
  BY <1>6
<1>8. /\ ToSet(b.buffer) \subseteq ToSet(r.buffer)
      /\ r.binary = 0 /\ Binary \notin ToSet(r.buffer) => b.binary = 0 /\ ~HasLine(b.buffer)
  <2>1. ToSet(b.buffer) \subseteq ToSet(buffer)
    BY <1>4, <1>5
  <2>2. ASSUME binary = 0, Binary \notin ToSet(buffer)
        PROVE  b.binary = 0 /\ ~HasLine(b.buffer)
    <3>1. a.binary = 0 /\ ~HasLine(a.buffer)
      BY <1>5, <2>2
    <3>2. b = a
      BY <1>3, <3>1
    <3>3. QED
      BY <3>1, <3>2
  <2>3. QED
    BY <2>1, <2>2
<1>9. QED
  BY <1>7, <1>8

-----------------------------------------------------------------------------
(* Lines and blocks arrive whole. *)

\* What was read, p, has been handed over but for what waits in the buffer.
Whole(x, l) ==
    \E p \in Stream :
        /\ l.sent = p \o l.wire
        /\ \A w \in Stream : Frames[p \o w] = x.handed \o RestOf(x.binary, x.in, w)
        /\ ToSet(x.in) \subseteq ToSet(p)
        /\ Binary \notin ToSet(p) => x.binary = 0 /\ ~HasLine(x.in)

\* Nothing is in the buffer before the connect has ended, so that a restart
\* begins with an empty one.
Frame(x, l) ==
    /\ ~x.connected => x.in = <<>> /\ x.binary = 0
    /\ l.state \in {"connecting", "up", "closed"} => Whole(x, l)
FrameInv == \A c \in Connections : Frame(conn[c], link[c])

\* The same fields, and a link in which as much was read.
LEMMA FrameStays ==
    ASSUME NEW x, NEW l, NEW y, NEW k, Frame(x, l),
           y.in = x.in, y.binary = x.binary, y.handed = x.handed,
           ~y.connected => ~x.connected,
           k.sent = l.sent, k.wire = l.wire, k.state # "none",
           l.state \in {"connecting", "up", "closed"} \/ k.state = l.state
    PROVE  Frame(y, k)
BY DEF Frame, Whole

\* A new socket.
LEMMA FrameNew ==
    ASSUME NEW x, NEW state, x.in = <<>>, x.binary = 0,
           x.handed = <<>> \/ state = "none", ServerReadAssumption
    PROVE  Frame(x, NewLink(state))
<1> DEFINE l == NewLink(state)
<1>1. l.sent = <<>> /\ l.wire = <<>> /\ l.state = state
  BY DEF NewLink
<1>2. CASE state = "none"
  BY <1>1, <1>2 DEF Frame
<1>3. CASE x.handed = <<>>
  <2>1. <<>> \in Stream /\ <<>> \o <<>> = <<>>
    BY EmptySeq, ConcatEmptySeq DEF Stream
  <2>2. ASSUME NEW w \in Stream
        PROVE  Frames[<<>> \o w] = x.handed \o RestOf(x.binary, x.in, w)
    <3>1. <<>> \o w = w
      BY ConcatEmptySeq DEF Stream
    <3>2. Frames[w] \in Pieces
      BY FramesUnfold
    <3>3. <<>> \o Frames[w] = Frames[w]
      BY <3>2, ConcatEmptySeq DEF Pieces
    <3>4. QED
      BY <1>3, <3>1, <3>3 DEF RestOf
  <2>3. ~HasLine(<<>>)
    BY DEF HasLine, ToSet
  <2> HIDE DEF l
  <2>4. Whole(x, l)
    BY <1>1, <2>1, <2>2, <2>3 DEF Whole
  <2>5. QED
    BY <2>4 DEF Frame, l
<1>4. QED
  BY <1>2, <1>3

LEMMA FrameAt ==
    ASSUME OwnInv, FrameInv, NEW c \in Connections, NEW x \in ConnectionType, NEW l \in RoomyLink,
           conn' = [conn EXCEPT ![c] = x], link' = [link EXCEPT ![c] = l], Frame(x, l)
    PROVE  FrameInv'
<1>1. /\ conn'[c] = x /\ link'[c] = l
      /\ \A d \in Connections \ {c} : conn'[d] = conn[d] /\ link'[d] = link[d]
  BY FieldsAt
<1>2. \A d \in Connections : Frame(conn'[d], link'[d])
  BY <1>1 DEF FrameInv
<1>3. QED
  BY <1>2 DEF FrameInv, Frame, Whole

\* Writing and sending touch nothing that reading does.
LEMMA WritingReadsNothing ==
    ASSUME NEW x \in ConnectionType, NEW n, NEW l \in LinkType
    PROVE  /\ WriteBlock(x, n).in = x.in /\ WriteBlock(x, n).binary = x.binary
           /\ WriteBlock(x, n).handed = x.handed /\ WriteBlock(x, n).connected = x.connected
           /\ Sent(x, l).in = x.in /\ Sent(x, l).binary = x.binary
           /\ Sent(x, l).handed = x.handed /\ Sent(x, l).connected = x.connected
           /\ Carried(x, l).sent = l.sent /\ Carried(x, l).wire = l.wire
           /\ Carried(x, l).state = l.state
BY DEF WriteBlock, Sent, Carried, ConnectionType, LinkType

LEMMA FrameSent ==
    ASSUME NEW x \in ConnectionType, NEW l \in LinkType, Frame(x, l)
    PROVE  Frame(Sent(x, l), Carried(x, l))
<1> DEFINE y == Sent(x, l)
           k == Carried(x, l)
<1>1. /\ y.in = x.in /\ y.binary = x.binary /\ y.handed = x.handed
      /\ y.connected = x.connected
      /\ k.sent = l.sent /\ k.wire = l.wire /\ k.state = l.state
  BY WritingReadsNothing
<1> HIDE DEF y, k
<1>2. Frame(y, k)
  BY <1>1 DEF Frame, Whole
<1>3. QED
  BY <1>2 DEF y, k

\* All that has arrived is read.
LEMMA FrameRead ==
    ASSUME OwnInv, FrameInv, ServerAssumption, ServerReadAssumption, NEW c \in Connections,
           link[c].wire # <<>>, ~Result(c).finished, conn[c].connected
    PROVE  Frame(Handled(c), [link[c] EXCEPT !.wire = <<>>])
<1> DEFINE x == conn[c]
           l == link[c]
           k == [link[c] EXCEPT !.wire = <<>>]
           in == x.in \o l.wire
           r == Reading(in, x.binary, x.finished)
           b == Result(c)
           y == Handled(c)
<1>1. /\ x \in ConnectionType /\ l \in LinkType /\ Frame(x, l) /\ y.connected = x.connected
  BY FieldsOf, HandledTyped DEF FrameInv
<1>2. /\ x.in \in Stream /\ l.wire \in Stream /\ x.finished \in BOOLEAN
      /\ x.binary \in BinaryLengths /\ x.handed \in Pieces
  BY <1>1 DEF ConnectionType, LinkType, BinaryLengths, Stream, Pieces
<1>3. in \in Stream
  BY <1>2, ConcatProperties DEF Stream
<1>4. k.sent = l.sent /\ k.wire = <<>> /\ k.state = l.state
  BY <1>1 DEF LinkType
<1>5. b = ReadData(r)
  BY DEF Result
<1>6. y.in = b.buffer /\ y.binary = b.binary /\ y.handed = x.handed \o b.handed
  <2> DEFINE z == [x EXCEPT !.in = b.buffer, !.binary = b.binary, !.finished = b.finished,
                            !.handed = x.handed \o b.handed]
  <2>1. y = WriteBlock(z, b.answers)
    BY DEF Handled
  <2>2. /\ z.in = b.buffer /\ z.binary = b.binary /\ z.handed = x.handed \o b.handed
    BY <1>1 DEF ConnectionType
  <2>3. r \in ReadingType
    BY <1>2, <1>3, EmptySeq DEF Reading, ReadingType, Stream
  <2>4. b \in ReadingType
    BY <1>5, <2>3, ReadTyped
  <2>5. z \in ConnectionType
    <3>1. /\ b.buffer \in Seq(Bytes) /\ b.binary \in {0, BinaryLength} /\ b.finished \in BOOLEAN
          /\ b.handed \in Seq(Seq(Bytes))
      BY <2>4 DEF ReadingType, BinaryLengths
    <3>2. x.handed \o b.handed \in Seq(Seq(Bytes))
      BY <1>2, <3>1, ConcatProperties DEF Pieces
    <3> HIDE DEF b
    <3>3. QED
      BY <1>1, <3>1, <3>2 DEF ConnectionType
  <2> HIDE DEF z, b
  <2>6. y.in = z.in /\ y.binary = z.binary /\ y.handed = z.handed
    BY <1>1, <2>1, <2>5, WritingReadsNothing
  <2>7. QED
    BY <2>2, <2>6
<1>7. /\ \A w \in Stream :
            RestOf(x.binary, in, w) = b.handed \o RestOf(b.binary, b.buffer, w)
      /\ ToSet(b.buffer) \subseteq ToSet(in)
      /\ x.binary = 0 /\ Binary \notin ToSet(in) => b.binary = 0 /\ ~HasLine(b.buffer)
      /\ b.handed \in Pieces /\ b.buffer \in Stream
  <2>1. r \in ReadingType /\ r.buffer = in /\ r.binary = x.binary /\ r.handed = <<>>
    BY <1>2, <1>3, EmptySeq DEF Reading, ReadingType, Stream
  <2>2. ~b.finished
    OBVIOUS
  <2>3. b = ReadData(r)
    BY <1>5
  <2> HIDE DEF r, b, in, x
  <2>4. \A v : v = ReadData(r) /\ ~v.finished =>
          /\ \A w \in Stream :
               RestOf(r.binary, r.buffer, w) = v.handed \o RestOf(v.binary, v.buffer, w)
          /\ ToSet(v.buffer) \subseteq ToSet(r.buffer)
          /\ r.binary = 0 /\ Binary \notin ToSet(r.buffer) => v.binary = 0 /\ ~HasLine(v.buffer)
    BY <2>1, ReadKeepsRest, ServerReadAssumption
  <2>5. b.handed \in Pieces /\ b.buffer \in Stream
    BY <1>5, <2>1, ReadTyped DEF ReadingType, Pieces, Stream
  <2>6. QED
    BY <2>1, <2>2, <2>3, <2>4, <2>5
<1> HIDE DEF y, b, k
<1>8. ASSUME Whole(x, l) PROVE Whole(y, k)
  <2>1. PICK p \in Stream :
          /\ l.sent = p \o l.wire
          /\ \A w \in Stream : Frames[p \o w] = x.handed \o RestOf(x.binary, x.in, w)
          /\ ToSet(x.in) \subseteq ToSet(p)
          /\ Binary \notin ToSet(p) => x.binary = 0 /\ ~HasLine(x.in)
    BY <1>8 DEF Whole
  <2> PICK q : q = l.sent
    OBVIOUS
  <2>2. q = p \o l.wire /\ q \in Stream /\ k.sent = q \o k.wire
    <3>1. q = p \o l.wire /\ q \in Stream
      BY <1>2, <2>1, ConcatProperties DEF Stream
    <3>2. q \o <<>> = q
      BY <3>1, ConcatEmptySeq DEF Stream
    <3>3. QED
      BY <1>4, <3>1, <3>2
  <2>3. ASSUME NEW w \in Stream
        PROVE  Frames[q \o w] = y.handed \o RestOf(y.binary, y.in, w)
    <3>1. l.wire \o w \in Stream
      BY <1>2, ConcatProperties DEF Stream
    <3>2. q \o w = p \o (l.wire \o w)
      <4> PICK v : v = l.wire
        OBVIOUS
      <4>1. v \in Stream /\ q = p \o v
        BY <1>2, <2>2
      <4>2. (p \o v) \o w = p \o (v \o w)
        BY <4>1, StreamAssociative, ZenonT(30)
      <4>3. QED
        BY <4>1, <4>2
    <3>3. Frames[q \o w] = x.handed \o RestOf(x.binary, x.in, l.wire \o w)
      BY <2>1, <3>1, <3>2
    <3>4. RestOf(x.binary, x.in, l.wire \o w) = RestOf(x.binary, in, w)
      <4> PICK s, t : s = x.in /\ t = l.wire
        OBVIOUS
      <4>1. s \in Stream /\ t \in Stream
        BY <1>2
      <4>2. (s \o t) \o w = s \o (t \o w)
        BY <4>1, StreamAssociative, ZenonT(30)
      <4>3. in \o w = x.in \o (l.wire \o w)
        BY <4>2
      <4>4. QED
        BY <4>3 DEF RestOf
    <3>5. RestOf(x.binary, in, w) = b.handed \o RestOf(b.binary, b.buffer, w)
      BY <1>7
    <3>6. RestOf(b.binary, b.buffer, w) \in Pieces
      BY <1>7, RestTyped
    <3>7. x.handed \o (b.handed \o RestOf(b.binary, b.buffer, w))
            = (x.handed \o b.handed) \o RestOf(b.binary, b.buffer, w)
      <4> PICK s, t, u : /\ s = x.handed /\ t = b.handed
                         /\ u = RestOf(b.binary, b.buffer, w)
        OBVIOUS
      <4>1. s \in Pieces /\ t \in Pieces /\ u \in Pieces
        BY <1>2, <1>7, <3>6
      <4>2. s \o (t \o u) = (s \o t) \o u
        BY <4>1, PiecesAssociative, ZenonT(30)
      <4>3. QED
        BY <4>2
    <3>8. QED
      BY <1>6, <3>3, <3>4, <3>5, <3>7
  <2>4. ToSet(q) = ToSet(p) \cup ToSet(l.wire) /\ ToSet(in) = ToSet(x.in) \cup ToSet(l.wire)
    <3>1. \A s, t \in Seq(Bytes) : ToSet(s \o t) = ToSet(s) \cup ToSet(t)
      BY ElementsTogether
    <3>2. QED
      BY <1>2, <2>2, <3>1 DEF Stream
  <2>5. ToSet(y.in) \subseteq ToSet(q)
    BY <1>6, <1>7, <2>1, <2>4
  <2>6. Binary \notin ToSet(q) => y.binary = 0 /\ ~HasLine(y.in)
    BY <1>6, <1>7, <2>1, <2>4
  <2>7. QED
    BY <2>2, <2>3, <2>5, <2>6 DEF Whole
<1>9. Frame(y, k)
  BY <1>1, <1>4, <1>8 DEF Frame
<1>10. QED
  BY <1>9 DEF y, k

\* The other end appends to what it sent and to what is on the wire.
LEMMA FramePeer ==
    ASSUME OwnInv, FrameInv, ServerAssumption, NEW c \in Connections, Peer(c)
    PROVE  FrameInv'
<1> DEFINE x == conn[c]
           l == link[c]
<1>1. conn' = conn /\ x \in ConnectionType /\ l \in LinkType /\ Frame(x, l)
      /\ link \in [Connections -> RoomyLink]
  BY FieldsOf DEF Peer, FrameInv, OwnInv, FieldsTyped
<1>2. \A d \in Connections \ {c} : link'[d] = link[d]
  BY <1>1 DEF Peer, ConnectEnds, PeerSends, PeerReceives, PeerCloses
<1>3. SUFFICES Frame(x, link'[c])
  <2>1. ASSUME Frame(x, link'[c]) PROVE \A d \in Connections : Frame(conn'[d], link'[d])
    BY <1>1, <1>2, <2>1 DEF FrameInv
  <2>2. QED
    BY <2>1 DEF FrameInv, Frame, Whole
<1>4. CASE ConnectEnds(c) \/ PeerReceives(c) \/ PeerCloses(c)
  <2> DEFINE k == link'[c]
  <2>1. /\ k.sent = l.sent /\ k.wire = l.wire /\ k.state # "none"
        /\ l.state \in {"connecting", "up", "closed"}
    <3>1. CASE ConnectEnds(c)
      BY <1>1, <3>1 DEF ConnectEnds, LinkType
    <3>2. CASE PeerReceives(c)
      BY <1>1, <3>2 DEF PeerReceives, LinkType
    <3>3. CASE PeerCloses(c)
      BY <1>1, <3>3 DEF PeerCloses, LinkType
    <3>4. QED
      BY <1>4, <3>1, <3>2, <3>3
  <2> HIDE DEF k
  <2>2. Frame(x, k)
    BY <1>1, <2>1, FrameStays
  <2>3. QED
    BY <2>2 DEF k
<1>5. CASE PeerSends(c)
  <2> PICK k : k = link'[c]
    OBVIOUS
  <2>1. PICK b \in Bytes : /\ k.sent = Append(l.sent, b) /\ k.wire = Append(l.wire, b)
                           /\ k.state = l.state /\ l.state = "up"
    <3>1. PICK b \in PeerBytes :
            link' = [link EXCEPT ![c].sent = Append(@, b), ![c].wire = Append(@, b)]
      BY <1>5 DEF PeerSends
    <3>2. b \in Bytes /\ l.state = "up"
      BY <1>5 DEF PeerSends, ServerAssumption
    <3>3. k = [l EXCEPT !.sent = Append(l.sent, b), !.wire = Append(l.wire, b)]
      BY <1>1, <3>1
    <3>4. QED
      BY <1>1, <3>2, <3>3 DEF LinkType
  <2>2. PICK p \in Stream :
          /\ l.sent = p \o l.wire
          /\ \A w \in Stream : Frames[p \o w] = x.handed \o RestOf(x.binary, x.in, w)
          /\ ToSet(x.in) \subseteq ToSet(p)
          /\ Binary \notin ToSet(p) => x.binary = 0 /\ ~HasLine(x.in)
    BY <1>1, <2>1 DEF Frame, Whole
  <2>3. k.sent = p \o k.wire
    <3>1. l.wire \in Seq(Bytes) /\ l.sent \in Seq(Bytes) /\ p \in Seq(Bytes)
      BY <1>1 DEF LinkType, Stream
    <3> PICK one : one = <<b>>
      OBVIOUS
    <3>2. one \in Seq(Bytes)
      OBVIOUS
    <3>3. Append(l.wire, b) = l.wire \o one /\ Append(l.sent, b) = l.sent \o one
      BY <3>1, AppendIsConcat
    <3>4. (p \o l.wire) \o one = p \o (l.wire \o one)
      BY <3>1, <3>2, StreamAssociative, ZenonT(30) DEF Stream
    <3>5. QED
      BY <2>1, <2>2, <3>3, <3>4
  <2>4. Whole(x, k)
    BY <2>2, <2>3 DEF Whole
  <2>5. Frame(x, k)
    BY <1>1, <2>4 DEF Frame
  <2>6. QED
    BY <2>5
<1>6. QED
  BY <1>4, <1>5 DEF Peer

LEMMA FrameSame ==
    ASSUME FrameInv, conn' = conn, link' = link
    PROVE  FrameInv'
BY DEF FrameInv, Frame, Whole

LEMMA FrameJoins ==
    ASSUME OwnInv, FrameInv, ServerAssumption, ServerReadAssumption, NEW c \in Connections,
           NEW s \in Sockets \cup {NoSocket}, NEW b \in BOOLEAN, NEW state \in LinkStates,
           conn' = [conn EXCEPT ![c] = NewConnection(s, b)],
           link' = [link EXCEPT ![c] = NewLink(state)]
    PROVE  FrameInv'
<1> PICK x : x = NewConnection(s, b)
  OBVIOUS
<1>1. x.in = <<>> /\ x.binary = 0 /\ x.handed = <<>> /\ x \in ConnectionType
      /\ NewLink(state) \in RoomyLink
  BY NewTyped DEF NewConnection
<1>2. Frame(x, NewLink(state))
  BY <1>1, FrameNew
<1>3. QED
  BY <1>1, <1>2, FrameAt

LEMMA FrameFinish ==
    ASSUME OwnInv, FrameInv, ServerAssumption, ServerReadAssumption,
           NEW c \in Connections, FinishConnect(c)
    PROVE  FrameInv'
<1>1. /\ conn[c] \in ConnectionType /\ link[c] \in RoomyLink /\ Frame(conn[c], link[c])
      /\ ~conn[c].connected
  BY FieldsOf DEF FrameInv, FinishConnect
<1>2. conn[c].in = <<>> /\ conn[c].binary = 0
  BY <1>1 DEF Frame
<1>3. CASE conn' = [conn EXCEPT ![c].connected = TRUE] /\ link' = link /\ link[c].state # "refused"
  <2> DEFINE x == [conn[c] EXCEPT !.connected = TRUE]
  <2>1. /\ x \in ConnectionType /\ x.connected /\ x.in = conn[c].in
        /\ x.binary = conn[c].binary /\ x.handed = conn[c].handed
    BY <1>1 DEF ConnectionType
  <2>2. conn' = [conn EXCEPT ![c] = x] /\ link' = [link EXCEPT ![c] = link[c]]
    BY <1>3 DEF OwnInv, FieldsTyped
  <2> HIDE DEF x
  <2>3. Frame(x, link[c])
    BY <1>1, <2>1 DEF Frame, Whole
  <2>4. QED
    BY <1>1, <2>1, <2>2, <2>3, FrameAt
<1>4. CASE conn' = [conn EXCEPT ![c].socket = NoSocket] /\ link' = [link EXCEPT ![c] = NewLink("none")]
  <2> DEFINE x == [conn[c] EXCEPT !.socket = NoSocket]
  <2>1. x \in ConnectionType /\ x.in = <<>> /\ x.binary = 0
    BY <1>1, <1>2 DEF ConnectionType
  <2>2. conn' = [conn EXCEPT ![c] = x] /\ NewLink("none") \in RoomyLink
    BY <1>4, NewTyped DEF LinkStates
  <2> HIDE DEF x
  <2>3. Frame(x, NewLink("none"))
    BY <2>1, FrameNew
  <2>4. QED
    BY <1>4, <2>1, <2>2, <2>3, FrameAt
<1>5. QED
  BY <1>3, <1>4 DEF FinishConnect

LEMMA FrameReadOn ==
    ASSUME OwnInv, FrameInv, SnapshotIsTrue, ServerAssumption, ServerReadAssumption,
           NEW c \in Connections, ReadOn(c)
    PROVE  FrameInv'
<1> DEFINE y == Handled(c)
           k == Carried(y, link[c])
           x == Sent(y, link[c])
           l == [k EXCEPT !.wire = <<>>]
           r == [link[c] EXCEPT !.wire = <<>>]
<1>1. link[c].wire # <<>> /\ ~Result(c).finished
  BY DEF ReadOn, Leaves
<1>2. conn[c].connected
  <2>1. pc = "walk" /\ c \in Listed /\ HasSocket(c) /\ conn[c].socket \in rset
    BY AtIs DEF ReadOn, ReadNow, Selected, At, OwnInv
  <2>2. QED
    BY <2>1 DEF SnapshotIsTrue, Readable
<1>3. Frame(y, r)
  BY <1>1, <1>2, FrameRead
<1>4. y \in ConnectionType /\ link[c] \in RoomyLink /\ link[c] \in LinkType
  BY FieldsOf, HandledTyped
<1> HIDE DEF y
<1>5. /\ x \in ConnectionType /\ k \in RoomyLink
      /\ x.in = y.in /\ x.binary = y.binary /\ x.handed = y.handed /\ x.connected = y.connected
      /\ k.sent = link[c].sent /\ k.state = link[c].state
  BY <1>4, SentTyped, WritingReadsNothing
<1>6. conn' = [conn EXCEPT ![c] = x] /\ link' = [link EXCEPT ![c] = l]
  BY DEF ReadOn, y
<1> HIDE DEF x, k
<1>7. l \in RoomyLink /\ l.sent = k.sent /\ l.wire = <<>> /\ l.state = k.state
  <2>1. k \in LinkType /\ <<>> \in Seq(Bytes) /\ Len(k.way) <= Window
    BY <1>5, EmptySeq DEF RoomyLink
  <2>2. l \in LinkType /\ l.sent = k.sent /\ l.wire = <<>> /\ l.state = k.state /\ l.way = k.way
    BY <2>1 DEF LinkType
  <2>3. QED
    BY <2>1, <2>2 DEF RoomyLink
<1>8. r.sent = link[c].sent /\ r.wire = <<>> /\ r.state = link[c].state
  BY <1>4 DEF LinkType
<1> HIDE DEF l, r
<1>9. Frame(x, l)
  BY <1>3, <1>5, <1>7, <1>8 DEF Frame, Whole
<1>10. QED
  BY <1>5, <1>6, <1>7, <1>9, FrameAt

\* The connection is restarted or closed: the buffer is freed.
LEMMA FrameEnds ==
    ASSUME OwnInv, FrameInv, ServerAssumption, ServerReadAssumption,
           NEW c \in Connections, ReadRestart(c) \/ ReadClose(c)
    PROVE  FrameInv'
<1> DEFINE y == CleanedUp(Handled(c))
           z == [y EXCEPT !.waiting = TRUE]
<1>1. y \in ConnectionType
  BY FieldsOf, HandledTyped, CleanedUpTyped
<1>2. y.in = <<>> /\ y.binary = 0
  BY DEF CleanedUp, NewConnection
<1>3. /\ conn' = [conn EXCEPT ![c] = y] \/ conn' = [conn EXCEPT ![c] = z]
      /\ link' = [link EXCEPT ![c] = NewLink("none")]
  BY DEF ReadRestart, ReadClose
<1> HIDE DEF y
<1>4. z \in ConnectionType /\ z.in = <<>> /\ z.binary = 0
  BY <1>1, <1>2 DEF ConnectionType
<1> HIDE DEF z
<1>5. PICK x \in ConnectionType :
        conn' = [conn EXCEPT ![c] = x] /\ x.in = <<>> /\ x.binary = 0
  BY <1>1, <1>2, <1>3, <1>4
<1>6. Frame(x, NewLink("none")) /\ NewLink("none") \in RoomyLink
  BY <1>5, FrameNew, NewTyped DEF LinkStates
<1>7. QED
  BY <1>3, <1>5, <1>6, FrameAt

LEMMA FrameRestart ==
    ASSUME OwnInv, FrameInv, ServerAssumption, ServerReadAssumption, RestartConnection
    PROVE  FrameInv'
<1>1. PICK i \in 1 .. Len(timers), c \in Waiting, x \in ConnectionType, l \in RoomyLink :
        /\ conn' = [conn EXCEPT ![c] = x] /\ link' = [link EXCEPT ![c] = l]
        /\ x.in = conn[c].in /\ x.binary = conn[c].binary /\ x.handed = <<>>
        /\ \E state : l = NewLink(state)
  BY RestartFields
<1>2. c \in Connections /\ ~conn[c].connected
  BY ListedAre DEF OwnInv, WalkInv, TimersOwned, Waiting
<1>3. x.in = <<>> /\ x.binary = 0
  BY <1>1, <1>2 DEF FrameInv, Frame
<1>4. Frame(x, l)
  BY <1>1, <1>3, FrameNew
<1>5. QED
  BY <1>1, <1>2, <1>4, FrameAt

LEMMA FrameBroadcast ==
    ASSUME OwnInv, FrameInv, Broadcast
    PROVE  FrameInv'
<1> DEFINE x(c) == WriteBlock(conn[c], 1)
<1>1. /\ conn' = [c \in Connections |-> IF c \in Listed THEN Sent(x(c), link[c]) ELSE conn[c]]
      /\ link' = [c \in Connections |-> IF c \in Listed THEN Carried(x(c), link[c]) ELSE link[c]]
  BY DEF Broadcast
<1>2. ASSUME NEW c \in Connections
      PROVE  Frame(conn'[c], link'[c])
  <2>1. conn[c] \in ConnectionType /\ link[c] \in LinkType /\ Frame(conn[c], link[c])
    BY FieldsOf DEF FrameInv
  <2>2. CASE c \in Listed
    <3> DEFINE y == x(c)
    <3>1. /\ y \in ConnectionType /\ y.in = conn[c].in /\ y.binary = conn[c].binary
          /\ y.handed = conn[c].handed /\ y.connected = conn[c].connected
      BY <2>1, WriteBlockTyped, WritingReadsNothing
    <3>2. conn'[c] = Sent(y, link[c]) /\ link'[c] = Carried(y, link[c])
      BY <1>1, <2>2
    <3> HIDE DEF y
    <3>3. Frame(y, link[c])
      BY <2>1, <3>1 DEF Frame, Whole
    <3>4. QED
      BY <2>1, <3>1, <3>2, <3>3, FrameSent
  <2>3. CASE c \notin Listed
    <3>1. conn'[c] = conn[c] /\ link'[c] = link[c]
      BY <1>1, <2>3
    <3>2. QED
      BY <2>1, <3>1
  <2>4. QED
    BY <2>2, <2>3
<1>3. QED
  BY <1>2 DEF FrameInv, Frame, Whole

LEMMA FrameStep ==
    ASSUME OwnInv, SnapshotIsTrue, FrameInv, ServerAssumption, ServerReadAssumption, [Next]_vars
    PROVE  FrameInv'
<1>1. ASSUME NEW c \in Connections, AddConnection(c)
      PROVE  FrameInv'
  <2>1. NewSocket(c) \in Sockets \cup {NoSocket}
    BY LowestIsFree DEF NewSocket, FreeSockets
  <2>2. PICK state \in LinkStates : LinkFor(NewSocket(c)) = NewLink(state)
    BY DEF LinkFor, LinkStates
  <2>3. /\ conn' = [conn EXCEPT ![c] = NewConnection(NewSocket(c), FALSE)]
        /\ link' = [link EXCEPT ![c] = NewLink(state)]
    BY <1>1, <2>2 DEF AddConnection
  <2>4. QED
    BY <2>1, <2>3, FrameJoins
<1>2. ASSUME NEW c \in Connections, Accept(c)
      PROVE  FrameInv'
  <2> DEFINE socket == IF FreeSockets = {} THEN NoSocket ELSE Min(FreeSockets)
             state == IF socket = NoSocket THEN "none" ELSE "up"
  <2>1. socket \in Sockets \cup {NoSocket} /\ state \in LinkStates
    BY LowestIsFree DEF FreeSockets, LinkStates
  <2>2. /\ conn' = [conn EXCEPT ![c] = NewConnection(socket, TRUE)]
        /\ link' = [link EXCEPT ![c] = NewLink(state)]
    BY <1>2 DEF Accept
  <2> HIDE DEF socket, state
  <2>3. QED
    BY <2>1, <2>2, FrameJoins
<1>3. CASE Select
  <2>1. /\ conn' = [c \in Connections |->
                     [conn[c] EXCEPT !.waiting = @ \/ (c \in Listed /\ NeedsRestart(c))]]
        /\ link' = link
    BY <1>3 DEF Select
  <2>2. ASSUME NEW c \in Connections
        PROVE  Frame(conn'[c], link'[c])
    <3> PICK y : y = conn'[c]
      OBVIOUS
    <3>1. conn[c] \in ConnectionType /\ Frame(conn[c], link[c])
      BY FieldsOf DEF FrameInv
    <3>2. /\ y.in = conn[c].in /\ y.binary = conn[c].binary /\ y.handed = conn[c].handed
          /\ y.connected = conn[c].connected
      BY <2>1, <3>1 DEF ConnectionType
    <3>3. Frame(y, link[c])
      BY <3>1, <3>2 DEF Frame, Whole
    <3>4. QED
      BY <2>1, <3>3
  <2>3. QED
    BY <2>2 DEF FrameInv, Frame, Whole
<1>4. ASSUME NEW c \in Connections, Write(c)
      PROVE  FrameInv'
  <2>1. /\ conn[c] \in ConnectionType /\ link[c] \in RoomyLink /\ link[c] \in LinkType
        /\ Frame(conn[c], link[c])
    BY FieldsOf DEF FrameInv
  <2>2. /\ conn' = [conn EXCEPT ![c] = Sent(conn[c], link[c])]
        /\ link' = [link EXCEPT ![c] = Carried(conn[c], link[c])]
    BY <1>4 DEF Write
  <2>3. QED
    BY <2>1, <2>2, SentTyped, FrameSent, FrameAt
<1>5. CASE \/ Second \/ EndOfWalk \/ AcceptNothing \/ EndOfCycle \/ Knock
           \/ \E c \in Connections : Pass(c)
           \/ UNCHANGED vars
  <2>1. conn' = conn /\ link' = link
    BY <1>5 DEF Second, EndOfWalk, AcceptNothing, EndOfCycle, Knock, Pass, vars
  <2>2. QED
    BY <2>1, FrameSame
<1>6. QED
  BY <1>1, <1>2, <1>3, <1>4, <1>5, FrameBroadcast, FrameFinish, FrameReadOn, FrameEnds,
     FrameRestart, FramePeer DEF Next, Cycle, Read

\* What was handed over begins the frames of the stream, and is all of them
\* while no line announced a block.
LEMMA FramesWhole ==
    ASSUME OwnInv, FrameInv, ServerAssumption, ServerReadAssumption
    PROVE  FramesAreWhole
<1> SUFFICES ASSUME NEW c \in Connections, link[c].state \in {"up", "closed"}
             PROVE  LET frames == Frames[SubSeq(link[c].sent, 1,
                                               Len(link[c].sent) - Len(link[c].wire))]
                    IN  /\ IsPrefix(conn[c].handed, frames)
                        /\ Binary \notin ToSet(link[c].sent) => conn[c].handed = frames
  BY DEF FramesAreWhole
<1> PICK x, l : x = conn[c] /\ l = link[c]
  OBVIOUS
<1>1. x \in ConnectionType /\ l \in LinkType /\ Whole(x, l)
  BY FieldsOf DEF FrameInv, Frame
<1>2. PICK p \in Stream :
        /\ l.sent = p \o l.wire
        /\ \A w \in Stream : Frames[p \o w] = x.handed \o RestOf(x.binary, x.in, w)
        /\ ToSet(x.in) \subseteq ToSet(p)
        /\ Binary \notin ToSet(p) => x.binary = 0 /\ ~HasLine(x.in)
  BY <1>1 DEF Whole
<1>3. /\ x.in \in Stream /\ l.wire \in Stream /\ l.sent \in Stream
      /\ x.binary \in BinaryLengths /\ x.handed \in Pieces
  BY <1>1 DEF ConnectionType, LinkType, BinaryLengths, Stream, Pieces
<1>4. SubSeq(l.sent, 1, Len(l.sent) - Len(l.wire)) = p /\ ToSet(p) \subseteq ToSet(l.sent)
  <2> PICK s, t : s = l.sent /\ t = l.wire
    OBVIOUS
  <2>1. s \in Seq(Bytes) /\ t \in Seq(Bytes) /\ p \in Seq(Bytes) /\ s = p \o t
    BY <1>2, <1>3 DEF Stream
  <2>2. Len(s) = Len(p) + Len(t) /\ Len(p) \in Nat /\ Len(t) \in Nat
        /\ \A i \in 1 .. Len(p) : s[i] = p[i]
    BY <2>1
  <2>3. SubSeq(s, 1, Len(p)) = p
    BY <2>1, <2>2
  <2>4. \A a, b \in Seq(Bytes) : ToSet(a \o b) = ToSet(a) \cup ToSet(b)
    BY ElementsTogether
  <2>5. ToSet(p) \subseteq ToSet(s)
    BY <2>1, <2>4
  <2>6. QED
    BY <2>2, <2>3, <2>5
<1> PICK rest : rest = RestOf(x.binary, x.in, <<>>)
  OBVIOUS
<1>5. <<>> \in Stream /\ rest \in Pieces
  BY <1>3, EmptySeq, RestTyped DEF Stream
<1>6. Frames[p] = x.handed \o rest
  <2>1. p \o <<>> = p
    BY ConcatEmptySeq DEF Stream
  <2>2. Frames[p \o <<>>] = x.handed \o rest
    BY <1>2, <1>5
  <2>3. QED
    BY <2>1, <2>2
<1>7. IsPrefix(x.handed, Frames[p])
  <2> PICK S : S = Seq(Bytes)
    OBVIOUS
  <2>1. x.handed \in Seq(S) /\ rest \in Seq(S)
    BY <1>3, <1>5 DEF Pieces
  <2>2. \A h, r \in Seq(S) : IsPrefix(h, h \o r)
    <3> SUFFICES ASSUME NEW h \in Seq(S), NEW r \in Seq(S) PROVE IsPrefix(h, h \o r)
      OBVIOUS
    <3> PICK f : f = h \o r
      OBVIOUS
    <3>1. /\ f \in Seq(S) /\ Len(f) = Len(h) + Len(r) /\ SubSeq(f, 1, Len(h)) = h
          /\ Len(h) \in Nat /\ Len(r) \in Nat
      BY Together, LenProperties
    <3>2. SubSeq(h, 1, Len(h)) = h
      OBVIOUS
    <3>3. QED
      BY <3>1, <3>2 DEF IsPrefix
  <2>3. QED
    BY <1>6, <2>1, <2>2
<1>8. ASSUME Binary \notin ToSet(l.sent) PROVE x.handed = Frames[p]
  <2>1. x.binary = 0 /\ ~HasLine(x.in)
    BY <1>2, <1>4, <1>8
  <2>2. rest = Frames[x.in]
    <3>1. x.in \o <<>> = x.in
      BY <1>3, ConcatEmptySeq DEF Stream
    <3>2. QED
      BY <2>1, <3>1 DEF RestOf
  <2>3. Frames[x.in] = <<>>
    <3>1. \A s \in Stream : Frames[s] = FrameBody(Frames, s)
      BY FramesUnfold, ServerReadAssumption
    <3>2. \A s \in Stream : ~HasLine(s) => FrameBody(Frames, s) = <<>>
      BY BodyCases, ServerReadAssumption
    <3>3. QED
      BY <1>3, <2>1, <3>1, <3>2
  <2>4. x.handed \o <<>> = x.handed
    BY <1>3, ConcatEmptySeq DEF Pieces
  <2>5. QED
    BY <1>6, <2>2, <2>3, <2>4
<1>9. QED
  BY <1>4, <1>7, <1>8

\* However server_connection_read cuts the stream of the other end, the hooks
\* get its lines and blocks whole, in order and once (server.c:548-614), and
\* a line of text in the read that brings its end.
THEOREM ServerFramesAreWhole == Spec => []FramesAreWhole
<1>1. Init => FrameInv
  <2>1. ASSUME Init, NEW c \in Connections
        PROVE  Frame(conn[c], link[c])
    <3> PICK x : x = conn[c]
      OBVIOUS
    <3>1. x = NewConnection(NoSocket, FALSE) /\ link[c] = NewLink("none")
      BY <2>1 DEF Init
    <3>2. x.in = <<>> /\ x.binary = 0
      BY <3>1 DEF NewConnection
    <3>3. Frame(x, NewLink("none"))
      BY <3>2, FrameNew, ServerReadAssumption
    <3>4. QED
      BY <3>1, <3>3
  <2>2. QED
    BY <2>1 DEF FrameInv
<1>2. OwnInv /\ SnapshotIsTrue /\ FrameInv /\ [Next]_vars => FrameInv'
  BY FrameStep, ServerAssumption, ServerReadAssumption
<1>3. OwnInv /\ FrameInv => FramesAreWhole
  BY FramesWhole, ServerAssumption, ServerReadAssumption
<1>4. QED
  BY <1>1, <1>2, <1>3, OwnAlways, ServerSnapshotIsTrue, PTL DEF Spec
=============================================================================
