---------------------------- MODULE TimersProofs ----------------------------
(***************************************************************************)
(* Proofs about Timers.tla, for every set of timers, period, length of the *)
(* queue and lap of the tick counter: every timer is in the right list     *)
(* with the right time, none fires early, and the daemon does not sleep    *)
(* past one.                                                               *)
(*                                                                         *)
(* The ghost rem says when a timer is really due.  ListInv relates it to   *)
(* the lists, which know times modulo TickMod only; that is unambiguous    *)
(* because an item is no further ahead than its period (ReachInv), and no  *)
(* further behind than the daemon is late.                                 *)
(***************************************************************************)
EXTENDS Timers, SequenceTheorems, WellFoundedInduction, TLAPS

-----------------------------------------------------------------------------
(* The inductive invariant.                                                *)

\* The items of a list, or of the queue.
Items(l) == {l[i] : i \in DOMAIN l}

\* Sorted, and a timer at most once.
Ordered(l) ==
  \A i, j \in DOMAIN l : i < j => l[i].time <= l[j].time /\ l[i].timer # l[j].timer

Listed == Items(cur) \cup Items(ovf)

\* Ticks since the daemon read the time last.
Elapsed == (tick - last) % TickMod

\* Besides the types: no timer has fired early, and the daemon is never late by
\* as much as a period leaves of a lap.
Types ==
  /\ TypeOK
  /\ early = {}
  /\ run \subseteq TimerSet
  /\ rem \in [TimerSet -> Int]
  /\ \A t \in TimerSet : period[t] + MaxLate < TickMod

\* A command for a period brings one that fits, and a start knows how long ago
\* its time was.
SoundAt(m, now) ==
  /\ m.cmd = "period" => m.val > 0 /\ m.val + MaxLate < TickMod
  /\ m.cmd \in {"start", "restart"} => (m.val + m.age) % TickMod = now
Sound(m) == SoundAt(m, tick)

\* The commands on their way and in hand.
CmdInv ==
  /\ \A m \in Items(q) : Sound(m)
  /\ msg # Null => Sound(msg) /\ msg.cmd # "pend"
  /\ ask # Null => Sound(ask)
  /\ pc \in {"sample", "apply"} => msg # Null
  /\ pc \notin {"sample", "switch", "apply"} => msg = Null

\* The lists, and the time an item carries.
ListInv ==
  /\ Ordered(cur) /\ Ordered(ovf)
  /\ \A x \in Items(cur), y \in Items(ovf) : x.timer # y.timer
  /\ \A x \in Items(cur) : rem[x.timer] = x.time - tick - Wrap
  /\ \A x \in Items(ovf) : rem[x.timer] = x.time + TickMod - tick - Wrap
  /\ \A x \in Listed : x.timer \in run

\* How far behind, and how far ahead, an item can be.
ReachInv ==
  /\ \A x \in Listed : rem[x.timer] >= -late
  /\ pc # "switch" => \A x \in Items(cur) : x.time <= last + period[x.timer]
  /\ pc # "switch" => \A x \in Items(ovf) : x.time + TickMod <= last + period[x.timer]
  /\ pc = "switch" => \A x \in Items(ovf) : x.time < period[x.timer]

\* What the daemon relies on where it stands.
PlaceInv ==
  /\ pc = "expire" => cur # <<>> /\ Head(cur).time <= last
  /\ pc = "switch" /\ Listed # {} => last <= tick
  /\ pc \in {"switch", "apply"} /\ msg # Null =>
       /\ Elapsed <= late
       /\ msg.cmd \in {"start", "restart"} => Elapsed <= msg.age
       /\ \A x \in Listed : x.timer # msg.timer

\* Asleep, it wakes for the first that is due.
SleepInv == ~Busy => \A x \in Listed : left > 0 /\ left <= rem[x.timer]

\* Kept, with the items of the lists and the queue.
KeptInv ==
  \A t \in run :
    \/ \E x \in Listed : x.timer = t
    \/ \E m \in Items(q) : m.cmd = "restart" /\ m.timer = t
    \/ pc \in {"sample", "switch", "apply"} /\ msg # Null /\ msg.timer = t

TInv == Types /\ CmdInv /\ ListInv /\ ReachInv /\ PlaceInv /\ SleepInv /\ KeptInv
-----------------------------------------------------------------------------
(* The arithmetic of the tick counter.                                     *)

\* A time one lap or less out of range is brought back into it.
LEMMA ModIs ==
  ASSUME NEW a \in Int, -TickMod <= a, a < 2 * TickMod
  PROVE  /\ a % TickMod \in Tick
         /\ a % TickMod = IF a < 0 THEN a + TickMod ELSE IF a < TickMod THEN a ELSE a - TickMod
  BY TimersAssumption DEF Tick

\* prvInsertTimerInActiveList judges rightly, for every lap: with gap the ticks
\* since the time of the command, the timer is due exactly if the period is
\* over, and otherwise goes where its time will be found.
LEMMA WhereIs ==
  ASSUME NEW val \in Tick, NEW time \in Tick, NEW p \in 1 .. TickMod - 1
  PROVE  LET expiry == (val + p) % TickMod
             gap    == (time - val) % TickMod
             where  == prvInsertTimerInActiveList(expiry, time, val, p)
         IN /\ expiry \in Tick /\ gap \in Tick
            /\ where \in {"now", "current", "overflow"}
            /\ where = "now" => gap >= p
            /\ where = "current" => expiry - time = p - gap /\ gap < p
            /\ where = "overflow" => expiry + TickMod - time = p - gap /\ gap < p
<1> DEFINE expiry == (val + p) % TickMod
           gap    == (time - val) % TickMod
           where  == prvInsertTimerInActiveList(expiry, time, val, p)
<1>1. TickMod \in Nat /\ TickMod >= 2 /\ val \in 0 .. TickMod - 1 /\ time \in 0 .. TickMod - 1
  BY TimersAssumption DEF Tick
<1>2. expiry \in Tick /\ expiry = IF val + p < TickMod THEN val + p ELSE val + p - TickMod
  BY <1>1, ModIs
<1>3. gap \in Tick /\ gap = IF time < val THEN time - val + TickMod ELSE time - val
  BY <1>1, ModIs
<1>4. where = IF expiry <= time
              THEN IF gap >= p THEN "now" ELSE "overflow"
              ELSE IF time < val /\ expiry >= val THEN "now" ELSE "current"
  BY DEF prvInsertTimerInActiveList
<1> HIDE DEF expiry, gap, where
<1>5. where = "now" => gap >= p
  BY <1>1, <1>2, <1>3, <1>4
<1>6. where = "current" => expiry - time = p - gap /\ gap < p
  BY <1>1, <1>2, <1>3, <1>4
<1>7. where = "overflow" => expiry + TickMod - time = p - gap /\ gap < p
  BY <1>1, <1>2, <1>3, <1>4
<1> QED
  BY <1>2, <1>3, <1>4, <1>5, <1>6, <1>7 DEF expiry, gap, where

-----------------------------------------------------------------------------
(* The lists.                                                              *)

\* A set of positions has a least one.
LEMMA Smallest ==
  ASSUME NEW S \in SUBSET Nat, S # {}
  PROVE  \E i \in S : \A j \in S : i <= j
<1>1. PICK x \in S : \A y \in S : ~(<<y, x>> \in OpToRel(<, Nat))
  BY NatLessThanWellFounded, WFMin
<1>2. \A y \in S : ~(y < x)
  BY <1>1 DEF OpToRel
<1> QED
  BY <1>2

\* A timer is in a list if one of its items is that timer's.
LEMMA InIs ==
  ASSUME NEW l, NEW t
  PROVE  In(l, t) <=> \E x \in Items(l) : x.timer = t
  BY DEF In, Items

\* The items of an ordered list: one for each timer, and the head is the first.
LEMMA OrderedFacts ==
  ASSUME NEW l \in Seq(Item), Ordered(l)
  PROVE  /\ Items(l) \subseteq Item
         /\ \A x, y \in Items(l) : x.timer = y.timer => x = y
         /\ l = <<>> <=> Items(l) = {}
         /\ l # <<>> =>
              /\ Head(l) \in Items(l)
              /\ \A x \in Items(l) : Head(l).time <= x.time
              /\ Tail(l) \in Seq(Item) /\ Ordered(Tail(l))
              /\ Items(l) = Items(Tail(l)) \cup {Head(l)}
              /\ \A x \in Items(Tail(l)) : x.timer # Head(l).timer
<1>1. Len(l) \in Nat /\ DOMAIN l = 1 .. Len(l) /\ \A i \in 1 .. Len(l) : l[i] \in Item
  OBVIOUS
<1>2. Items(l) \subseteq Item
  BY <1>1 DEF Items
<1>3. \A i \in 1 .. Len(l) : l[i].time \in Nat
  BY <1>1 DEF Item, Tick
<1>4. \A i, j \in 1 .. Len(l) : i < j => l[i].time <= l[j].time /\ l[i].timer # l[j].timer
  BY <1>1 DEF Ordered
<1>5. \A x, y \in Items(l) : x.timer = y.timer => x = y
  <2> SUFFICES ASSUME NEW i \in 1 .. Len(l), NEW j \in 1 .. Len(l), l[i].timer = l[j].timer
               PROVE  l[i] = l[j]
    BY <1>1 DEF Items
  <2>1. i = j
    BY <1>1, <1>4
  <2> QED
    BY <2>1
<1>6. l = <<>> <=> Items(l) = {}
  <2>1. l = <<>> => Items(l) = {}
    BY DEF Items
  <2>2. l # <<>> => 1 \in DOMAIN l
    BY <1>1
  <2> QED
    BY <2>1, <2>2 DEF Items
<1>7. ASSUME l # <<>>
      PROVE  /\ Head(l) \in Items(l)
             /\ \A x \in Items(l) : Head(l).time <= x.time
             /\ Tail(l) \in Seq(Item) /\ Ordered(Tail(l))
             /\ Items(l) = Items(Tail(l)) \cup {Head(l)}
             /\ \A x \in Items(Tail(l)) : x.timer # Head(l).timer
  <2>1. Len(l) >= 1 /\ Head(l) = l[1]
    BY <1>1, <1>7
  <2>2. /\ Tail(l) \in Seq(Item) /\ DOMAIN Tail(l) = 1 .. (Len(l) - 1)
        /\ \A i \in 1 .. (Len(l) - 1) : Tail(l)[i] = l[i + 1]
    BY <1>1, <1>7
  <2>3. Head(l) \in Items(l)
    BY <1>1, <2>1 DEF Items
  <2>4. \A i \in 1 .. Len(l) : Head(l).time <= l[i].time
    <3> SUFFICES ASSUME NEW i \in 1 .. Len(l) PROVE l[1].time <= l[i].time
      BY <2>1
    <3>1. CASE i = 1
      BY <1>3, <2>1, <3>1
    <3>2. CASE i # 1
      BY <1>4, <2>1, <3>2
    <3> QED
      BY <3>1, <3>2
  <2>5. \A x \in Items(l) : Head(l).time <= x.time
    BY <1>1, <2>4 DEF Items
  <2>6. Ordered(Tail(l))
    <3> SUFFICES ASSUME NEW i \in 1 .. (Len(l) - 1), NEW j \in 1 .. (Len(l) - 1), i < j
                 PROVE  l[i + 1].time <= l[j + 1].time /\ l[i + 1].timer # l[j + 1].timer
      BY <2>2 DEF Ordered
    <3> QED
      BY <1>1, <1>4
  <2>7. Items(l) = Items(Tail(l)) \cup {Head(l)}
    <3>1. \A i \in 1 .. (Len(l) - 1) : i + 1 \in 1 .. Len(l)
      BY <1>1
    <3>2. \A i \in 1 .. Len(l) : i = 1 \/ (i - 1 \in 1 .. (Len(l) - 1) /\ (i - 1) + 1 = i)
      BY <1>1
    <3> DEFINE tl == Tail(l)
    <3> HIDE DEF tl
    <3>3. \A x \in Items(tl) : x \in Items(l)
      BY <1>1, <2>2, <3>1 DEF Items, tl
    <3>4. ASSUME NEW x \in Items(l) PROVE x \in Items(tl) \cup {Head(l)}
      <4>1. PICK i \in 1 .. Len(l) : x = l[i]
        BY <1>1, <3>4 DEF Items
      <4>2. CASE i = 1
        BY <2>1, <4>1, <4>2
      <4>3. CASE i # 1
        BY <2>2, <3>2, <4>1, <4>3 DEF Items, tl
      <4> QED
        BY <4>2, <4>3
    <3> QED
      BY <2>3, <3>3, <3>4 DEF tl
  <2>8. \A x \in Items(Tail(l)) : x.timer # Head(l).timer
    <3> SUFFICES ASSUME NEW i \in 1 .. (Len(l) - 1) PROVE l[i + 1].timer # l[1].timer
      BY <2>1, <2>2 DEF Items
    <3> QED
      BY <1>1, <1>4, <2>1
  <2> QED
    BY <2>2, <2>3, <2>5, <2>6, <2>7, <2>8
<1> QED
  BY <1>2, <1>5, <1>6, <1>7

\* vListInsert: the item is new in the list, and the list stays ordered.
LEMMA InsertIs ==
  ASSUME NEW l \in Seq(Item), Ordered(l), NEW t \in TimerSet, NEW time \in Tick, ~In(l, t)
  PROVE  /\ Insert(l, t, time) \in Seq(Item)
         /\ Ordered(Insert(l, t, time))
         /\ Items(Insert(l, t, time)) = Items(l) \cup {[timer |-> t, time |-> time]}
<1> DEFINE e == [timer |-> t, time |-> time]
           P(n) == /\ \A i \in 1 .. n : l[i].time <= time
                   /\ n < Len(l) => l[n + 1].time > time
           m == CHOOSE n \in 0 .. Len(l) : P(n)
           a == SubSeq(l, 1, m)
           b == SubSeq(l, m + 1, Len(l))
           new == Insert(l, t, time)
<1>1. /\ Len(l) \in Nat /\ DOMAIN l = 1 .. Len(l)
      /\ \A i \in 1 .. Len(l) : l[i] \in Item /\ l[i].time \in Nat /\ l[i].timer # t
  <2>1. Len(l) \in Nat /\ DOMAIN l = 1 .. Len(l) /\ \A i \in 1 .. Len(l) : l[i] \in Item
    OBVIOUS
  <2>2. \A x \in Item : x.time \in Nat
    BY  DEF Item, Tick
  <2> QED
    BY <2>1, <2>2 DEF In
<1>2. e \in Item /\ e.timer = t /\ e.time = time /\ time \in Nat
  BY  DEF Item, Tick
<1>3. m \in 0 .. Len(l) /\ P(m)
  <2> DEFINE S == {n \in 0 .. Len(l) : n < Len(l) => l[n + 1].time > time}
  <2>1. S \in SUBSET Nat /\ Len(l) \in S
    BY <1>1
  <2>2. PICK n \in S : \A k \in S : n <= k
    BY <2>1, Smallest
  <2>3. \A i \in 1 .. n : l[i].time <= time
    <3> SUFFICES ASSUME NEW i \in 1 .. n PROVE l[i].time <= time
      OBVIOUS
    <3>1. i - 1 \in 0 .. Len(l) /\ i - 1 \notin S
      BY <1>1, <2>2
    <3>2. ~(l[(i - 1) + 1].time > time) /\ (i - 1) + 1 = i /\ i \in 1 .. Len(l)
      BY <1>1, <2>2, <3>1
    <3> QED
      BY <1>1, <1>2, <3>2
  <2>4. n \in 0 .. Len(l) /\ P(n)
    BY <2>2, <2>3
  <2> HIDE DEF P
  <2> QED
    BY <2>4
<1> HIDE DEF m
<1>4. new = a \o <<e>> \o b
  <2>1. new = InsertAt(l, m + 1, e)
    BY  DEF Insert, m
  <2>2. (m + 1) - 1 = m
    BY <1>3
  <2> QED
    BY <2>1, <2>2 DEF InsertAt
<1> HIDE DEF P
<1>5. m \in Nat /\ m <= Len(l)
  BY <1>1, <1>3
<1>6. a \in Seq(Item) /\ Len(a) = m /\ \A j \in 1 .. m : a[j] = l[j]
  BY <1>1, <1>5
<1>7. b \in Seq(Item) /\ Len(b) = Len(l) - m /\ \A j \in 1 .. (Len(l) - m) : b[j] = l[j + m]
  <2>1. \A j \in (m + 1) .. Len(l) : l[j] \in Item
    BY <1>1, <1>5
  <2>2. /\ b \in Seq(Item) /\ Len(b) = IF m + 1 <= Len(l) THEN Len(l) - (m + 1) + 1 ELSE 0
        /\ \A j \in 1 .. (Len(l) - (m + 1) + 1) : b[j] = l[(m + 1) + j - 1]
    BY <1>1, <1>5, <2>1, SubSeqProperties
  <2> HIDE DEF b
  <2>3. Len(l) - (m + 1) + 1 = Len(l) - m
    BY <1>1, <1>5
  <2>4. \A j \in 1 .. (Len(l) - m) : (m + 1) + j - 1 = j + m
    BY <1>1, <1>5
  <2>5. Len(b) = Len(l) - m
    <3>1. Len(b) = IF m + 1 <= Len(l) THEN Len(l) - (m + 1) + 1 ELSE 0
      BY <2>2, Zenon
    <3>2. Len(l) \in Nat
      OBVIOUS
    <3> DEFINE n == Len(l)
               k == Len(b)
    <3> HIDE DEF n, k
    <3>3. k = n - m
      BY <1>5, <3>1, <3>2 DEF n, k
    <3> QED
      BY <3>3 DEF n, k
  <2>6. ASSUME NEW j \in 1 .. (Len(l) - m) PROVE b[j] = l[j + m]
    <3>1. b[j] = l[(m + 1) + j - 1]
      BY <2>2, <2>3, Zenon
    <3> QED
      BY <2>4, <3>1, Zenon
  <2> QED
    BY <2>2, <2>5, <2>6
<1> HIDE DEF a, b, e, new
<1>8. <<e>> \in Seq(Item) /\ Len(<<e>>) = 1 /\ <<e>>[1] = e
  BY <1>2
<1> DEFINE c == <<e>>
<1> HIDE DEF c
<1>9. /\ a \o c \in Seq(Item) /\ Len(a \o c) = m + 1
      /\ \A j \in 1 .. m : (a \o c)[j] = l[j]
      /\ (a \o c)[m + 1] = e
  BY <1>3, <1>6, <1>8 DEF c
<1> DEFINE d == a \o c
<1> HIDE DEF d
<1>10. /\ new \in Seq(Item) /\ Len(new) = Len(l) + 1 /\ DOMAIN new = 1 .. (Len(l) + 1)
       /\ \A j \in 1 .. (m + 1) : new[j] = d[j]
       /\ \A j \in (m + 2) .. (Len(l) + 1) : new[j] = b[j - (m + 1)]
  <2> DEFINE s == d \o b
  <2>1. /\ s \in Seq(Item) /\ Len(s) = Len(d) + Len(b)
        /\ \A j \in 1 .. Len(d) : s[j] = d[j]
        /\ \A j \in (Len(d) + 1) .. (Len(d) + Len(b)) : s[j] = b[j - Len(d)]
    <3>1. d \in Seq(Item) /\ b \in Seq(Item) /\ Len(d) \in Nat /\ Len(b) \in Nat
      BY <1>7, <1>9 DEF d
    <3>2. /\ s \in Seq(Item) /\ Len(s) = Len(d) + Len(b)
          /\ \A j \in 1 .. (Len(d) + Len(b)) : s[j] = IF j <= Len(d) THEN d[j] ELSE b[j - Len(d)]
      BY <3>1, ConcatProperties
    <3> HIDE DEF s
    <3> QED
      BY <3>1, <3>2
  <2>2. new = s
    BY <1>4 DEF c, d
  <2>3. Len(d) = m + 1 /\ Len(d) + Len(b) = Len(l) + 1 /\ Len(d) + 1 = m + 2
    BY <1>1, <1>5, <1>7, <1>9 DEF d
  <2> HIDE DEF s
  <2> QED
    BY <2>1, <2>2, <2>3
<1>11. /\ \A j \in 1 .. m : new[j] = l[j]
       /\ new[m + 1] = e
       /\ \A j \in (m + 2) .. (Len(l) + 1) : new[j] = l[j - 1]
  <2>1. \A j \in 1 .. m : new[j] = l[j]
    <3>1. \A j \in 1 .. m : j \in 1 .. (m + 1) /\ d[j] = l[j]
      BY <1>5, <1>9 DEF d
    <3> QED
      BY <1>10, <3>1
  <2>2. new[m + 1] = e
    BY <1>5, <1>9, <1>10 DEF d
  <2>3. ASSUME NEW j \in (m + 2) .. (Len(l) + 1) PROVE new[j] = l[j - 1]
    <3>1. j - (m + 1) \in 1 .. (Len(l) - m) /\ (j - (m + 1)) + m = j - 1
      BY <1>1, <1>5
    <3> QED
      BY <1>7, <1>10, <3>1
  <2> QED
    BY <2>1, <2>2, <2>3
<1>12. Items(new) = Items(l) \cup {e}
  <2>1. ASSUME NEW j \in 1 .. (Len(l) + 1) PROVE new[j] \in Items(l) \cup {e}
    <3>1. j \in 1 .. m \/ j = m + 1 \/ (j \in (m + 2) .. (Len(l) + 1) /\ j - 1 \in 1 .. Len(l))
      BY <1>1, <1>5
    <3>2. j \in 1 .. m => j \in 1 .. Len(l)
      BY <1>1, <1>5
    <3> QED
      BY <1>1, <1>11, <3>1, <3>2 DEF Items
  <2>2. ASSUME NEW j \in 1 .. Len(l) PROVE l[j] \in Items(new)
    <3>1. CASE j <= m
      <4>1. j \in 1 .. m /\ j \in DOMAIN new
        BY <1>1, <1>5, <1>10, <3>1
      <4> QED
        BY <1>11, <4>1 DEF Items
    <3>2. CASE ~(j <= m)
      <4>1. j + 1 \in (m + 2) .. (Len(l) + 1) /\ j + 1 \in DOMAIN new /\ (j + 1) - 1 = j
        BY <1>1, <1>5, <1>10, <3>2
      <4> QED
        BY <1>11, <4>1 DEF Items
    <3> QED
      BY <3>1, <3>2
  <2>3. e \in Items(new)
    <3>1. m + 1 \in DOMAIN new
      BY <1>1, <1>5, <1>10
    <3> QED
      BY <1>11, <3>1 DEF Items
  <2>4. Items(new) \subseteq Items(l) \cup {e}
    BY <1>10, <2>1 DEF Items
  <2>5. Items(l) \subseteq Items(new)
    BY <1>1, <2>2 DEF Items
  <2> QED
    BY <2>3, <2>4, <2>5
<1>13. Ordered(new)
  <2> SUFFICES ASSUME NEW i \in 1 .. (Len(l) + 1), NEW j \in 1 .. (Len(l) + 1), i < j
               PROVE  new[i].time <= new[j].time /\ new[i].timer # new[j].timer
    BY <1>10 DEF Ordered
  <2>1. \A g, h \in 1 .. Len(l) : g < h => l[g].time <= l[h].time /\ l[g].timer # l[h].timer
    BY <1>1 DEF Ordered
  <2>2. \A p \in 1 .. m : l[p].time <= time
    BY <1>3 DEF P
  <2>3. \A p \in (m + 1) .. Len(l) : l[p].time > time
    <3> SUFFICES ASSUME NEW p \in (m + 1) .. Len(l) PROVE l[p].time > time
      OBVIOUS
    <3>1. m + 1 \in 1 .. Len(l) /\ p \in 1 .. Len(l) /\ m < Len(l)
      BY <1>1, <1>5
    <3>2. l[m + 1].time > time
      BY <1>3, <3>1 DEF P
    <3>3. p = m + 1 \/ l[m + 1].time <= l[p].time
      BY <1>5, <2>1, <3>1
    <3> QED
      BY <1>1, <1>2, <3>1, <3>2, <3>3
  <2>4. CASE j <= m
    <3>1. i \in 1 .. m /\ j \in 1 .. m /\ i \in 1 .. Len(l) /\ j \in 1 .. Len(l)
      BY <1>1, <1>5, <2>4
    <3> QED
      BY <1>11, <2>1, <3>1
  <2>5. CASE j = m + 1
    <3>1. i \in 1 .. m /\ i \in 1 .. Len(l)
      BY <1>1, <1>5, <2>5
    <3> QED
      BY <1>1, <1>2, <1>11, <2>2, <2>5, <3>1
  <2>6. CASE j > m + 1 /\ i <= m
    <3>1. /\ i \in 1 .. m /\ i \in 1 .. Len(l) /\ j \in (m + 2) .. (Len(l) + 1)
          /\ j - 1 \in 1 .. Len(l) /\ i < j - 1
      BY <1>1, <1>5, <2>6
    <3> QED
      BY <1>11, <2>1, <3>1
  <2>7. CASE j > m + 1 /\ i = m + 1
    <3>1. j \in (m + 2) .. (Len(l) + 1) /\ j - 1 \in 1 .. Len(l) /\ j - 1 \in (m + 1) .. Len(l)
      BY <1>1, <1>5, <2>7
    <3>2. new[i] = e /\ new[j] = l[j - 1]
      BY <1>11, <2>7, <3>1
    <3>3. l[j - 1].time > time
      BY <2>3, <3>1
    <3> QED
      BY <1>1, <1>2, <3>1, <3>2, <3>3
  <2>8. CASE j > m + 1 /\ i > m + 1
    <3>1. /\ i \in (m + 2) .. (Len(l) + 1) /\ j \in (m + 2) .. (Len(l) + 1)
          /\ i - 1 \in 1 .. Len(l) /\ j - 1 \in 1 .. Len(l) /\ i - 1 < j - 1
      BY <1>1, <1>5, <2>8
    <3> QED
      BY <1>11, <2>1, <3>1
  <2> QED
    BY <1>1, <1>5, <2>4, <2>5, <2>6, <2>7, <2>8
<1> QED
  BY <1>10, <1>12, <1>13 DEF new, e

\* RemoveAt leaves the other elements in their order.
LEMMA RemoveFacts ==
  ASSUME NEW S, NEW s \in Seq(S), NEW i \in DOMAIN s
  PROVE  /\ RemoveAt(s, i) \in Seq(S)
         /\ DOMAIN RemoveAt(s, i) = 1 .. (Len(s) - 1)
         /\ \A j \in 1 .. (Len(s) - 1) : RemoveAt(s, i)[j] = s[IF j < i THEN j ELSE j + 1]
<1> DEFINE a == SubSeq(s, 1, i - 1)
           b == SubSeq(s, i + 1, Len(s))
<1>1. i \in 1 .. Len(s) /\ Len(s) \in Nat
  OBVIOUS
<1>2. a \in Seq(S) /\ Len(a) = i - 1 /\ \A j \in 1 .. (i - 1) : a[j] = s[j]
  BY <1>1
<1>3. b \in Seq(S) /\ Len(b) = Len(s) - i /\ \A j \in 1 .. (Len(s) - i) : b[j] = s[j + i]
  BY <1>1
<1> HIDE DEF a, b
<1>4. a \o b \in Seq(S) /\ Len(a \o b) = Len(s) - 1 /\ DOMAIN (a \o b) = 1 .. (Len(s) - 1)
  BY <1>1, <1>2, <1>3
<1>5. \A j \in 1 .. (Len(s) - 1) : (a \o b)[j] = s[IF j < i THEN j ELSE j + 1]
  <2> SUFFICES ASSUME NEW j \in 1 .. (Len(s) - 1)
               PROVE  (a \o b)[j] = s[IF j < i THEN j ELSE j + 1]
    OBVIOUS
  <2>1. CASE j < i
    BY <1>1, <1>2, <1>3, <2>1
  <2>2. CASE ~(j < i)
    <3>1. (a \o b)[j] = b[j - (i - 1)]
      <4>1. \A k \in 1 .. (Len(a) + Len(b)) :
              (a \o b)[k] = IF k <= Len(a) THEN a[k] ELSE b[k - Len(a)]
        BY <1>2, <1>3, ConcatProperties
      <4>2. j \in 1 .. (Len(a) + Len(b)) /\ ~(j <= Len(a)) /\ Len(a) = i - 1
        BY <1>1, <1>2, <1>3, <2>2
      <4> QED
        BY <4>1, <4>2, Zenon
    <3>2. j - (i - 1) \in 1 .. (Len(s) - i) /\ j - (i - 1) + i = j + 1
      BY <1>1, <2>2
    <3> QED
      BY <1>3, <2>2, <3>1, <3>2
  <2> QED
    BY <2>1, <2>2
<1>6. RemoveAt(s, i) = a \o b
  BY DEF RemoveAt, a, b
<1> QED
  BY <1>4, <1>5, <1>6

\* uxListRemove: no item of the timer is left, and all others are.
LEMMA WithoutIs ==
  ASSUME NEW l \in Seq(Item), Ordered(l), NEW t
  PROVE  /\ Without(l, t) \in Seq(Item)
         /\ Ordered(Without(l, t))
         /\ Items(Without(l, t)) = {x \in Items(l) : x.timer # t}
<1>1. CASE ~In(l, t)
  <2>1. Without(l, t) = l
    BY <1>1 DEF Without
  <2>2. \A x \in Items(l) : x.timer # t
    BY <1>1, InIs
  <2> QED
    BY <2>1, <2>2
<1>2. CASE In(l, t)
  <2> DEFINE i == CHOOSE n \in DOMAIN l : l[n].timer = t
             new == RemoveAt(l, i)
  <2>1. i \in DOMAIN l /\ l[i].timer = t
    BY <1>2 DEF In
  <2>2. Without(l, t) = new
    BY <1>2 DEF Without
  <2> HIDE DEF i
  <2>3. /\ new \in Seq(Item) /\ DOMAIN new = 1 .. (Len(l) - 1)
        /\ \A j \in 1 .. (Len(l) - 1) : new[j] = l[IF j < i THEN j ELSE j + 1]
    BY <2>1, RemoveFacts
  <2> HIDE DEF new
  <2>4. Len(l) \in Nat /\ DOMAIN l = 1 .. Len(l) /\ i \in 1 .. Len(l)
    BY <2>1
  <2>5. \A g, h \in 1 .. Len(l) : g < h => l[g].time <= l[h].time /\ l[g].timer # l[h].timer
    BY <2>4 DEF Ordered
  <2>6. Ordered(new)
    <3> SUFFICES ASSUME NEW j \in 1 .. (Len(l) - 1), NEW k \in 1 .. (Len(l) - 1), j < k
                 PROVE  new[j].time <= new[k].time /\ new[j].timer # new[k].timer
      BY <2>3 DEF Ordered
    <3> DEFINE g == IF j < i THEN j ELSE j + 1
               h == IF k < i THEN k ELSE k + 1
    <3>1. g \in 1 .. Len(l) /\ h \in 1 .. Len(l) /\ g < h
      BY <2>4
    <3>2. new[j] = l[g] /\ new[k] = l[h]
      BY <2>3
    <3> HIDE DEF g, h
    <3> QED
      BY <2>5, <3>1, <3>2
  <2>7. ASSUME NEW x \in Items(new) PROVE x \in Items(l) /\ x.timer # t
    <3>1. PICK j \in 1 .. (Len(l) - 1) : x = new[j]
      BY <2>3, <2>7 DEF Items
    <3> DEFINE p == IF j < i THEN j ELSE j + 1
    <3>2. x = l[p]
      BY <2>3, <3>1
    <3>3. p \in 1 .. Len(l) /\ (p < i \/ i < p)
      BY <2>4
    <3> HIDE DEF p
    <3> QED
      BY <2>1, <2>4, <2>5, <3>2, <3>3 DEF Items
  <2>8. ASSUME NEW x \in Items(l), x.timer # t PROVE x \in Items(new)
    <3>1. PICK p \in 1 .. Len(l) : x = l[p]
      BY <2>4, <2>8 DEF Items
    <3>2. p # i
      BY <2>1, <2>8, <3>1
    <3> DEFINE j == IF p < i THEN p ELSE p - 1
    <3>3. j \in 1 .. (Len(l) - 1) /\ (IF j < i THEN j ELSE j + 1) = p
      BY <2>4, <3>2
    <3> HIDE DEF j
    <3>4. new[j] = l[p]
      BY <2>3, <3>3
    <3> QED
      BY <2>3, <3>1, <3>3, <3>4 DEF Items
  <2> QED
    BY <2>2, <2>3, <2>6, <2>7, <2>8
<1> QED
  BY <1>1, <1>2

-----------------------------------------------------------------------------
(* The queue of commands.                                                  *)

\* What is sent is in the queue after what was there.
LEMMA AppendIs ==
  ASSUME NEW S, NEW s \in Seq(S), NEW e \in S
  PROVE  /\ Append(s, e) \in Seq(S) /\ Len(Append(s, e)) = Len(s) + 1
         /\ Items(Append(s, e)) = Items(s) \cup {e}
<1> DEFINE new == Append(s, e)
<1>1. /\ new \in Seq(S) /\ Len(new) = Len(s) + 1 /\ Len(s) \in Nat
      /\ \A i \in 1 .. Len(s) : new[i] = s[i]
      /\ new[Len(s) + 1] = e
      /\ DOMAIN s = 1 .. Len(s) /\ DOMAIN new = 1 .. (Len(s) + 1)
  BY AppendProperties
<1> HIDE DEF new
<1>2. \A i \in 1 .. (Len(s) + 1) : i \in 1 .. Len(s) \/ i = Len(s) + 1
  BY <1>1
<1>3. \A i \in 1 .. Len(s) : i \in 1 .. (Len(s) + 1)
  BY <1>1
<1>4. Len(s) + 1 \in 1 .. (Len(s) + 1)
  BY <1>1
<1>5. Items(new) \subseteq Items(s) \cup {e}
  BY <1>1, <1>2, Zenon DEF Items
<1>6. Items(s) \subseteq Items(new)
  <2> SUFFICES ASSUME NEW i \in 1 .. Len(s) PROVE s[i] \in Items(new)
    BY <1>1 DEF Items
  <2>1. s[i] = new[i] /\ i \in DOMAIN new
    BY <1>1, <1>3
  <2> QED
    BY <2>1 DEF Items
<1>7. e \in Items(new)
  BY <1>1, <1>4, Zenon DEF Items
<1> QED
  BY <1>1, <1>5, <1>6, <1>7 DEF new

\* What is received was the first.
LEMMA TailIs ==
  ASSUME NEW S, NEW s \in Seq(S), s # <<>>
  PROVE  /\ Tail(s) \in Seq(S) /\ Len(Tail(s)) = Len(s) - 1 /\ Len(s) \in Nat
         /\ Head(s) \in S
         /\ Items(s) = Items(Tail(s)) \cup {Head(s)}
<1> DEFINE new == Tail(s)
<1>1. /\ new \in Seq(S) /\ Len(new) = Len(s) - 1 /\ Len(s) \in Nat /\ Len(s) >= 1
      /\ \A i \in 1 .. (Len(s) - 1) : new[i] = s[i + 1]
      /\ Head(s) = s[1] /\ Head(s) \in S
      /\ DOMAIN s = 1 .. Len(s) /\ DOMAIN new = 1 .. (Len(s) - 1)
  BY HeadTailProperties
<1> HIDE DEF new
<1>2. Items(new) \subseteq Items(s)
  <2> SUFFICES ASSUME NEW i \in 1 .. (Len(s) - 1) PROVE new[i] \in Items(s)
    BY <1>1 DEF Items
  <2>1. i + 1 \in DOMAIN s /\ new[i] = s[i + 1]
    BY <1>1
  <2> QED
    BY <2>1 DEF Items
<1>3. Head(s) \in Items(s)
  BY <1>1 DEF Items
<1>4. Items(s) \subseteq Items(new) \cup {Head(s)}
  <2> SUFFICES ASSUME NEW i \in 1 .. Len(s) PROVE s[i] \in Items(new) \cup {s[1]}
    BY <1>1 DEF Items
  <2>1. CASE i = 1
    BY <2>1
  <2>2. CASE i # 1
    <3>1. i - 1 \in DOMAIN new /\ new[i - 1] = s[(i - 1) + 1] /\ (i - 1) + 1 = i
      BY <1>1, <2>2
    <3> QED
      BY <3>1 DEF Items
  <2> QED
    BY <2>1, <2>2
<1> QED
  BY <1>1, <1>2, <1>3, <1>4 DEF new

-----------------------------------------------------------------------------
(* What follows from the invariant in a state.                             *)

\* The clock: the time read last and the ticks since then give the time now,
\* with the wrap that the daemon has not noticed.
LEMMA Clock ==
  ASSUME Types
  PROVE  /\ TickMod \in Nat /\ TickMod >= 2
         /\ MaxLate \in Nat /\ MaxAge \in Nat /\ MaxLate <= MaxAge /\ MaxAge < TickMod
         /\ tick \in Nat /\ tick < TickMod /\ last \in Nat /\ last < TickMod
         /\ late \in Nat /\ late <= MaxLate
         /\ Elapsed \in Nat /\ Elapsed < TickMod
         /\ Elapsed = IF tick < last THEN tick - last + TickMod ELSE tick - last
         /\ Wrap \in {0, TickMod}
         /\ pc # "switch" => tick + Wrap = last + Elapsed
<1>1. /\ TickMod \in Nat /\ TickMod >= 2
      /\ MaxLate \in Nat /\ MaxAge \in Nat /\ MaxLate <= MaxAge /\ MaxAge < TickMod
  BY TimersAssumption
<1>2. /\ tick \in Nat /\ tick < TickMod /\ last \in Nat /\ last < TickMod
      /\ late \in Nat /\ late <= MaxLate
  BY <1>1 DEF Types, TypeOK, Tick
<1>3. /\ Elapsed \in Tick
      /\ Elapsed = IF tick < last THEN tick - last + TickMod ELSE tick - last
  <2>1. -TickMod <= tick - last /\ tick - last < TickMod /\ tick - last \in Int
    BY <1>1, <1>2
  <2> QED
    BY <1>1, <1>2, <2>1, ModIs DEF Elapsed
<1> HIDE DEF Elapsed
<1> QED
  BY <1>1, <1>2, <1>3 DEF Wrap, Tick

\* The items: when they are due, and how far that is.
LEMMA ItemFacts ==
  ASSUME Types, ListInv, ReachInv
  PROVE  /\ Listed \subseteq Item
         /\ \A x \in Listed :
              /\ x.timer \in TimerSet /\ x.time \in Nat /\ x.time < TickMod
              /\ rem[x.timer] \in Int /\ rem[x.timer] >= -late
              /\ period[x.timer] \in Nat /\ period[x.timer] >= 1
              /\ period[x.timer] + MaxLate < TickMod
         /\ pc # "switch" => \A x \in Listed : Elapsed <= period[x.timer] - rem[x.timer]
         /\ pc = "switch" /\ last <= tick => \A x \in Listed : tick < period[x.timer] - rem[x.timer]
<1>1. Listed \subseteq Item
  BY OrderedFacts DEF Types, TypeOK, ListInv, Listed
<1>2. ASSUME NEW x \in Listed
      PROVE  /\ x.timer \in TimerSet /\ x.time \in Nat /\ x.time < TickMod
             /\ rem[x.timer] \in Int /\ rem[x.timer] >= -late
             /\ period[x.timer] \in Nat /\ period[x.timer] >= 1
             /\ period[x.timer] + MaxLate < TickMod
  <2>1. x.timer \in TimerSet /\ x.time \in Nat /\ x.time < TickMod
    BY <1>1, Clock DEF Item, Tick
  <2>2. rem[x.timer] \in Int /\ rem[x.timer] >= -late
    BY <2>1 DEF Types, ReachInv
  <2>3. /\ period[x.timer] \in Nat /\ period[x.timer] >= 1
        /\ period[x.timer] + MaxLate < TickMod
    BY <2>1, Clock DEF Types, TypeOK
  <2> QED
    BY <2>1, <2>2, <2>3
<1>3. ASSUME pc # "switch", NEW x \in Listed
      PROVE  Elapsed <= period[x.timer] - rem[x.timer]
  <2>1. /\ tick + Wrap = last + Elapsed /\ Elapsed \in Nat /\ Wrap \in Nat
        /\ tick \in Nat /\ last \in Nat /\ TickMod \in Nat
    BY <1>3, Clock
  <2>2. \/ rem[x.timer] = x.time - tick - Wrap /\ x.time <= last + period[x.timer]
        \/ /\ rem[x.timer] = x.time + TickMod - tick - Wrap
           /\ x.time + TickMod <= last + period[x.timer]
    BY <1>3 DEF ListInv, ReachInv, Listed
  <2> HIDE DEF Elapsed, Wrap
  <2> QED
    BY <1>2, <2>1, <2>2
<1>4. ASSUME pc = "switch", last <= tick, NEW x \in Listed
      PROVE  tick < period[x.timer] - rem[x.timer]
  <2>1. Wrap = TickMod
    BY <1>4 DEF Wrap
  <2>2. \/ rem[x.timer] = x.time - tick - TickMod
        \/ rem[x.timer] = x.time + TickMod - tick - TickMod /\ x.time < period[x.timer]
    BY <1>4, <2>1 DEF ListInv, ReachInv, Listed
  <2> QED
    BY <1>2, <2>2, Clock
<1> QED
  BY <1>1, <1>2, <1>3, <1>4

\* A timer that is in no list goes to one of them, or to none.
LEMMA PlaceIs ==
  ASSUME NEW C \in Seq(Item), NEW O \in Seq(Item), Ordered(C), Ordered(O),
         \A x \in Items(C), y \in Items(O) : x.timer # y.timer,
         NEW t \in TimerSet, \A x \in Items(C) \cup Items(O) : x.timer # t,
         NEW time \in Tick, NEW where \in {"now", "current", "overflow"},
         Place(where, C, O, t, time)
  PROVE  LET e == [timer |-> t, time |-> time]
         IN /\ cur' \in Seq(Item) /\ ovf' \in Seq(Item)
            /\ Ordered(cur') /\ Ordered(ovf')
            /\ \A x \in Items(cur'), y \in Items(ovf') : x.timer # y.timer
            /\ Items(cur') = Items(C) \cup (IF where = "current" THEN {e} ELSE {})
            /\ Items(ovf') = Items(O) \cup (IF where = "overflow" THEN {e} ELSE {})
<1> DEFINE e == [timer |-> t, time |-> time]
<1>1. ~In(C, t) /\ ~In(O, t)
  BY InIs
<1>2. /\ cur' \in Seq(Item) /\ Ordered(cur')
      /\ Items(cur') = Items(C) \cup (IF where = "current" THEN {e} ELSE {})
  <2>1. CASE where = "current"
    BY <1>1, <2>1, InsertIs DEF Place
  <2>2. CASE where # "current"
    BY <2>2 DEF Place
  <2> QED
    BY <2>1, <2>2
<1>3. /\ ovf' \in Seq(Item) /\ Ordered(ovf')
      /\ Items(ovf') = Items(O) \cup (IF where = "overflow" THEN {e} ELSE {})
  <2>1. CASE where = "overflow"
    BY <1>1, <2>1, InsertIs DEF Place
  <2>2. CASE where # "overflow"
    BY <2>2 DEF Place
  <2> QED
    BY <2>1, <2>2
<1>4. e.timer = t
  OBVIOUS
<1>5. \A x \in Items(cur'), y \in Items(ovf') : x.timer # y.timer
  BY <1>2, <1>3, <1>4
<1> QED
  BY <1>2, <1>3, <1>5

\* The daemon sends itself the next start, or the timer does not run any more.
LEMMA RestartIs ==
  ASSUME Types, CmdInv, NEW t \in TimerSet, NEW c \in Tick, NEW a \in 0 .. MaxAge,
         (c + a) % TickMod = tick, Restart(t, c, a)
  PROVE  /\ q' \in Seq(Cmd) /\ Len(q') <= QueueLength
         /\ Items(q) \subseteq Items(q') /\ \A m \in Items(q') : Sound(m)
         /\ \/ run' = run \cup {t} /\ \E m \in Items(q') : m.cmd = "restart" /\ m.timer = t
            \/ run' = run \ {t}
<1> DEFINE m == [cmd |-> "restart", timer |-> t, val |-> c, age |-> a]
<1>1. m \in Cmd /\ m.cmd = "restart" /\ m.timer = t /\ m.val = c /\ m.age = a
  BY DEF Cmd
<1>2. Sound(m)
  BY <1>1 DEF Sound, SoundAt
<1>3. q \in Seq(Cmd) /\ Len(q) <= QueueLength /\ \A n \in Items(q) : Sound(n)
  BY DEF Types, TypeOK, CmdInv
<1>4. CASE Len(q) < QueueLength
  <2>1. q' = Append(q, m) /\ run' = run \cup {t}
    BY <1>4 DEF Restart
  <2>2. QueueLength \in Nat /\ Len(q) \in Nat
    BY <1>3, TimersAssumption
  <2> HIDE DEF m
  <2>3. q' \in Seq(Cmd) /\ Len(q') = Len(q) + 1 /\ Items(q') = Items(q) \cup {m}
    BY <1>1, <1>3, <2>1, AppendIs
  <2>4. Len(q') <= QueueLength
    BY <1>4, <2>2, <2>3
  <2> QED
    BY <1>1, <1>2, <1>3, <2>1, <2>3, <2>4
<1>5. CASE ~(Len(q) < QueueLength)
  BY <1>3, <1>5 DEF Restart
<1> QED
  BY <1>4, <1>5

\* What is sent is sound while time stands.
LEMMA CmdKept ==
  ASSUME CmdInv, tick' = tick, ask' = ask, \A m \in Items(q') : Sound(m),
         msg' = Null \/ msg' = msg,
         pc' \in {"sample", "apply"} => msg' # Null,
         pc' \notin {"sample", "switch", "apply"} => msg' = Null
  PROVE  CmdInv'
<1>1. \A m \in Items(q') : Sound(m)'
  BY DEF Sound, SoundAt
<1>2. ask' # Null => Sound(ask)'
  BY DEF CmdInv, Sound, SoundAt
<1>3. msg' # Null => Sound(msg)' /\ msg'.cmd # "pend"
  BY DEF CmdInv, Sound, SoundAt
<1> QED
  BY <1>1, <1>2, <1>3, Zenon DEF CmdInv

\* A step that moves neither time nor an item leaves what is known of the lists.
LEMMA StillLists ==
  ASSUME ListInv, ReachInv, UNCHANGED <<tick, last, cur, ovf, rem, run, period, late>>,
         pc = "switch" <=> pc' = "switch"
  PROVE  ListInv' /\ ReachInv' /\ Elapsed' = Elapsed /\ Listed' = Listed
<1>1. Wrap' = Wrap /\ Listed' = Listed /\ Elapsed' = Elapsed
  BY DEF Wrap, Listed, Elapsed
<1> QED
  BY <1>1 DEF ListInv, ReachInv

-----------------------------------------------------------------------------
(* One step of the daemon.                                                 *)

\* prvProcessExpiredTimer fires the head, which is due, and puts an auto-reload
\* timer where its next time belongs, or starts it again if that has passed.
LEMMA ExpireStep ==
  ASSUME TInv, prvProcessExpiredTimer
  PROVE  TInv'
<1> DEFINE t     == Head(cur).timer
           next  == Head(cur).time
           again == (next + period[t]) % TickMod
           where == prvInsertTimerInActiveList(again, last, next, period[t])
<1> USE DEF TInv
<1>1. /\ pc = "expire" /\ pc' = "commands" /\ msg = Null
      /\ UNCHANGED <<tick, auto, period, freed, last, msg, left, clientVars, late>>
      /\ early' = IF rem[t] > 0 THEN early \cup {t} ELSE early
  BY DEF prvProcessExpiredTimer, CmdInv, Fired
<1>2. /\ cur \in Seq(Item) /\ ovf \in Seq(Item) /\ Ordered(cur) /\ Ordered(ovf) /\ cur # <<>>
      /\ next <= last
  BY <1>1 DEF Types, TypeOK, ListInv, PlaceInv
<1>3. /\ Head(cur) \in Items(cur)
      /\ Tail(cur) \in Seq(Item) /\ Ordered(Tail(cur))
      /\ Items(cur) = Items(Tail(cur)) \cup {Head(cur)}
      /\ \A x \in Items(Tail(cur)) : x.timer # t
  BY <1>2, OrderedFacts
<1>4. \A x \in Items(ovf) : x.timer # t
  BY <1>3 DEF ListInv
<1>5. /\ t \in TimerSet /\ next \in Tick /\ period[t] \in 1 .. TickMod - 1
      /\ rem[t] \in Int /\ rem[t] >= -late /\ period[t] + MaxLate < TickMod
  <2>1. Head(cur) \in Listed
    BY <1>3 DEF Listed
  <2>2. Head(cur) \in Item
    BY <2>1, ItemFacts
  <2> QED
    BY <2>1, <2>2, ItemFacts DEF Item, Types, TypeOK
<1>6. rem[t] = next - tick - Wrap
  BY <1>3 DEF ListInv
<1>7. rem[t] <= 0 /\ Wrap' = Wrap /\ Elapsed' = Elapsed
  <2>1. tick + Wrap = last + Elapsed /\ Elapsed \in Nat /\ Wrap \in {0, TickMod}
    BY <1>1, Clock
  <2>2. Wrap' = Wrap /\ Elapsed' = Elapsed
    BY <1>1 DEF Wrap, Elapsed
  <2>3. next \in Int /\ last \in Int /\ tick \in Int
    BY <1>5, Clock DEF Tick
  <2> DEFINE r == rem[t]
             n == next
  <2>4. r = n - tick - Wrap /\ n <= last /\ n \in Int
    BY <1>2, <1>6, <2>3
  <2> HIDE DEF Elapsed, Wrap, r, n
  <2>5. r <= 0
    BY <2>1, <2>3, <2>4
  <2> QED
    BY <2>2, <2>5 DEF r
<1>8. early' = {}
  BY <1>1, <1>5, <1>7 DEF Types
<1>9. \A x \in Items(Tail(cur)) \cup Items(ovf) : x \in Listed /\ x.timer # t
  BY <1>3, <1>4 DEF Listed
<1>10. \A x \in Items(Tail(cur)), y \in Items(ovf) : x.timer # y.timer
  BY <1>3 DEF ListInv
<1> HIDE DEF t, next, again, where
<1>11. CASE t \in auto
  <2>1. /\ Place(where, Tail(cur), ovf, t, again)
        /\ rem' = [rem EXCEPT ![t] = @ + period[t]]
        /\ IF where = "now" THEN Restart(t, next, -rem[t]) ELSE UNCHANGED <<q, run>>
        /\ active' = active
    BY <1>11 DEF prvProcessExpiredTimer, t, next, again, where
  <2> DEFINE gap == (last - next) % TickMod
             e   == [timer |-> t, time |-> again]
  <2>2. /\ again \in Tick /\ gap \in Tick /\ where \in {"now", "current", "overflow"}
        /\ where = "current" => again - last = period[t] - gap
        /\ where = "overflow" => again + TickMod - last = period[t] - gap
    BY <1>5, WhereIs DEF Types, TypeOK, again, where
  <2>3. gap = last - next
    <3>1. last \in Nat /\ last < TickMod /\ TickMod \in Nat /\ next \in Nat
      BY <1>5, Clock DEF Tick
    <3>2. /\ last - next \in Int /\ last - next >= 0
          /\ -TickMod <= last - next /\ last - next < TickMod
      BY <1>2, <3>1 DEF next
    <3> QED
      BY <3>1, <3>2, ModIs
  <2> HIDE DEF gap, e
  <2>4. /\ cur' \in Seq(Item) /\ ovf' \in Seq(Item) /\ Ordered(cur') /\ Ordered(ovf')
        /\ \A x \in Items(cur'), y \in Items(ovf') : x.timer # y.timer
        /\ Items(cur') = Items(Tail(cur)) \cup (IF where = "current" THEN {e} ELSE {})
        /\ Items(ovf') = Items(ovf) \cup (IF where = "overflow" THEN {e} ELSE {})
    <3> DEFINE C == Tail(cur)
    <3>1. \A x \in Items(C) \cup Items(ovf) : x.timer # t
      BY <1>9
    <3>2. \A x \in Items(C), y \in Items(ovf) : x.timer # y.timer
      BY <1>10
    <3>3. C \in Seq(Item) /\ Ordered(C) /\ Place(where, C, ovf, t, again)
      BY <1>3, <2>1
    <3> HIDE DEF C
    <3>4. /\ cur' \in Seq(Item) /\ ovf' \in Seq(Item) /\ Ordered(cur') /\ Ordered(ovf')
          /\ \A x \in Items(cur'), y \in Items(ovf') : x.timer # y.timer
          /\ Items(cur') = Items(C) \cup (IF where = "current" THEN {e} ELSE {})
          /\ Items(ovf') = Items(ovf) \cup (IF where = "overflow" THEN {e} ELSE {})
      BY <1>2, <1>5, <2>2, <3>1, <3>2, <3>3, PlaceIs DEF e
    <3> QED
      BY <3>4 DEF C
  <2>5. /\ rem' \in [TimerSet -> Int] /\ rem'[t] = rem[t] + period[t]
        /\ \A u \in TimerSet : u # t => rem'[u] = rem[u]
    BY <1>5, <2>1 DEF Types
  <2>6. /\ q' \in Seq(Cmd) /\ Len(q') <= QueueLength
        /\ Items(q) \subseteq Items(q') /\ \A m \in Items(q') : Sound(m)
        /\ run \ {t} \subseteq run' /\ run' \subseteq TimerSet
        /\ where = "now" /\ t \in run' => \E m \in Items(q') : m.cmd = "restart" /\ m.timer = t
        /\ where # "now" => run' = run
        /\ \A u \in run' : u = t \/ u \in run
    <3>1. CASE where = "now"
      <4>1. -rem[t] \in 0 .. MaxAge
        BY <1>5, <1>7, Clock
      <4>2. (next + (-rem[t])) % TickMod = tick
        <5>1. next + (-rem[t]) = tick + Wrap /\ next \in Nat
          BY <1>5, <1>6, Clock DEF Tick, next
        <5> QED
          BY <5>1, Clock, ModIs
      <4>3. Restart(t, next, -rem[t])
        BY <2>1, <3>1
      <4> QED
        BY <1>5, <3>1, <4>1, <4>2, <4>3, RestartIs DEF Types
    <3>2. CASE where # "now"
      BY <2>1, <3>2 DEF Types, TypeOK, CmdInv
    <3> QED
      BY <3>1, <3>2
  <2>7. e.timer = t /\ e.time = again /\ e \in Item
    BY <1>5, <2>2 DEF e, Item
  <2>8. Types'
    BY <1>1, <1>8, <2>1, <2>4, <2>5, <2>6 DEF Types, TypeOK, clientVars
  <2>9. CmdInv'
    BY <1>1, <2>6, CmdKept DEF clientVars
  <2>10. \A x \in Listed' : (x = e /\ where # "now") \/ (x \in Listed /\ x.timer # t)
    <3>1. ASSUME NEW x \in Items(cur')
          PROVE  (x = e /\ where # "now") \/ x \in Items(Tail(cur))
      BY <2>4
    <3>2. ASSUME NEW x \in Items(ovf')
          PROVE  (x = e /\ where # "now") \/ x \in Items(ovf)
      BY <2>4
    <3>3. \A x \in Listed' : x \in Items(cur') \/ x \in Items(ovf')
      BY DEF Listed
    <3> QED
      BY <1>9, <3>1, <3>2, <3>3, Zenon
  <2>11. \A x \in Listed : x.timer \in TimerSet /\ x.time \in Nat
    BY ItemFacts
  <2>12. /\ where = "current" => rem'[t] = again - tick - Wrap
         /\ where = "overflow" => rem'[t] = again + TickMod - tick - Wrap
         /\ where = "current" => again <= last + period[t]
         /\ where = "overflow" => again + TickMod <= last + period[t]
    BY <1>5, <1>6, <2>2, <2>3, <2>5, Clock DEF Tick, next
  <2>13. ListInv'
    <3>1. \A x \in Items(cur') : rem'[x.timer] = x.time - tick - Wrap
      BY <1>3, <1>9, <2>4, <2>5, <2>7, <2>11, <2>12 DEF ListInv
    <3>2. \A x \in Items(ovf') : rem'[x.timer] = x.time + TickMod - tick - Wrap
      BY <1>9, <2>4, <2>5, <2>7, <2>11, <2>12 DEF ListInv
    <3>3. \A x \in Listed' : x.timer \in run'
      <4>1. t \in run
        BY <1>3 DEF ListInv, Listed, t
      <4> QED
        BY <2>6, <2>7, <2>10, <4>1 DEF ListInv
    <3> HIDE DEF Listed
    <3> QED
      BY <1>1, <1>7, <2>4, <3>1, <3>2, <3>3 DEF ListInv
  <2>14. ReachInv'
    <3>1. \A x \in Listed' : rem'[x.timer] >= -late
      BY <1>5, <2>5, <2>7, <2>10, <2>11, Clock DEF ReachInv
    <3>2. \A x \in Items(cur') : x.time <= last + period[x.timer]
      BY <1>1, <1>3, <2>4, <2>7, <2>12 DEF ReachInv
    <3>3. \A x \in Items(ovf') : x.time + TickMod <= last + period[x.timer]
      BY <1>1, <2>4, <2>7, <2>12 DEF ReachInv
    <3> QED
      BY <1>1, <3>1, <3>2, <3>3 DEF ReachInv
  <2>15. PlaceInv' /\ SleepInv'
    BY <1>1 DEF PlaceInv, SleepInv, Busy
  <2>16. KeptInv'
    <3> SUFFICES ASSUME NEW u \in run'
                 PROVE  \/ \E x \in Listed' : x.timer = u
                        \/ \E m \in Items(q') : m.cmd = "restart" /\ m.timer = u
      BY DEF KeptInv
    <3>1. CASE u = t
      <4>1. where # "now" => e \in Listed'
        BY <2>2, <2>4 DEF Listed
      <4> QED
        BY <2>6, <2>7, <3>1, <4>1
    <3>2. CASE u # t
      <4>1. \/ \E x \in Listed : x.timer = u
            \/ \E m \in Items(q) : m.cmd = "restart" /\ m.timer = u
        BY <1>1, <2>6, <3>2 DEF KeptInv
      <4>2. \A x \in Listed : x.timer # t => x \in Listed'
        BY <1>3, <2>4 DEF Listed, t
      <4> QED
        BY <2>6, <3>2, <4>1, <4>2
    <3> QED
      BY <3>1, <3>2
  <2> QED
    BY <2>8, <2>9, <2>13, <2>14, <2>15, <2>16
<1>12. CASE t \notin auto
  <2>1. /\ cur' = Tail(cur) /\ active' = active \ {t}
        /\ run' = run \ {t} /\ rem' = [rem EXCEPT ![t] = 0]
        /\ UNCHANGED <<ovf, q>>
    BY <1>12 DEF prvProcessExpiredTimer, t
  <2>2. /\ rem' \in [TimerSet -> Int]
        /\ \A u \in TimerSet : u # t => rem'[u] = rem[u]
    BY <1>5, <2>1 DEF Types
  <2>3. Types'
    BY <1>1, <1>3, <1>8, <2>1, <2>2 DEF Types, TypeOK, clientVars
  <2>4. CmdInv'
    BY <1>1, <2>1, CmdKept DEF CmdInv, clientVars
  <2>5. \A x \in Listed' : x \in Listed /\ x.timer # t /\ x.timer \in TimerSet
    BY <1>9, <2>1, ItemFacts DEF Listed
  <2>6. ListInv'
    <3>1. \A x \in Items(cur') : rem'[x.timer] = x.time - tick - Wrap
      BY <1>3, <2>1, <2>2, <2>5 DEF ListInv, Listed
    <3>2. \A x \in Items(ovf') : rem'[x.timer] = x.time + TickMod - tick - Wrap
      BY <2>1, <2>2, <2>5 DEF ListInv, Listed
    <3>3. \A x \in Listed' : x.timer \in run'
      BY <2>1, <2>5 DEF ListInv
    <3> HIDE DEF Listed
    <3> QED
      BY <1>1, <1>2, <1>3, <1>7, <1>10, <2>1, <3>1, <3>2, <3>3 DEF ListInv
  <2>7. ReachInv'
    <3>1. \A x \in Listed' : rem'[x.timer] >= -late
      BY <2>2, <2>5 DEF ReachInv
    <3> QED
      BY <1>1, <1>3, <2>1, <3>1 DEF ReachInv
  <2>8. PlaceInv' /\ SleepInv'
    BY <1>1 DEF PlaceInv, SleepInv, Busy
  <2>9. KeptInv'
    <3>1. \A x \in Listed : x.timer # t => x \in Listed'
      BY <1>3, <2>1 DEF Listed, t
    <3> QED
      BY <1>1, <2>1, <3>1 DEF KeptInv
  <2> QED
    BY <2>3, <2>4, <2>6, <2>7, <2>8, <2>9
<1> QED
  BY <1>11, <1>12

\* prvSwitchTimerLists fires what is left in the current list, one timer a step.
LEMMA SwitchStep ==
  ASSUME TInv, prvSwitchTimerLists
  PROVE  TInv'
<1> DEFINE t      == Head(cur).timer
           next   == Head(cur).time
           reload == (next + period[t]) % TickMod
           e      == [timer |-> t, time |-> reload]
<1> USE DEF TInv
<1>1. /\ pc = "switch" /\ cur # <<>>
      /\ UNCHANGED <<tick, ovf, timerVars, pc, last, msg, left, clientVars, late>>
      /\ early' = IF rem[t] > 0 THEN early \cup {t} ELSE early
      /\ rem' = [rem EXCEPT ![t] = IF t \in auto THEN @ + period[t] ELSE 0]
      /\ \/ /\ t \in auto /\ reload > next /\ cur' = Insert(Tail(cur), t, reload)
            /\ UNCHANGED <<q, run>>
         \/ t \in auto /\ reload <= next /\ Restart(t, next, -rem[t]) /\ cur' = Tail(cur)
         \/ t \notin auto /\ run' = run \ {t} /\ cur' = Tail(cur) /\ UNCHANGED q
  BY DEF prvSwitchTimerLists, Fired
<1>2. cur \in Seq(Item) /\ ovf \in Seq(Item) /\ Ordered(cur) /\ Ordered(ovf)
  BY DEF Types, TypeOK, ListInv
<1>3. /\ Head(cur) \in Items(cur)
      /\ Tail(cur) \in Seq(Item) /\ Ordered(Tail(cur))
      /\ Items(cur) = Items(Tail(cur)) \cup {Head(cur)}
      /\ \A x \in Items(Tail(cur)) : x.timer # t
  BY <1>1, <1>2, OrderedFacts
<1>4. \A x \in Items(ovf) : x.timer # t
  BY <1>3 DEF ListInv
<1>5. /\ t \in TimerSet /\ next \in Tick /\ period[t] \in 1 .. TickMod - 1
      /\ rem[t] \in Int /\ rem[t] >= -late /\ period[t] + MaxLate < TickMod
  <2>1. Head(cur) \in Listed
    BY <1>3 DEF Listed
  <2>2. Head(cur) \in Item
    BY <2>1, ItemFacts
  <2> QED
    BY <2>1, <2>2, ItemFacts DEF Item, Types, TypeOK
<1>6. Wrap = TickMod /\ Wrap' = TickMod /\ Elapsed' = Elapsed /\ rem[t] = next - tick - TickMod
  <2>1. Wrap = TickMod /\ Wrap' = TickMod /\ Elapsed' = Elapsed
    BY <1>1 DEF Wrap, Elapsed
  <2> QED
    BY <1>3, <2>1 DEF ListInv
<1>7. early' = {} /\ -rem[t] \in 0 .. MaxAge
  <2> DEFINE r == rem[t]
             n == next
  <2>1. n \in Nat /\ n < TickMod /\ r = n - tick - TickMod
    BY <1>5, <1>6, Clock DEF Tick
  <2>2. r \in Int /\ r >= -late /\ late \in Nat /\ late <= MaxAge /\ MaxAge \in Nat
    BY <1>5, Clock
  <2>3. early' = IF r > 0 THEN early \cup {t} ELSE early
    BY <1>1
  <2> HIDE DEF r, n
  <2>4. r <= 0
    BY <2>1, Clock
  <2>5. ~(r > 0) /\ -r \in 0 .. MaxAge
    BY <2>2, <2>4
  <2>6. early' = {}
    BY <2>3, <2>5 DEF Types
  <2> QED
    BY <2>5, <2>6 DEF r
<1>8. last <= tick
  <2>1. Listed # {}
    BY <1>3 DEF Listed
  <2> QED
    BY <1>1, <2>1 DEF PlaceInv
<1>9. \A x \in Items(Tail(cur)) \cup Items(ovf) : x \in Listed /\ x.timer # t
  BY <1>3, <1>4 DEF Listed
<1>10. \A x \in Items(Tail(cur)), y \in Items(ovf) : x.timer # y.timer
  BY <1>3 DEF ListInv
<1>11. \A x \in Listed : x.timer # t => x \in Items(Tail(cur)) \cup Items(ovf)
  BY <1>3 DEF Listed
<1>12. t \in run
  BY <1>3 DEF ListInv, Listed
<1> HIDE DEF t, next, reload, e
<1>13. e.timer = t /\ e.time = reload
  BY DEF e
<1>14. /\ rem' \in [TimerSet -> Int]
       /\ \A u \in TimerSet : u # t => rem'[u] = rem[u]
       /\ t \in auto => rem'[t] = rem[t] + period[t]
  BY <1>1, <1>5 DEF Types
\* The three cases have this in common.
<1>15. /\ cur' \in Seq(Item) /\ Ordered(cur')
       /\ \/ Items(cur') = Items(Tail(cur))
          \/ /\ Items(cur') = Items(Tail(cur)) \cup {e} /\ run' = run
             /\ rem'[t] = reload - tick - TickMod /\ rem'[t] >= -late
       /\ q' \in Seq(Cmd) /\ Len(q') <= QueueLength
       /\ Items(q) \subseteq Items(q') /\ \A m \in Items(q') : Sound(m)
       /\ run' \subseteq run /\ run \ {t} \subseteq run'
       /\ t \in run' => e \in Items(cur') \/ \E m \in Items(q') : m.cmd = "restart" /\ m.timer = t
  <2>1. CASE /\ t \in auto /\ reload > next /\ cur' = Insert(Tail(cur), t, reload)
             /\ UNCHANGED <<q, run>>
    <3>1. reload \in Tick /\ reload = next + period[t]
      <4>1. /\ next \in Nat /\ next < TickMod /\ period[t] \in Nat /\ period[t] < TickMod
            /\ TickMod \in Nat
        BY <1>5, Clock DEF Tick
      <4>2. /\ reload \in Tick
            /\ reload = IF next + period[t] < TickMod THEN next + period[t]
                        ELSE next + period[t] - TickMod
        BY <4>1, ModIs DEF reload
      <4> QED
        BY <2>1, <4>1, <4>2
    <3>2. ~In(Tail(cur), t)
      BY <1>3, InIs DEF t
    <3>3. cur' \in Seq(Item) /\ Ordered(cur') /\ Items(cur') = Items(Tail(cur)) \cup {e}
      BY <1>3, <1>5, <2>1, <3>1, <3>2, InsertIs DEF e
    <3>4. rem'[t] = reload - tick - TickMod /\ rem'[t] >= -late
      BY <1>5, <1>6, <1>14, <2>1, <3>1, Clock DEF Tick
    <3> QED
      BY <2>1, <3>3, <3>4 DEF Types, TypeOK, CmdInv
  <2>2. CASE t \in auto /\ reload <= next /\ Restart(t, next, -rem[t]) /\ cur' = Tail(cur)
    <3>1. (next + (-rem[t])) % TickMod = tick
      <4>1. next + (-rem[t]) = tick + TickMod /\ next \in Nat
        BY <1>5, <1>6, Clock DEF Tick
      <4> QED
        BY <4>1, Clock, ModIs
    <3>2. /\ q' \in Seq(Cmd) /\ Len(q') <= QueueLength
          /\ Items(q) \subseteq Items(q') /\ \A m \in Items(q') : Sound(m)
          /\ \/ run' = run \cup {t} /\ \E m \in Items(q') : m.cmd = "restart" /\ m.timer = t
             \/ run' = run \ {t}
      BY <1>5, <1>7, <2>2, <3>1, RestartIs
    <3> QED
      BY <1>3, <1>12, <2>2, <3>2
  <2>3. CASE t \notin auto /\ run' = run \ {t} /\ cur' = Tail(cur) /\ UNCHANGED q
    BY <1>3, <2>3 DEF Types, TypeOK, CmdInv
  <2> QED
    BY <1>1, <2>1, <2>2, <2>3 DEF t, next, reload
<1>16. ASSUME NEW x \in Items(cur')
       PROVE  x \in Items(Tail(cur)) \/ (x = e /\ rem'[t] = reload - tick - TickMod
                                               /\ run' = run /\ rem'[t] >= -late)
  BY <1>15
<1>17. ASSUME NEW x \in Listed'
       PROVE  /\ x.timer = t \/ (x \in Listed /\ x.timer # t /\ x.timer \in TimerSet)
              /\ rem'[x.timer] >= -late /\ x.timer \in run'
  <2>1. CASE x \in Items(Tail(cur)) \cup Items(ovf)
    <3>1. x \in Listed /\ x.timer # t /\ x.timer \in TimerSet
      BY <1>9, <2>1, ItemFacts
    <3> QED
      BY <1>14, <1>15, <3>1 DEF ReachInv, ListInv
  <2>2. CASE x \notin Items(Tail(cur)) \cup Items(ovf)
    <3>1. x \in Items(cur')
      BY <1>1, <2>2 DEF Listed
    <3> QED
      BY <1>12, <1>13, <1>16, <2>2, <3>1
  <2> QED
    BY <2>1, <2>2
<1>18. Types'
  BY <1>1, <1>7, <1>14, <1>15 DEF Types, TypeOK, timerVars, clientVars
<1>19. CmdInv'
  BY <1>1, <1>15, CmdKept DEF CmdInv, clientVars
<1>20. ListInv'
  <2>1. \A x \in Items(cur'), y \in Items(ovf') : x.timer # y.timer
    BY <1>1, <1>4, <1>10, <1>13, <1>16
  <2>2. \A x \in Items(cur') : rem'[x.timer] = x.time - tick - TickMod
    <3> SUFFICES ASSUME NEW x \in Items(cur') PROVE rem'[x.timer] = x.time - tick - TickMod
      OBVIOUS
    <3>1. CASE x \in Items(Tail(cur))
      <4>1. x \in Items(cur) /\ x.timer \in TimerSet /\ x.timer # t
        BY <1>3, <1>9, <3>1, ItemFacts
      <4> QED
        BY <1>6, <1>14, <4>1 DEF ListInv
    <3> QED
      BY <1>13, <1>16, <3>1
  <2>3. \A x \in Items(ovf') : rem'[x.timer] = x.time + TickMod - tick - TickMod
    <3> SUFFICES ASSUME NEW x \in Items(ovf)
                 PROVE  rem'[x.timer] = x.time + TickMod - tick - TickMod
      BY <1>1
    <3>1. x.timer \in TimerSet /\ x.timer # t
      BY <1>9, ItemFacts
    <3> QED
      BY <1>6, <1>14, <3>1 DEF ListInv
  <2>4. \A x \in Listed' : x.timer \in run'
    BY <1>17
  <2> HIDE DEF Listed
  <2> QED
    BY <1>1, <1>2, <1>6, <1>15, <2>1, <2>2, <2>3, <2>4 DEF ListInv
<1>21. ReachInv'
  BY <1>1, <1>17 DEF ReachInv, timerVars
<1>22. PlaceInv'
  <2>1. msg # Null => \A x \in Listed' : x.timer # msg.timer
    <3>1. msg # Null => t # msg.timer
      BY <1>1, <1>3 DEF PlaceInv, Listed, t
    <3> QED
      BY <1>1, <1>17, <3>1 DEF PlaceInv
  <2> QED
    BY <1>1, <1>6, <1>8, <2>1 DEF PlaceInv
<1>23. SleepInv'
  BY <1>1 DEF SleepInv, Busy
<1>24. KeptInv'
  <2> SUFFICES ASSUME NEW u \in run'
               PROVE  \/ \E x \in Listed' : x.timer = u
                      \/ \E m \in Items(q') : m.cmd = "restart" /\ m.timer = u
                      \/ msg # Null /\ msg.timer = u
    BY <1>1 DEF KeptInv
  <2>1. Items(Tail(cur)) \cup Items(ovf) \subseteq Listed'
    BY <1>1, <1>15 DEF Listed
  <2>2. CASE u = t
    BY <1>13, <1>15, <2>2 DEF Listed
  <2>3. CASE u # t
    BY <1>11, <1>15, <2>1, <2>3 DEF KeptInv
  <2> QED
    BY <2>2, <2>3
<1> QED
  BY <1>18, <1>19, <1>20, <1>21, <1>22, <1>23, <1>24

\* The lists change places: what is left was behind the wrap.
LEMMA SwitchDoneStep ==
  ASSUME TInv, SwitchDone
  PROVE  TInv'
<1> USE DEF TInv
<1>1. /\ pc = "switch" /\ cur = <<>> /\ cur' = ovf /\ ovf' = <<>>
      /\ pc' = IF msg = Null THEN "commands" ELSE "apply"
      /\ UNCHANGED <<tick, timerVars, q, last, msg, left, clientVars, late, ghosts>>
  BY DEF SwitchDone
<1>2. /\ Items(cur) = {} /\ Items(ovf') = {} /\ Items(cur') = Items(ovf)
      /\ Listed = Items(ovf) /\ Listed' = Items(ovf)
  BY <1>1 DEF Items, Listed
<1>3. Types'
  BY <1>1 DEF Types, TypeOK, timerVars, clientVars, ghosts
<1>4. CmdInv'
  BY <1>1, CmdKept DEF CmdInv, clientVars
<1>5. /\ Wrap = TickMod /\ Elapsed' = Elapsed
      /\ Items(ovf) # {} => Wrap' = 0 /\ last <= tick
  <2>1. Items(ovf) # {} => last <= tick
    BY <1>1, <1>2 DEF PlaceInv
  <2>2. Wrap = TickMod /\ Elapsed' = Elapsed /\ (last <= tick => Wrap' = 0)
    BY <1>1, Clock DEF Wrap, Elapsed
  <2> QED
    BY <2>1, <2>2
<1>6. ListInv'
  <2>1. \A x \in Items(ovf) : rem[x.timer] = x.time - tick - 0
    <3> SUFFICES ASSUME NEW x \in Items(ovf) PROVE rem[x.timer] = x.time - tick
      BY <1>2, ItemFacts, Clock
    <3>1. x.time \in Nat /\ rem[x.timer] = x.time + TickMod - tick - TickMod
      BY <1>2, <1>5, ItemFacts DEF ListInv
    <3> QED
      BY <3>1, Clock
  <2>2. Ordered(cur') /\ Ordered(ovf')
    BY <1>1 DEF ListInv, Ordered
  <2>3. run' = run /\ rem' = rem /\ tick' = tick
    BY <1>1 DEF ghosts
  <2> QED
    BY <1>2, <1>5, <2>1, <2>2, <2>3 DEF ListInv
<1>7. ReachInv'
  <2>1. \A x \in Items(ovf) : x.time <= last + period[x.timer]
    <3> SUFFICES ASSUME NEW x \in Items(ovf) PROVE x.time <= last + period[x.timer]
      OBVIOUS
    <3>1. x.time < period[x.timer] /\ x.time \in Nat /\ period[x.timer] \in Nat
      BY <1>1, <1>2, ItemFacts DEF ReachInv
    <3> QED
      BY <3>1, Clock
  <2> QED
    BY <1>1, <1>2, <2>1 DEF ReachInv, timerVars, ghosts
<1>8. PlaceInv' /\ SleepInv'
  BY <1>1, <1>2, <1>5 DEF PlaceInv, SleepInv, Busy
<1>9. KeptInv'
  BY <1>1, <1>2 DEF KeptInv, ghosts
<1> QED
  BY <1>3, <1>4, <1>6, <1>7, <1>8, <1>9


\* The daemon reads the time: from then on items lie behind or ahead of the new
\* time, and a wrap is noticed.
LEMMA ReadTime ==
  ASSUME Types, ListInv, ReachInv, pc # "switch", last' = tick,
         UNCHANGED <<tick, rem, run, period>>,
         Ordered(cur'), Ordered(ovf'),
         Items(cur') \subseteq Items(cur), Items(ovf') \subseteq Items(ovf),
         pc' = "switch" <=> tick < last,
         \A x \in Listed' : rem[x.timer] >= -late'
  PROVE  ListInv' /\ ReachInv' /\ Elapsed' = 0 /\ Wrap' = Wrap
<1>1. Wrap' = Wrap
  BY Clock DEF Wrap
<1>2. Elapsed' = 0
  <2>1. tick - tick = 0 /\ 0 % TickMod = 0
    BY Clock
  <2> QED
    BY <2>1 DEF Elapsed
<1>3. Listed' \subseteq Listed
  BY DEF Listed
<1>4. ListInv'
  <2> HIDE DEF Wrap, Listed
  <2> QED
    BY <1>1, <1>3 DEF ListInv
<1>5. ASSUME NEW x \in Items(cur')
      PROVE  pc' # "switch" => x.time <= tick + period[x.timer]
  <2>1. x \in Listed /\ x.time <= last + period[x.timer]
    BY DEF ReachInv, Listed
  <2> QED
    BY <2>1, Clock, ItemFacts
<1>6. ASSUME NEW x \in Items(ovf')
      PROVE  /\ pc' # "switch" => x.time + TickMod <= tick + period[x.timer]
             /\ pc' = "switch" => x.time < period[x.timer]
  <2>1. x \in Listed /\ x.time + TickMod <= last + period[x.timer]
    BY DEF ReachInv, Listed
  <2> QED
    BY <2>1, Clock, ItemFacts
<1>7. ReachInv'
  BY <1>5, <1>6 DEF ReachInv
<1> QED
  BY <1>1, <1>2, <1>4, <1>7

\* The timer of a command leaves its list, then prvSampleTimeNow.
LEMMA SampleStep ==
  ASSUME TInv, Sample
  PROVE  TInv'
<1> USE DEF TInv
<1>1. /\ pc = "sample" /\ cur' = Without(cur, msg.timer) /\ ovf' = Without(ovf, msg.timer)
      /\ last' = tick /\ pc' = IF tick < last THEN "switch" ELSE "apply"
      /\ UNCHANGED <<tick, timerVars, q, msg, left, clientVars, late, ghosts>>
  BY DEF Sample
<1>2. msg \in Cmd /\ msg # Null
  BY <1>1 DEF CmdInv, Types, TypeOK
<1>3. /\ cur' \in Seq(Item) /\ Ordered(cur')
      /\ Items(cur') = {x \in Items(cur) : x.timer # msg.timer}
  BY <1>1, WithoutIs DEF Types, TypeOK, ListInv
<1>4. /\ ovf' \in Seq(Item) /\ Ordered(ovf')
      /\ Items(ovf') = {x \in Items(ovf) : x.timer # msg.timer}
  BY <1>1, WithoutIs DEF Types, TypeOK, ListInv
<1>5. Listed' = {x \in Listed : x.timer # msg.timer}
  BY <1>3, <1>4 DEF Listed
<1>6. Types'
  BY <1>1, <1>3, <1>4 DEF Types, TypeOK, timerVars, clientVars, ghosts
<1>7. CmdInv'
  BY <1>1, <1>2, CmdKept DEF CmdInv, clientVars
<1>8. ListInv' /\ ReachInv' /\ Elapsed' = 0
  <2>1. \A x \in Listed' : rem[x.timer] >= -late'
    BY <1>1, <1>5 DEF ReachInv
  <2> QED
    BY <1>1, <1>3, <1>4, <2>1, ReadTime DEF timerVars, ghosts
<1>9. PlaceInv'
  <2>1. 0 <= late /\ 0 <= msg.age /\ tick <= tick
    BY <1>2, Clock DEF Cmd
  <2> QED
    BY <1>1, <1>5, <1>8, <2>1 DEF PlaceInv
<1>10. SleepInv'
  BY <1>1 DEF SleepInv, Busy
<1>11. KeptInv'
  BY <1>1, <1>2, <1>5 DEF KeptInv, ghosts
<1> QED
  BY <1>6, <1>7, <1>8, <1>9, <1>10, <1>11

\* prvProcessTimerOrBlockTask goes on to the wrap or to a timer that is due, or
\* sleeps for no longer than the first one lasts.
LEMMA LookStep ==
  ASSUME TInv, prvProcessTimerOrBlockTask
  PROVE  TInv'
<1> USE DEF TInv
<1>1. /\ pc = "look" /\ last' = tick
      /\ UNCHANGED <<tick, listVars, timerVars, q, msg, clientVars, ghosts>>
      /\ \/ tick < last /\ pc' = "switch" /\ UNCHANGED <<left, late>>
         \/ tick >= last /\ HeadDue /\ pc' = "expire" /\ UNCHANGED <<left, late>>
         \/ /\ tick >= last /\ ~HeadDue /\ pc' = "blocked"
            /\ left' = SleepFor(tick) /\ late' = IF q = <<>> THEN 0 ELSE late
  BY DEF prvProcessTimerOrBlockTask
<1>2. msg = Null /\ msg' = Null
  BY <1>1 DEF CmdInv
<1>3. cur \in Seq(Item) /\ ovf \in Seq(Item) /\ Ordered(cur) /\ Ordered(ovf)
  BY DEF Types, TypeOK, ListInv
<1>4. cur' = cur /\ ovf' = ovf /\ Listed' = Listed
  BY <1>1 DEF listVars, Listed
<1>5. ASSUME tick >= last, ~HeadDue
      PROVE  /\ SleepFor(tick) \in -1 .. TickMod
             /\ \A x \in Listed : /\ rem[x.timer] >= 0
                                  /\ SleepFor(tick) > 0 /\ SleepFor(tick) <= rem[x.timer]
  <2>1. Wrap = 0
    BY <1>1, <1>5, Clock DEF Wrap
  <2>2. \A x \in Items(cur) : x.time \in Nat /\ x.time < TickMod /\ rem[x.timer] = x.time - tick - 0
    BY <2>1, ItemFacts DEF ListInv, Listed
  <2>3. \A x \in Items(ovf) : x.time \in Nat /\ rem[x.timer] = x.time + TickMod - tick - 0
    BY <2>1, ItemFacts DEF ListInv, Listed
  <2>4. CASE cur # <<>>
    <3> DEFINE h == Head(cur).time
               s == SleepFor(tick)
    <3>1. h \in Nat /\ h < TickMod /\ h > tick /\ \A x \in Items(cur) : h <= x.time
      <4>1. Head(cur) \in Items(cur) /\ \A x \in Items(cur) : h <= x.time
        BY <1>3, <2>4, OrderedFacts
      <4>2. h \in Nat /\ h < TickMod /\ ~(h <= tick)
        BY <1>5, <2>2, <2>4, <4>1 DEF HeadDue
      <4> QED
        BY <4>1, <4>2, Clock
    <3>2. s = h - tick
      BY <2>4 DEF SleepFor
    <3> HIDE DEF h, s
    <3>3. s \in -1 .. TickMod /\ s > 0
      BY <3>1, <3>2, Clock
    <3>4. \A x \in Items(cur) : rem[x.timer] >= 0 /\ s <= rem[x.timer]
      BY <2>2, <3>1, <3>2, Clock
    <3>5. \A x \in Items(ovf) : rem[x.timer] >= 0 /\ s <= rem[x.timer]
      BY <2>3, <3>1, <3>2, Clock
    <3> QED
      BY <3>3, <3>4, <3>5 DEF Listed, s
  <2>5. CASE cur = <<>> /\ ovf = <<>>
    <3>1. SleepFor(tick) = -1
      BY <2>5 DEF SleepFor, Forever
    <3>2. Listed = {}
      BY <1>3, <2>5, OrderedFacts DEF Listed
    <3> QED
      BY <3>1, <3>2, Clock
  <2>6. CASE cur = <<>> /\ ovf # <<>>
    <3> DEFINE s == SleepFor(tick)
    <3>1. s = IF tick = 0 THEN 1 ELSE TickMod - tick
      BY <2>6 DEF SleepFor
    <3>2. Listed = Items(ovf)
      BY <1>3, <2>6, OrderedFacts DEF Listed
    <3> HIDE DEF s
    <3>3. s \in -1 .. TickMod /\ s > 0
      BY <3>1, Clock
    <3>4. \A x \in Items(ovf) : rem[x.timer] >= 0 /\ s <= rem[x.timer]
      BY <2>3, <3>1, Clock
    <3> QED
      BY <3>2, <3>3, <3>4 DEF s
  <2> QED
    BY <2>4, <2>5, <2>6
<1>6. Types'
  <2>1. left' \in -1 .. TickMod /\ late' \in 0 .. MaxLate
    <3>1. left \in -1 .. TickMod /\ late \in 0 .. MaxLate /\ 0 \in 0 .. MaxLate
      BY Clock DEF Types, TypeOK
    <3> QED
      BY <1>1, <1>5, <3>1
  <2>2. pc' \in {"look", "blocked", "expire", "switch", "commands", "sample", "apply"}
    BY <1>1
  <2> QED
    BY <1>1, <2>1, <2>2 DEF Types, TypeOK, listVars, timerVars, clientVars, ghosts
<1>7. CmdInv'
  BY <1>1, <1>2, CmdKept DEF CmdInv, clientVars
<1>8. \A x \in Listed : rem[x.timer] >= -late'
  <2>1. \A x \in Listed : rem[x.timer] >= -late
    BY DEF ReachInv
  <2>2. CASE pc' = "blocked"
    <3>1. late' \in Nat
      BY <1>1, <2>2, Clock
    <3>2. \A x \in Listed : rem[x.timer] \in Int /\ rem[x.timer] >= 0
      BY <1>1, <1>5, <2>2, ItemFacts
    <3> QED
      BY <3>1, <3>2
  <2> QED
    BY <1>1, <2>1, <2>2
<1>9. ListInv' /\ ReachInv'
  <2>1. pc' = "switch" <=> tick < last
    BY <1>1, Clock
  <2> QED
    BY <1>1, <1>3, <1>4, <1>8, <2>1, ReadTime DEF timerVars, ghosts
<1>10. PlaceInv'
  <2>1. tick <= tick
    BY Clock
  <2> QED
    BY <1>1, <1>2, <1>4, <2>1 DEF PlaceInv, HeadDue
<1>11. SleepInv'
  BY <1>1, <1>4, <1>5 DEF SleepInv, Busy, ghosts
<1>12. KeptInv'
  BY <1>1, <1>2, <1>4 DEF KeptInv, ghosts
<1> QED
  BY <1>6, <1>7, <1>9, <1>10, <1>11, <1>12

\* Woken, and the queue looked at: the lists do not change.
LEMMA QueueStep ==
  ASSUME TInv, Wake \/ NoCommand \/ ReceiveCommand
  PROVE  TInv'
<1> USE DEF TInv
<1>1. /\ pc \in {"blocked", "commands"} /\ pc' \in {"look", "commands", "sample"} /\ msg = Null
      /\ UNCHANGED <<tick, listVars, timerVars, last, clientVars, late, ghosts>>
      /\ left' \in {0, left}
      /\ \/ q' = q /\ msg' = msg /\ pc' # "sample"
         \/ /\ q # <<>> /\ q' = Tail(q)
            /\ \/ Head(q).cmd = "pend" /\ pc' = pc /\ msg' = Null /\ pc = "commands"
               \/ Head(q).cmd # "pend" /\ pc' = "sample" /\ msg' = Head(q)
  BY DEF Wake, NoCommand, ReceiveCommand, CmdInv
<1>2. /\ q' \in Seq(Cmd) /\ Len(q') <= QueueLength /\ Items(q') \subseteq Items(q)
      /\ \A m \in Items(q) : m \in Items(q') \/ (q # <<>> /\ m = Head(q) /\ q' = Tail(q))
      /\ q # <<>> => Head(q) \in Cmd /\ Head(q) \in Items(q)
  <2>1. q \in Seq(Cmd) /\ Len(q) <= QueueLength /\ QueueLength \in Nat
    BY TimersAssumption DEF Types, TypeOK
  <2>2. q # <<>> => /\ Tail(q) \in Seq(Cmd) /\ Len(Tail(q)) = Len(q) - 1 /\ Len(q) \in Nat
                    /\ Head(q) \in Cmd /\ Items(q) = Items(Tail(q)) \cup {Head(q)}
    BY <2>1, TailIs
  <2>3. q # <<>> => Len(Tail(q)) <= QueueLength
    BY <2>1, <2>2
  <2> QED
    BY <1>1, <2>1, <2>2, <2>3
<1>3. msg' \in Cmd \cup {Null} /\ (msg' # Null => msg' = Head(q) /\ q # <<>> /\ pc' = "sample")
  BY <1>1, <1>2
<1>4. Types'
  <2>1. left' \in -1 .. TickMod
    BY <1>1, Clock DEF Types, TypeOK
  <2> QED
    BY <1>1, <1>2, <1>3, <2>1 DEF Types, TypeOK, listVars, timerVars, clientVars, ghosts
<1>5. CmdInv'
  <2>1. \A m \in Items(q') : Sound(m)'
    BY <1>1, <1>2 DEF CmdInv, Sound, SoundAt
  <2>2. ask' # Null => Sound(ask)'
    BY <1>1 DEF CmdInv, Sound, SoundAt, clientVars
  <2>3. msg' # Null => Sound(msg)' /\ msg'.cmd # "pend"
    BY <1>1, <1>2, <1>3 DEF CmdInv, Sound, SoundAt
  <2>4. pc' \in {"sample", "apply"} => msg' # Null
    BY <1>1, <1>2, TimersAssumption
  <2>5. pc' \notin {"sample", "switch", "apply"} => msg' = Null
    BY <1>1
  <2> QED
    BY <2>1, <2>2, <2>3, <2>4, <2>5, Zenon DEF CmdInv
<1>6. ListInv' /\ ReachInv' /\ Listed' = Listed
  BY <1>1, StillLists DEF listVars, timerVars, ghosts
<1>7. PlaceInv' /\ SleepInv'
  BY <1>1 DEF PlaceInv, SleepInv, Busy
<1>8. KeptInv'
  <2> SUFFICES ASSUME NEW t \in run
               PROVE  \/ \E x \in Listed : x.timer = t
                      \/ \E m \in Items(q') : m.cmd = "restart" /\ m.timer = t
                      \/ pc' = "sample" /\ msg' # Null /\ msg'.timer = t
    BY <1>1, <1>6 DEF KeptInv, ghosts
  <2>1. CASE \E x \in Listed : x.timer = t
    BY <2>1
  <2>2. CASE \E m \in Items(q) : m.cmd = "restart" /\ m.timer = t
    <3>1. PICK m \in Items(q) : m.cmd = "restart" /\ m.timer = t
      BY <2>2
    <3>2. CASE m \in Items(q')
      BY <3>1, <3>2
    <3>3. CASE m \notin Items(q')
      <4>1. q # <<>> /\ m = Head(q) /\ Head(q) \in Cmd
        BY <1>2, <3>3
      <4>2. pc' = "sample" /\ msg' = Head(q)
        BY <1>1, <1>2, <3>1, <3>3, <4>1
      <4> QED
        BY <3>1, <4>1, <4>2, TimersAssumption
    <3> QED
      BY <3>2, <3>3
  <2> QED
    BY <1>1, <2>1, <2>2 DEF KeptInv
<1> QED
  BY <1>4, <1>5, <1>6, <1>7, <1>8

\* What the clients change: the queue gets one sound command more, or none.
LEMMA ClientStep ==
  ASSUME TInv,
         UNCHANGED <<tick, listVars, pc, last, msg, left, late, ghosts, active, period, freed>>,
         auto' \subseteq TimerSet,
         ask' \in Cmd \cup {Null}, ask' # Null => Sound(ask'),
         \/ q' = q
         \/ \E m \in Cmd : Len(q) < QueueLength /\ Sound(m) /\ q' = Append(q, m)
  PROVE  TInv'
<1> USE DEF TInv
<1>1. /\ q' \in Seq(Cmd) /\ Len(q') <= QueueLength /\ Items(q) \subseteq Items(q')
      /\ \A m \in Items(q') : Sound(m)
      /\ q # <<>> => q' # <<>>
  <2>1. /\ q \in Seq(Cmd) /\ Len(q) <= QueueLength /\ Len(q) \in Nat /\ QueueLength \in Nat
        /\ \A m \in Items(q) : Sound(m)
    BY TimersAssumption DEF Types, TypeOK, CmdInv
  <2>2. ASSUME NEW m \in Cmd, Len(q) < QueueLength, Sound(m), q' = Append(q, m)
        PROVE  /\ q' \in Seq(Cmd) /\ Len(q') <= QueueLength /\ Items(q) \subseteq Items(q')
               /\ \A n \in Items(q') : Sound(n)
               /\ q' # <<>>
    <3>1. q' \in Seq(Cmd) /\ Len(q') = Len(q) + 1 /\ Items(q') = Items(q) \cup {m}
      BY <2>1, <2>2, AppendIs
    <3>2. Len(q') <= QueueLength /\ Len(q') # 0
      BY <2>1, <2>2, <3>1
    <3> QED
      BY <2>1, <2>2, <3>1, <3>2
  <2> QED
    BY <2>1, <2>2
<1>2. Types'
  BY <1>1 DEF Types, TypeOK, listVars, ghosts
<1>3. CmdInv'
  <2>1. \A m \in Items(q') : Sound(m)'
    BY <1>1 DEF Sound, SoundAt
  <2>2. ask' # Null => Sound(ask)'
    BY DEF Sound, SoundAt
  <2>3. msg' # Null => Sound(msg)' /\ msg'.cmd # "pend"
    BY DEF CmdInv, Sound, SoundAt
  <2> QED
    BY <2>1, <2>2, <2>3, Zenon DEF CmdInv
<1>4. ListInv' /\ ReachInv' /\ Elapsed' = Elapsed /\ Listed' = Listed
  BY StillLists DEF listVars, ghosts
<1>5. PlaceInv'
  BY <1>4 DEF PlaceInv, listVars
<1>6. SleepInv'
  BY <1>1, <1>4 DEF SleepInv, Busy, ghosts
<1>7. KeptInv'
  BY <1>1, <1>4 DEF KeptInv, ghosts
<1> QED
  BY <1>2, <1>3, <1>4, <1>5, <1>6, <1>7

\* A command as it is sent: its time is now.
LEMMA MessageIs ==
  ASSUME Types, NEW c \in Commands \cup IsrCommands
  PROVE  Message(c) \in Cmd /\ Sound(Message(c))
<1>1. /\ c.timer \in TimerSet /\ c.val \in 1 .. TickMod - 1
      /\ c.cmd \in {"start", "stop", "period", "delete", "pend"}
      /\ c.cmd = "period" => c.val + MaxLate < TickMod
  BY TimersAssumption
<1>2. /\ c.val \in Tick /\ c.val > 0 /\ tick \in Tick
      /\ 0 \in 0 .. MaxAge /\ (tick + 0) % TickMod = tick
  <2>1. tick \in Nat /\ tick < TickMod /\ tick + 0 = tick
    BY Clock
  <2> QED
    BY <1>1, <2>1, Clock, ModIs DEF Tick
<1> DEFINE v == IF c.cmd = "start" THEN tick ELSE c.val
           m == [cmd |-> c.cmd, timer |-> c.timer, val |-> v, age |-> 0]
<1>3. Message(c) = m
  BY DEF Message
<1>4. v \in Tick
  BY <1>2
<1>5. m \in Cmd
  BY <1>1, <1>2, <1>4 DEF Cmd
<1>6. Sound(m)
  BY <1>1, <1>2 DEF Sound, SoundAt
<1> QED
  BY <1>3, <1>5, <1>6

\* The tasks and the interrupts.
LEMMA SendStep ==
  ASSUME TInv,
         \/ \E c \in Commands : Ask(c)
         \/ xTimerGenericCommand
         \/ \E c \in IsrCommands : IsrCommand(c)
         \/ \E m \in Modes : vTimerSetReloadMode(m)
  PROVE  TInv'
<1> USE DEF TInv
<1>1. auto \subseteq TimerSet /\ ask \in Cmd \cup {Null} /\ (ask # Null => Sound(ask))
  BY DEF Types, TypeOK, CmdInv
<1>2. ASSUME NEW c \in Commands, Ask(c) PROVE TInv'
  BY <1>1, <1>2, MessageIs, ClientStep DEF Ask, timerVars
<1>3. ASSUME xTimerGenericCommand PROVE TInv'
  BY <1>1, <1>3, ClientStep DEF xTimerGenericCommand, timerVars
<1>4. ASSUME NEW c \in IsrCommands, IsrCommand(c) PROVE TInv'
  BY <1>1, <1>4, MessageIs, ClientStep DEF IsrCommand, timerVars
<1>5. ASSUME NEW m \in Modes, vTimerSetReloadMode(m) PROVE TInv'
  <2>1. auto' \subseteq TimerSet
    BY <1>1, <1>5, TimersAssumption DEF vTimerSetReloadMode
  <2> QED
    BY <1>1, <1>5, <2>1, ClientStep DEF vTimerSetReloadMode
<1> QED
  BY <1>2, <1>3, <1>4, <1>5

\* One tick more for every start on its way.
LEMMA OlderIs ==
  ASSUME Types, NEW m \in Cmd, Sound(m), Ages(m) => m.age < MaxAge, tick' = (tick + 1) % TickMod
  PROVE  /\ Older(m) \in Cmd /\ SoundAt(Older(m), tick')
         /\ Older(m).cmd = m.cmd /\ Older(m).timer = m.timer
         /\ Older(m).age = IF Ages(m) THEN m.age + 1 ELSE m.age
<1>1. m \in Cmd /\ m # Null /\ m.val \in Nat /\ m.val < TickMod /\ m.age \in 0 .. MaxAge
  BY TimersAssumption, Clock DEF Cmd, Tick
<1>2. CASE Ages(m)
  <2> DEFINE n == [m EXCEPT !.age = @ + 1]
  <2>1. m.age + 1 \in 0 .. MaxAge
    BY <1>1, <1>2, Clock
  <2>2. /\ Older(m) = n /\ n \in Cmd
        /\ n.cmd = m.cmd /\ n.timer = m.timer /\ n.val = m.val /\ n.age = m.age + 1
    BY <1>2, <2>1 DEF Older, Cmd
  <2>3. (m.val + m.age) % TickMod = tick /\ m.cmd \in {"start", "restart"}
    BY <1>2 DEF Sound, SoundAt, Ages
  <2>4. (m.val + (m.age + 1)) % TickMod = tick'
    <3> DEFINE s == m.val + m.age
    <3>1. s \in Nat /\ s < 2 * TickMod - 1 /\ m.val + (m.age + 1) = s + 1
      BY <1>1, <1>2, Clock
    <3>2. tick = IF s < TickMod THEN s ELSE s - TickMod
      BY <2>3, <3>1, Clock, ModIs
    <3>3. tick' = IF tick + 1 < TickMod THEN tick + 1 ELSE 0
      BY Clock, ModIs
    <3> HIDE DEF s
    <3>4. (s + 1) % TickMod = IF s + 1 < TickMod THEN s + 1 ELSE s + 1 - TickMod
      BY <3>1, Clock, ModIs
    <3> QED
      BY <3>1, <3>2, <3>3, <3>4, Clock
  <2>5. SoundAt(n, tick')
    BY <2>2, <2>3, <2>4 DEF Sound, SoundAt
  <2> QED
    BY <1>2, <2>2, <2>5, Zenon
<1>3. CASE ~Ages(m)
  <2>1. Older(m) = m
    BY <1>3 DEF Older
  <2>2. m.cmd \notin {"start", "restart"}
    BY <1>1, <1>3 DEF Ages
  <2>3. SoundAt(m, tick')
    BY <2>2 DEF Sound, SoundAt
  <2> QED
    BY <1>3, <2>1, <2>3, Zenon
<1> QED
  BY <1>2, <1>3

\* The command in hand, or what a task is sending, at the next tick.
LEMMA OlderOrNull ==
  ASSUME Types, NEW m \in Cmd \cup {Null}, m # Null => Sound(m),
         Ages(m) => m.age < MaxAge, tick' = (tick + 1) % TickMod
  PROVE  /\ Older(m) \in Cmd \cup {Null}
         /\ m = Null <=> Older(m) = Null
         /\ m # Null => /\ SoundAt(Older(m), tick')
                        /\ Older(m).cmd = m.cmd /\ Older(m).timer = m.timer
                        /\ Older(m).age = IF Ages(m) THEN m.age + 1 ELSE m.age
<1>1. CASE m = Null
  BY <1>1 DEF Older, Ages
<1>2. CASE m # Null
  <2>1. m \in Cmd /\ Sound(m)
    BY <1>2
  <2>2. /\ Older(m) \in Cmd /\ SoundAt(Older(m), tick')
        /\ Older(m).cmd = m.cmd /\ Older(m).timer = m.timer
        /\ Older(m).age = IF Ages(m) THEN m.age + 1 ELSE m.age
    BY <2>1, OlderIs
  <2>3. Older(m) # Null
    BY <2>2, TimersAssumption
  <2> QED
    BY <1>2, <2>2, <2>3, Zenon
<1> QED
  BY <1>1, <1>2

\* The queue at the next tick.
LEMMA OlderQueue ==
  ASSUME Types, CmdInv, tick' = (tick + 1) % TickMod,
         \A m \in Items(q) : Ages(m) => m.age < MaxAge,
         q' = [i \in DOMAIN q |-> Older(q[i])]
  PROVE  /\ q' \in Seq(Cmd) /\ Len(q') = Len(q) /\ (q' = <<>> <=> q = <<>>)
         /\ \A m \in Items(q') : SoundAt(m, tick')
         /\ \A m \in Items(q) : \E n \in Items(q') : n.cmd = m.cmd /\ n.timer = m.timer
<1>1. q \in Seq(Cmd) /\ DOMAIN q = 1 .. Len(q) /\ Len(q) \in Nat
  BY DEF Types, TypeOK
<1>2. ASSUME NEW i \in 1 .. Len(q)
      PROVE  /\ q[i] \in Items(q) /\ Older(q[i]) \in Cmd /\ SoundAt(Older(q[i]), tick')
             /\ Older(q[i]).cmd = q[i].cmd /\ Older(q[i]).timer = q[i].timer
  <2>1. q[i] \in Items(q) /\ q[i] \in Cmd
    BY <1>1 DEF Items
  <2>2. Sound(q[i]) /\ (Ages(q[i]) => q[i].age < MaxAge)
    BY <2>1 DEF CmdInv
  <2>3. /\ Older(q[i]) \in Cmd /\ SoundAt(Older(q[i]), tick')
        /\ Older(q[i]).cmd = q[i].cmd /\ Older(q[i]).timer = q[i].timer
    BY <2>1, <2>2, OlderIs
  <2> QED
    BY <2>1, <2>3, Zenon
<1>3. DOMAIN q' = 1 .. Len(q) /\ \A i \in 1 .. Len(q) : q'[i] = Older(q[i])
  BY <1>1
<1>4. \A i \in 1 .. Len(q) : Older(q[i]) \in Cmd
  BY <1>2
<1>5. q' \in Seq(Cmd) /\ Len(q') = Len(q) /\ (q' = <<>> <=> q = <<>>)
  <2>1. q' \in [1 .. Len(q) -> Cmd]
    BY <1>1, <1>4
  <2>2. q' \in Seq(Cmd) /\ Len(q') = Len(q)
    BY <1>1, <2>1
  <2> QED
    BY <1>1, <2>2
<1>6. ASSUME NEW m \in Items(q') PROVE SoundAt(m, tick')
  <2>1. PICK i \in 1 .. Len(q) : m = q'[i]
    BY <1>3, <1>6 DEF Items
  <2>2. m = Older(q[i])
    BY <1>3, <2>1
  <2>3. SoundAt(Older(q[i]), tick')
    BY <1>2
  <2> QED
    BY <2>2, <2>3
<1>7. ASSUME NEW m \in Items(q)
      PROVE  \E n \in Items(q') : n.cmd = m.cmd /\ n.timer = m.timer
  <2>1. PICK i \in 1 .. Len(q) : m = q[i]
    BY <1>1, <1>7 DEF Items
  <2>2. q'[i] \in Items(q')
    BY <1>3, <2>1 DEF Items
  <2>3. q'[i].cmd = m.cmd /\ q'[i].timer = m.timer
    BY <1>2, <1>3, <2>1, Zenon
  <2> QED
    BY <2>2, <2>3
<1> QED
  BY <1>5, <1>6, <1>7

\* The clock at the next tick: while a timer is listed, the daemon is not late
\* by a lap, so the wrap is neither missed nor seen twice.
LEMMA ClockMoves ==
  ASSUME TInv, ~Suspended, Busy => late < MaxLate,
         tick' = (tick + 1) % TickMod, last' = last, pc' = pc
  PROVE  /\ tick' \in Tick
         /\ Elapsed' \in Nat /\ Elapsed' <= Elapsed + 1
         /\ Listed # {} => tick' + Wrap' = tick + Wrap + 1
         /\ Listed # {} /\ pc = "switch" => tick' = tick + 1
<1> USE DEF TInv
<1>1. tick' \in Tick /\ tick' = IF tick + 1 < TickMod THEN tick + 1 ELSE 0
  BY Clock, ModIs
<1>2. /\ Elapsed' \in Nat /\ Elapsed' <= Elapsed + 1
      /\ Elapsed' = IF tick' < last THEN tick' - last + TickMod ELSE tick' - last
  <2>1. tick' - last \in Int /\ -TickMod <= tick' - last /\ tick' - last < TickMod
    BY <1>1, Clock
  <2>2. Elapsed' = (tick' - last) % TickMod
    BY DEF Elapsed
  <2>3. Elapsed' = IF tick' < last THEN tick' - last + TickMod ELSE tick' - last
    BY <1>1, <2>1, <2>2, Clock, ModIs
  <2> DEFINE n == Elapsed'
             o == Elapsed
             u == tick'
  <2>4. o = IF tick < last THEN tick - last + TickMod ELSE tick - last
    BY Clock
  <2>5. n = (IF u < last THEN u - last + TickMod ELSE u - last)
        /\ u = (IF tick + 1 < TickMod THEN tick + 1 ELSE 0)
    BY <1>1, <2>3
  <2> HIDE DEF n, o, u
  <2>6. n \in Nat /\ n <= o + 1
    BY <2>4, <2>5, Clock
  <2> QED
    BY <2>3, <2>6 DEF n, o
<1>3. ASSUME pc # "switch", Listed # {}
      PROVE  tick' + Wrap' = tick + Wrap + 1
  <2>1. PICK x \in Listed : TRUE
    BY <1>3
  <2> DEFINE p == period[x.timer]
             r == rem[x.timer]
             o == Elapsed
  <2>2. p \in Nat /\ r \in Int /\ p + MaxLate < TickMod /\ o <= p - r /\ r >= -late
    BY <1>3, ItemFacts
  <2>3. ~Busy => r > 0
    <3>1. ~Busy => left \in Int /\ left > 0 /\ left <= r
      BY Clock DEF SleepInv, Types, TypeOK
    <3> QED
      BY <2>2, <3>1
  <2>4. o \in Nat /\ o = IF tick < last THEN tick - last + TickMod ELSE tick - last
    BY Clock
  <2> HIDE DEF p, r, o
  <2>5. o + 1 < TickMod
    <3>1. CASE Busy
      BY <2>2, <2>4, <3>1, Clock
    <3>2. CASE ~Busy
      BY <2>2, <2>3, <2>4, <3>2, Clock
    <3> QED
      BY <3>1, <3>2
  <2>6. Wrap = (IF tick < last THEN TickMod ELSE 0) /\ Wrap' = (IF tick' < last THEN TickMod ELSE 0)
    BY <1>3, Clock DEF Wrap
  <2> DEFINE v == Wrap'
             w == Wrap
             u == tick'
  <2>7. /\ w = (IF tick < last THEN TickMod ELSE 0) /\ v = (IF u < last THEN TickMod ELSE 0)
        /\ u = (IF tick + 1 < TickMod THEN tick + 1 ELSE 0)
    BY <1>1, <2>6
  <2> HIDE DEF u, v, w
  <2>8. u + v = tick + w + 1
    BY <2>4, <2>5, <2>7, Clock
  <2> QED
    BY <2>8 DEF u, v, w
<1>4. ASSUME pc = "switch", Listed # {}
      PROVE  tick' = tick + 1 /\ tick' + Wrap' = tick + Wrap + 1
  <2>1. PICK x \in Listed : TRUE
    BY <1>4
  <2>2. last <= tick /\ Busy
    BY <1>4 DEF PlaceInv, Busy
  <2>3. /\ period[x.timer] \in Nat /\ rem[x.timer] \in Int /\ period[x.timer] + MaxLate < TickMod
        /\ tick < period[x.timer] - rem[x.timer] /\ rem[x.timer] >= -late
    BY <1>4, <2>2, ItemFacts
  <2>4. tick + 1 < TickMod
    BY <2>2, <2>3, Clock
  <2>5. tick' = tick + 1
    BY <1>1, <2>4
  <2>6. Wrap = TickMod /\ Wrap' = TickMod
    BY <1>4 DEF Wrap
  <2> QED
    BY <2>5, <2>6, Clock
<1> QED
  BY <1>1, <1>2, <1>3, <1>4

\* xTaskIncrementTick.
LEMMA TickStep ==
  ASSUME TInv, TickIrq
  PROVE  TInv'
<1> USE DEF TInv
<1>1. /\ ~Suspended /\ (Busy => late < MaxLate)
      /\ \A m \in {q[i] : i \in DOMAIN q} \cup {msg, ask} : Ages(m) => m.age < MaxAge
      /\ tick' = (tick + 1) % TickMod
      /\ late' = IF Busy THEN late + 1 ELSE 0
      /\ left' = IF pc = "blocked" /\ left > 0 THEN left - 1 ELSE left
      /\ q' = [i \in DOMAIN q |-> Older(q[i])]
      /\ msg' = Older(msg) /\ ask' = Older(ask)
      /\ rem' = [t \in TimerSet |-> IF t \in run THEN rem[t] - 1 ELSE rem[t]]
      /\ UNCHANGED <<listVars, timerVars, pc, last, dead, sent, run, early>>
  BY DEF TickIrq
<1>2. /\ tick' \in Tick
      /\ Elapsed' \in Nat /\ Elapsed' <= Elapsed + 1
      /\ Listed # {} => tick' + Wrap' = tick + Wrap + 1
      /\ Listed # {} /\ pc = "switch" => tick' = tick + 1
  BY <1>1, ClockMoves
<1>3. /\ q' \in Seq(Cmd) /\ Len(q') = Len(q) /\ (q' = <<>> <=> q = <<>>)
      /\ \A m \in Items(q') : SoundAt(m, tick')
      /\ \A m \in Items(q) : \E n \in Items(q') : n.cmd = m.cmd /\ n.timer = m.timer
  BY <1>1, OlderQueue DEF Items
<1>4. /\ msg' \in Cmd \cup {Null} /\ (msg = Null <=> msg' = Null)
      /\ msg # Null => /\ SoundAt(msg', tick') /\ msg'.cmd = msg.cmd /\ msg'.timer = msg.timer
                       /\ msg'.age = IF Ages(msg) THEN msg.age + 1 ELSE msg.age
  BY <1>1, OlderOrNull DEF Types, TypeOK, CmdInv
<1>5. ask' \in Cmd \cup {Null} /\ (ask' # Null => SoundAt(ask', tick'))
  BY <1>1, OlderOrNull DEF Types, TypeOK, CmdInv
<1>6. /\ late \in Nat /\ late <= MaxLate /\ late' \in 0 .. MaxLate /\ left' \in -1 .. TickMod
      /\ Busy => late' = late + 1
      /\ ~Busy => late' = 0
  <2>1. late' \in 0 .. MaxLate /\ (Busy => late' = late + 1) /\ (~Busy => late' = 0)
    BY <1>1, Clock
  <2>2. left' \in -1 .. TickMod
    BY <1>1, Clock DEF Types, TypeOK
  <2> QED
    BY <2>1, <2>2, Clock
<1>7. /\ rem' \in [TimerSet -> Int]
      /\ \A x \in Listed : rem'[x.timer] = rem[x.timer] - 1
  BY <1>1, ItemFacts DEF Types, ListInv
<1>8. Listed' = Listed /\ cur' = cur /\ ovf' = ovf
  BY <1>1 DEF listVars, Listed
<1>9. Types'
  BY <1>1, <1>2, <1>3, <1>4, <1>5, <1>6, <1>7, <1>8 DEF Types, TypeOK, timerVars
<1>10. CmdInv'
  <2>1. ask' # Null => Sound(ask)'
    BY <1>5 DEF Sound
  <2>2. msg' # Null => Sound(msg)' /\ msg'.cmd # "pend"
    BY <1>4 DEF CmdInv, Sound
  <2> QED
    BY <1>1, <1>3, <1>4, <2>1, <2>2 DEF CmdInv, Sound
<1>11. \A x \in Listed : x.time \in Nat /\ rem[x.timer] \in Int
  BY ItemFacts
<1>12. Wrap \in Int /\ Wrap' \in Int /\ tick \in Int /\ tick' \in Int
  BY <1>2, Clock DEF Wrap, Tick
<1>13. ListInv'
  <2>1. ASSUME NEW x \in Items(cur) PROVE rem'[x.timer] = x.time - tick' - Wrap'
    <3>1. x \in Listed /\ rem[x.timer] = x.time - tick - Wrap
      BY DEF Listed, ListInv
    <3>2. tick' + Wrap' = tick + Wrap + 1 /\ x.time \in Nat /\ rem'[x.timer] = rem[x.timer] - 1
      BY <1>2, <1>7, <1>11, <3>1
    <3> HIDE DEF Wrap
    <3> QED
      BY <1>12, <3>1, <3>2
  <2>2. ASSUME NEW x \in Items(ovf) PROVE rem'[x.timer] = x.time + TickMod - tick' - Wrap'
    <3>1. x \in Listed /\ rem[x.timer] = x.time + TickMod - tick - Wrap
      BY DEF Listed, ListInv
    <3>2. tick' + Wrap' = tick + Wrap + 1 /\ x.time \in Nat /\ rem'[x.timer] = rem[x.timer] - 1
      BY <1>2, <1>7, <1>11, <3>1
    <3>3. TickMod \in Int
      BY Clock
    <3> HIDE DEF Wrap
    <3> DEFINE v == Wrap'
               w == Wrap
               u == tick'
               r == rem[x.timer]
               s == rem'[x.timer]
    <3>4. /\ r = x.time + TickMod - tick - w /\ u + v = tick + w + 1 /\ s = r - 1
          /\ u \in Int /\ v \in Int /\ w \in Int /\ tick \in Int /\ x.time \in Int
      <4>1. r = x.time + TickMod - tick - w
        BY <3>1
      <4>2. u + v = tick + w + 1 /\ s = r - 1
        BY <3>2
      <4>3. u \in Int /\ v \in Int /\ w \in Int /\ tick \in Int
        BY <1>12
      <4>4. x.time \in Int
        BY <3>2
      <4> QED
        BY <4>1, <4>2, <4>3, <4>4
    <3> HIDE DEF u, v, w, r, s
    <3>5. s = x.time + TickMod - u - v
      BY <3>3, <3>4
    <3> QED
      BY <3>5 DEF u, v, s
  <2> HIDE DEF Listed, Wrap
  <2> QED
    BY <1>1, <1>8, <2>1, <2>2 DEF ListInv
<1>14. ReachInv'
  <2>1. ASSUME NEW x \in Listed PROVE rem'[x.timer] >= -late'
    <3>1. rem[x.timer] \in Int /\ rem[x.timer] >= -late /\ rem'[x.timer] = rem[x.timer] - 1
      BY <1>7, <1>11 DEF ReachInv
    <3>2. CASE Busy
      BY <1>6, <3>1, <3>2
    <3>3. CASE ~Busy
      <4>1. left \in Int /\ left > 0 /\ left <= rem[x.timer]
        BY <3>3, Clock DEF SleepInv, Types, TypeOK
      <4> QED
        BY <1>6, <3>1, <3>3, <4>1
    <3> QED
      BY <3>2, <3>3
  <2> QED
    BY <1>1, <1>8, <2>1 DEF ReachInv, timerVars
<1>15. PlaceInv'
  <2>1. pc' = "expire" => cur' # <<>> /\ Head(cur').time <= last'
    BY <1>1, <1>8 DEF PlaceInv
  <2>2. pc' = "switch" /\ Listed' # {} => last' <= tick'
    BY <1>1, <1>2, <1>8, Clock DEF PlaceInv
  <2>3. ASSUME pc' \in {"switch", "apply"}, msg' # Null
        PROVE  /\ Elapsed' <= late'
               /\ msg'.cmd \in {"start", "restart"} => Elapsed' <= msg'.age
               /\ \A x \in Listed' : x.timer # msg'.timer
    <3>1. pc \in {"switch", "apply"} /\ msg # Null /\ msg \in Cmd /\ Busy
      BY <1>1, <1>4, <2>3 DEF Types, TypeOK, Busy
    <3>2. /\ Elapsed <= late
          /\ msg.cmd \in {"start", "restart"} => Elapsed <= msg.age
          /\ \A x \in Listed : x.timer # msg.timer
      BY <3>1 DEF PlaceInv
    <3>3. late' = late + 1 /\ Elapsed \in Nat /\ msg.age \in Nat /\ late \in Nat
      BY <1>6, <3>1, Clock DEF Cmd
    <3> DEFINE n == Elapsed'
               o == Elapsed
    <3>4. n \in Nat /\ o \in Nat /\ n <= o + 1 /\ o <= late
      BY <1>2, <3>2, <3>3
    <3> HIDE DEF n, o
    <3>5. n <= late'
      BY <3>3, <3>4
    <3>6. msg'.cmd \in {"start", "restart"} => n <= msg'.age
      <4>1. msg'.cmd \in {"start", "restart"} => o <= msg.age /\ msg'.age = msg.age + 1
        BY <1>4, <3>1, <3>2 DEF Ages, o
      <4> QED
        BY <3>3, <3>4, <4>1
    <3> QED
      BY <1>4, <1>8, <3>1, <3>2, <3>5, <3>6 DEF n
  <2> QED
    BY <2>1, <2>2, <2>3 DEF PlaceInv
<1>16. SleepInv'
  <2> SUFFICES ASSUME ~Busy', NEW x \in Listed PROVE left' > 0 /\ left' <= rem'[x.timer]
    BY <1>8 DEF SleepInv
  <2>1. pc = "blocked" /\ left' # 0 /\ q = <<>>
    BY <1>1, <1>3 DEF Busy
  <2>2. left \in Int /\ left # 0
    BY <1>1, <2>1, Clock DEF Types, TypeOK
  <2>3. ~Busy
    BY <2>1, <2>2 DEF Busy
  <2>4. left > 0 /\ left <= rem[x.timer]
    BY <2>3 DEF SleepInv
  <2> QED
    BY <1>1, <1>7, <1>11, <2>1, <2>2, <2>4
<1>17. KeptInv'
  <2> SUFFICES ASSUME NEW t \in run
               PROVE  \/ \E x \in Listed : x.timer = t
                      \/ \E m \in Items(q') : m.cmd = "restart" /\ m.timer = t
                      \/ pc \in {"sample", "switch", "apply"} /\ msg' # Null /\ msg'.timer = t
    BY <1>1, <1>8 DEF KeptInv
  <2> QED
    BY <1>3, <1>4 DEF KeptInv
<1> QED
  BY <1>9, <1>10, <1>13, <1>14, <1>15, <1>16, <1>17

\* The lists, with e in the one it goes to, or in none.
Moved(e, where) ==
  /\ cur' \in Seq(Item) /\ ovf' \in Seq(Item) /\ Ordered(cur') /\ Ordered(ovf')
  /\ \A x \in Items(cur'), y \in Items(ovf') : x.timer # y.timer
  /\ \A x : x \in Items(cur') <=> x \in Items(cur) \/ (x = e /\ where = "current")
  /\ \A x : x \in Items(ovf') <=> x \in Items(ovf) \/ (x = e /\ where = "overflow")

\* The same of the lists as they are.
LEMMA PlaceHere ==
  ASSUME cur \in Seq(Item), ovf \in Seq(Item), Ordered(cur), Ordered(ovf),
         \A x \in Items(cur), y \in Items(ovf) : x.timer # y.timer,
         NEW t \in TimerSet, \A x \in Items(cur) \cup Items(ovf) : x.timer # t,
         NEW time \in Tick, NEW where \in {"now", "current", "overflow"},
         Place(where, cur, ovf, t, time),
         NEW e \in Item, e.timer = t, e.time = time
  PROVE  Moved(e, where)
<1>1. e = [timer |-> t, time |-> time]
  BY  DEF Item
<1> QED
  BY <1>1, PlaceIs DEF Moved

\* A timer that is due in due ticks, with period p, belongs where it is put.
Fits(e, where, due, p) ==
  /\ p + MaxLate < TickMod
  /\ where # "now" => due >= -late
  /\ where = "current" => due = e.time - tick - Wrap /\ e.time <= last + p
  /\ where = "overflow" => due = e.time + TickMod - tick - Wrap /\ e.time + TickMod <= last + p

\* Of the other timers, the ghost and the period stay.
OnlyOf(t) ==
  /\ early' = {} /\ active' \subseteq TimerSet /\ freed' \subseteq TimerSet
  /\ period' \in [TimerSet -> 1 .. TickMod - 1] /\ rem' \in [TimerSet -> Int]
  /\ \A u \in TimerSet : u # t => period'[u] = period[u] /\ rem'[u] = rem[u]

\* Nothing is lost from the queue, and with the timer in no list it runs only
\* if it has a start there.
Queued(t, where) ==
  /\ q' \in Seq(Cmd) /\ Len(q') <= QueueLength /\ Items(q) \subseteq Items(q')
  /\ \A m \in Items(q') : Sound(m)
  /\ run' \subseteq run \cup {t} /\ run \ {t} \subseteq run'
  /\ where # "now" => t \in run'
  /\ where = "now" /\ t \in run' => \E m \in Items(q') : m.cmd = "restart" /\ m.timer = t

\* What the four commands have in common: the timer in hand goes to a list, or
\* to none, and runs from then on only with a start on its way.
LEMMA Applied ==
  ASSUME TInv, pc = "apply", pc' = "commands", msg' = Null,
         UNCHANGED <<tick, auto, last, left, clientVars, late>>,
         NEW t \in TimerSet, t = msg.timer,
         NEW e \in Item, e.timer = t, NEW where \in {"now", "current", "overflow"},
         Moved(e, where), OnlyOf(t), Queued(t, where), Fits(e, where, rem'[t], period'[t])
  PROVE  TInv'
<1> USE DEF TInv, Moved, OnlyOf, Queued
<1>1. /\ period'[t] + MaxLate < TickMod
      /\ where # "now" => rem'[t] >= -late
      /\ where = "current" => rem'[t] = e.time - tick - Wrap /\ e.time <= last + period'[t]
      /\ where = "overflow" => /\ rem'[t] = e.time + TickMod - tick - Wrap
                               /\ e.time + TickMod <= last + period'[t]
  BY  DEF Fits
<1>2. msg # Null /\ msg \in Cmd /\ \A x \in Listed : x.timer # t
  BY  DEF CmdInv, PlaceInv, Types, TypeOK
<1>3. ASSUME NEW x \in Items(cur')
      PROVE  x \in Items(cur) \/ (x = e /\ where = "current")
  OBVIOUS
<1>4. ASSUME NEW x \in Items(ovf')
      PROVE  x \in Items(ovf) \/ (x = e /\ where = "overflow")
  OBVIOUS
<1>5. \A x \in Listed : x.timer # t /\ x.timer \in TimerSet
  BY <1>2, ItemFacts
<1>6. Wrap' = Wrap /\ Elapsed' = Elapsed
  BY  DEF Wrap, Elapsed
<1>7. Types'
  <2>1. \A u \in TimerSet : period'[u] + MaxLate < TickMod
    BY <1>1 DEF Types
  <2>2. run' \subseteq TimerSet
    BY  DEF Types
  <2> QED
    BY <2>1, <2>2 DEF Types, TypeOK, clientVars
<1>8. CmdInv'
  BY CmdKept DEF CmdInv, clientVars
<1>9. ListInv'
  <2>1. \A x \in Items(cur') : rem'[x.timer] = x.time - tick - Wrap
    <3> SUFFICES ASSUME NEW x \in Items(cur') PROVE rem'[x.timer] = x.time - tick - Wrap
      OBVIOUS
    <3>1. x \in Items(cur) => x \in Listed /\ rem[x.timer] = x.time - tick - Wrap
      BY  DEF Listed, ListInv
    <3> HIDE DEF Wrap, Listed
    <3> QED
      BY <1>1, <1>3, <1>5, <3>1
  <2>2. \A x \in Items(ovf') : rem'[x.timer] = x.time + TickMod - tick - Wrap
    <3> SUFFICES ASSUME NEW x \in Items(ovf') PROVE rem'[x.timer] = x.time + TickMod - tick - Wrap
      OBVIOUS
    <3>1. x \in Items(ovf) => x \in Listed /\ rem[x.timer] = x.time + TickMod - tick - Wrap
      BY  DEF Listed, ListInv
    <3> HIDE DEF Wrap, Listed
    <3> QED
      BY <1>1, <1>4, <1>5, <3>1
  <2>3. \A x \in Listed' : x.timer \in run'
    BY <1>3, <1>4, <1>5 DEF ListInv, Listed
  <2> HIDE DEF Listed
  <2> QED
    BY <1>6, <2>1, <2>2, <2>3 DEF ListInv
<1>10. ReachInv'
  <2>1. \A x \in Listed' : rem'[x.timer] >= -late
    BY <1>1, <1>3, <1>4, <1>5 DEF ReachInv, Listed
  <2>2. \A x \in Items(cur') : x.time <= last + period'[x.timer]
    BY <1>1, <1>3, <1>5 DEF ReachInv, Listed
  <2>3. \A x \in Items(ovf') : x.time + TickMod <= last + period'[x.timer]
    BY <1>1, <1>4, <1>5 DEF ReachInv, Listed
  <2> QED
    BY <2>1, <2>2, <2>3 DEF ReachInv
<1>11. PlaceInv' /\ SleepInv'
  BY  DEF PlaceInv, SleepInv, Busy
<1>12. KeptInv'
  <2> SUFFICES ASSUME NEW u \in run'
               PROVE  \/ \E x \in Listed' : x.timer = u
                      \/ \E m \in Items(q') : m.cmd = "restart" /\ m.timer = u
    BY  DEF KeptInv
  <2>1. CASE u = t
    BY <2>1 DEF Listed
  <2>2. CASE u # t
    <3>1. u \in run
      BY <2>2
    <3>2. \/ \E x \in Listed : x.timer = u
          \/ \E m \in Items(q) : m.cmd = "restart" /\ m.timer = u
      BY <2>2, <3>1 DEF KeptInv
    <3>3. Listed \subseteq Listed'
      BY  DEF Listed
    <3> QED
      BY <3>2, <3>3
  <2> QED
    BY <2>1, <2>2
<1> QED
  BY <1>7, <1>8, <1>9, <1>10, <1>11, <1>12

\* tmrCOMMAND_STOP and _DELETE.
LEMMA ApplyStopStep ==
  ASSUME TInv, Apply, ApplyStop \/ ApplyDelete
  PROVE  TInv'
<1> USE DEF TInv
<1> DEFINE t == msg.timer
<1>1. /\ pc = "apply" /\ pc' = "commands" /\ msg' = Null
      /\ UNCHANGED <<tick, auto, last, left, clientVars, late>>
      /\ UNCHANGED <<listVars, period, q, early>>
      /\ active' \subseteq active /\ freed' \subseteq freed \cup {t}
      /\ run' = run \ {t} /\ rem' = [rem EXCEPT ![t] = 0]
  BY  DEF Apply, ApplyStop, ApplyDelete
<1>2. t \in TimerSet
  BY <1>1 DEF CmdInv, Types, TypeOK, Cmd
<1> DEFINE where == "now"
           time == tick
<1> DEFINE e == [timer |-> t, time |-> time]
<1>3. /\ where \in {"now", "current", "overflow"}
      /\ e \in Item /\ e.timer = t
      /\ cur' = cur /\ ovf' = ovf
  BY <1>1, <1>2, Clock DEF Item, listVars, Tick
<1>4. /\ cur' \in Seq(Item) /\ ovf' \in Seq(Item) /\ Ordered(cur') /\ Ordered(ovf')
      /\ \A x \in Items(cur'), y \in Items(ovf') : x.timer # y.timer
      /\ Items(cur') = Items(cur) /\ Items(ovf') = Items(ovf)
  BY <1>3 DEF Types, TypeOK, ListInv
<1>5. active' \subseteq TimerSet /\ freed' \subseteq TimerSet
  BY <1>1, <1>2 DEF Types, TypeOK
<1>6. /\ rem' \in [TimerSet -> Int] /\ \A u \in TimerSet : u # t => rem'[u] = rem[u]
  BY <1>1, <1>2 DEF Types
<1>7. /\ early' = {} /\ period' \in [TimerSet -> 1 .. TickMod - 1] /\ period'[t] + MaxLate < TickMod
      /\ \A u \in TimerSet : u # t => period'[u] = period[u]
  BY <1>1, <1>2 DEF Types, TypeOK
<1>8. /\ q' \in Seq(Cmd) /\ Len(q') <= QueueLength /\ Items(q) \subseteq Items(q')
      /\ \A m \in Items(q') : Sound(m)
  BY <1>1 DEF Types, TypeOK, CmdInv
<1>9. run' \subseteq run \cup {t} /\ run \ {t} \subseteq run' /\ t \notin run'
  BY <1>1
<1>10. where # "current" /\ where # "overflow" /\ t = msg.timer
  OBVIOUS
<1>11. Fits(e, where, rem'[t], period'[t])
  BY <1>7 DEF Fits
<1> HIDE DEF t, where, time, e
<1>12. Moved(e, where)
  BY <1>4, <1>10 DEF Moved
<1>13. OnlyOf(t) /\ Queued(t, where)
  BY <1>5, <1>6, <1>7, <1>8, <1>9, <1>10 DEF OnlyOf, Queued, where
<1> HIDE DEF TInv
<1> QED
  BY <1>1, <1>2, <1>3, <1>10, <1>11, <1>12, <1>13, Applied

\* tmrCOMMAND_CHANGE_PERIOD: the timer is due a whole period from the time read
\* last, so it goes to a list.
LEMMA ApplyPeriodStep ==
  ASSUME TInv, Apply, ApplyPeriod
  PROVE  TInv'
<1> USE DEF TInv
<1> DEFINE t      == msg.timer
           p      == msg.val
           expiry == (last + p) % TickMod
           where  == prvInsertTimerInActiveList(expiry, last, last, p)
           gap    == (last - last) % TickMod
<1>1. /\ pc = "apply" /\ pc' = "commands" /\ msg' = Null
      /\ UNCHANGED <<tick, auto, last, left, clientVars, late>>
      /\ UNCHANGED <<freed, q, early>>
      /\ active' = active \cup {t} /\ period' = [period EXCEPT ![t] = p]
      /\ Place(where, cur, ovf, t, expiry)
      /\ rem' = [rem EXCEPT ![t] = p - Elapsed]
      /\ run' = run \cup {t} /\ msg.cmd = "period"
  BY  DEF Apply, ApplyPeriod, Elapsed
<1>2. t \in TimerSet /\ p \in 1 .. TickMod - 1 /\ p + MaxLate < TickMod
  <2>1. msg \in Cmd /\ Sound(msg)
    BY <1>1 DEF CmdInv, Types, TypeOK
  <2>2. p \in Nat /\ p < TickMod /\ t \in TimerSet
    BY <2>1, Clock DEF Cmd, Tick
  <2>3. p > 0 /\ p + MaxLate < TickMod
    BY <1>1, <2>1 DEF Sound, SoundAt
  <2> QED
    BY <2>2, <2>3, Clock
<1>3. Elapsed <= late /\ Elapsed \in Nat /\ tick + Wrap = last + Elapsed /\ Wrap \in Int
  <2>1. msg # Null
    BY <1>1 DEF CmdInv
  <2>2. Elapsed <= late
    BY <1>1, <2>1 DEF PlaceInv
  <2> QED
    BY <1>1, <2>2, Clock
<1>4. gap = 0
  <2>1. last - last = 0
    BY Clock
  <2> QED
    BY <2>1, Clock
<1>5. /\ expiry \in Tick /\ where \in {"now", "current", "overflow"}
      /\ where = "now" => gap >= p
      /\ where = "current" => expiry - last = p - gap
      /\ where = "overflow" => expiry + TickMod - last = p - gap
  BY <1>2, WhereIs DEF Types, TypeOK
<1>6. /\ rem' \in [TimerSet -> Int] /\ rem'[t] = p - Elapsed
      /\ \A u \in TimerSet : u # t => rem'[u] = rem[u]
  <2>1. p - Elapsed \in Int
    BY <1>2, <1>3
  <2> QED
    BY <1>1, <1>2, <2>1 DEF Types
<1>7. /\ period' \in [TimerSet -> 1 .. TickMod - 1] /\ period'[t] = p
      /\ \A u \in TimerSet : u # t => period'[u] = period[u]
  BY <1>1, <1>2 DEF Types, TypeOK
<1>8. /\ early' = {} /\ active' \subseteq TimerSet /\ freed' \subseteq TimerSet
      /\ q' \in Seq(Cmd) /\ Len(q') <= QueueLength /\ Items(q) \subseteq Items(q')
      /\ \A m \in Items(q') : Sound(m)
      /\ run' \subseteq run \cup {t} /\ run \ {t} \subseteq run' /\ t \in run'
  BY <1>1, <1>2 DEF Types, TypeOK, CmdInv
<1> DEFINE o == Elapsed
           w == Wrap
<1>9. o <= late /\ o \in Nat /\ tick + w = last + o /\ w \in Int /\ rem'[t] = p - o
  BY <1>3, <1>6
<1>10. t = msg.timer
  OBVIOUS
<1> DEFINE e == [timer |-> t, time |-> expiry]
<1>11. e \in Item /\ e.timer = t /\ e.time = expiry
  BY <1>2, <1>5 DEF Item
<1> HIDE DEF t, p, expiry, where, gap, o, w, e
<1>12. Moved(e, where)
  <2>1. /\ cur \in Seq(Item) /\ ovf \in Seq(Item) /\ Ordered(cur) /\ Ordered(ovf)
        /\ \A x \in Items(cur), y \in Items(ovf) : x.timer # y.timer
    BY  DEF Types, TypeOK, ListInv
  <2>2. \A x \in Items(cur) \cup Items(ovf) : x.timer # t
    BY <1>1, <1>10 DEF CmdInv, PlaceInv, Listed
  <2>3. Place(where, cur, ovf, t, expiry)
    BY <1>1
  <2>4. t \in TimerSet /\ expiry \in Tick /\ where \in {"now", "current", "overflow"}
    BY <1>2, <1>5
  <2> QED
    BY <1>11, <2>1, <2>2, <2>3, <2>4, PlaceHere
<1>13. /\ expiry \in Int /\ last \in Int /\ tick \in Int /\ late \in Int
       /\ p \in Int /\ p >= 1 /\ TickMod \in Int
  BY <1>2, <1>5, Clock DEF Tick
<1>14. where # "now"
  BY <1>4, <1>5, <1>13
<1>15. rem'[t] >= -late
  BY <1>9, <1>13
<1>16. where = "current" => rem'[t] = expiry - tick - w /\ expiry <= last + period'[t]
  BY <1>4, <1>5, <1>7, <1>9, <1>13
<1>17. where = "overflow" => /\ rem'[t] = expiry + TickMod - tick - w
                             /\ expiry + TickMod <= last + period'[t]
  BY <1>4, <1>5, <1>7, <1>9, <1>13
<1>18. period'[t] + MaxLate < TickMod
  BY <1>2, <1>7
<1>19. Fits(e, where, rem'[t], period'[t])
  BY <1>11, <1>15, <1>16, <1>17, <1>18 DEF Fits, w
<1>20. /\ pc = "apply" /\ pc' = "commands" /\ msg' = Null
       /\ UNCHANGED <<tick, auto, last, left, clientVars, late>>
       /\ t \in TimerSet /\ where \in {"now", "current", "overflow"}
  BY <1>1, <1>2, <1>5
<1>21. OnlyOf(t) /\ Queued(t, where)
  BY <1>6, <1>7, <1>8, <1>14 DEF OnlyOf, Queued
<1> HIDE DEF TInv
<1> QED
  BY <1>10, <1>11, <1>12, <1>19, <1>20, <1>21, Applied

\* tmrCOMMAND_START: the ticks since the time of the command are those before
\* the time read last and those since, so its place is the right one however
\* long the command was on its way.
LEMMA ApplyStartStep ==
  ASSUME TInv, Apply, ApplyStart
  PROVE  TInv'
<1> USE DEF TInv
<1> DEFINE t      == msg.timer
           p      == period[t]
           val    == msg.val
           age    == msg.age
           expiry == (val + p) % TickMod
           where  == prvInsertTimerInActiveList(expiry, last, val, p)
           due    == p - age
           gap    == (last - val) % TickMod
<1>1. /\ pc = "apply" /\ pc' = "commands" /\ msg' = Null
      /\ UNCHANGED <<tick, auto, last, left, clientVars, late>>
      /\ UNCHANGED <<period, freed>>
      /\ msg.cmd \in {"start", "restart"} /\ active' = active \cup {t}
      /\ Place(where, cur, ovf, t, expiry)
      /\ \/ /\ where # "now"
            /\ run' = run \cup {t} /\ rem' = [rem EXCEPT ![t] = due]
            /\ UNCHANGED <<q, early>>
         \/ /\ where = "now" /\ t \in auto
            /\ early' = (IF due > 0 THEN early \cup {t} ELSE early)
            /\ Restart(t, expiry, age - p)
            /\ rem' = [rem EXCEPT ![t] = due + p]
         \/ /\ where = "now" /\ t \notin auto
            /\ early' = (IF due > 0 THEN early \cup {t} ELSE early)
            /\ run' = run \ {t}
            /\ rem' = [rem EXCEPT ![t] = 0] /\ UNCHANGED q
  BY  DEF Apply, ApplyStart, Fired
<1>2. /\ t \in TimerSet /\ val \in Tick /\ age \in 0 .. MaxAge /\ (val + age) % TickMod = tick
      /\ p \in 1 .. TickMod - 1 /\ p + MaxLate < TickMod
  <2>1. msg \in Cmd /\ Sound(msg)
    BY <1>1 DEF CmdInv, Types, TypeOK
  <2>2. t \in TimerSet /\ val \in Tick /\ age \in 0 .. MaxAge
    BY <2>1 DEF Cmd
  <2>3. (val + age) % TickMod = tick
    BY <1>1, <2>1 DEF Sound, SoundAt
  <2> QED
    BY <2>2, <2>3 DEF Types, TypeOK
<1>3. /\ Elapsed <= late /\ Elapsed <= age /\ Elapsed \in Nat /\ Elapsed < TickMod
      /\ Elapsed = (IF tick < last THEN tick - last + TickMod ELSE tick - last)
      /\ tick + Wrap = last + Elapsed /\ Wrap \in Int
  <2>1. msg # Null
    BY <1>1 DEF CmdInv
  <2>2. Elapsed <= late /\ Elapsed <= age
    BY <1>1, <2>1 DEF PlaceInv
  <2> QED
    BY <1>1, <2>2, Clock
<1>4. /\ expiry \in Tick /\ gap \in Tick /\ where \in {"now", "current", "overflow"}
      /\ where = "now" => gap >= p
      /\ where = "current" => expiry - last = p - gap /\ gap < p
      /\ where = "overflow" => expiry + TickMod - last = p - gap /\ gap < p
  BY <1>2, WhereIs DEF Types, TypeOK
<1>5. t = msg.timer
  OBVIOUS
<1> DEFINE o == Elapsed
           w == Wrap
<1>6. /\ o <= late /\ o <= age /\ o \in Nat /\ o < TickMod
      /\ o = (IF tick < last THEN tick - last + TickMod ELSE tick - last)
      /\ tick + w = last + o /\ w \in Int
  BY <1>3
<1>7. /\ val \in Nat /\ val < TickMod /\ age \in Nat /\ age < TickMod /\ age <= MaxAge
      /\ p \in Nat /\ p >= 1 /\ p < TickMod /\ MaxAge \in Int
      /\ last \in Nat /\ last < TickMod /\ tick \in Nat /\ tick < TickMod
      /\ late \in Nat /\ TickMod \in Nat
  BY <1>2, Clock DEF Tick
<1>8. /\ gap = (IF last < val THEN last - val + TickMod ELSE last - val)
      /\ tick = (IF val + age < TickMod THEN val + age ELSE val + age - TickMod)
      /\ expiry = (IF val + p < TickMod THEN val + p ELSE val + p - TickMod)
  <2>1. gap = (IF last < val THEN last - val + TickMod ELSE last - val)
    <3>1. last - val \in Int /\ -TickMod <= last - val /\ last - val < TickMod
      BY <1>7
    <3> QED
      BY <1>7, <3>1, ModIs
  <2>2. (val + age) % TickMod = (IF val + age < TickMod THEN val + age ELSE val + age - TickMod)
    BY <1>7, ModIs
  <2>3. expiry = (IF val + p < TickMod THEN val + p ELSE val + p - TickMod)
    BY <1>7, ModIs
  <2> QED
    BY <1>2, <2>1, <2>2, <2>3
<1>9. due = p - age
  OBVIOUS
<1> DEFINE e == [timer |-> t, time |-> expiry]
<1>10. e \in Item /\ e.timer = t /\ e.time = expiry
  BY <1>2, <1>4 DEF Item
<1> HIDE DEF t, p, val, age, expiry, where, due, gap, o, w, e
<1>11. Moved(e, where)
  <2>1. /\ cur \in Seq(Item) /\ ovf \in Seq(Item) /\ Ordered(cur) /\ Ordered(ovf)
        /\ \A x \in Items(cur), y \in Items(ovf) : x.timer # y.timer
    BY  DEF Types, TypeOK, ListInv
  <2>2. \A x \in Items(cur) \cup Items(ovf) : x.timer # t
    BY <1>1, <1>5 DEF CmdInv, PlaceInv, Listed
  <2>3. Place(where, cur, ovf, t, expiry)
    BY <1>1
  <2>4. t \in TimerSet /\ expiry \in Tick /\ where \in {"now", "current", "overflow"}
    BY <1>2, <1>4
  <2> QED
    BY <1>10, <2>1, <2>2, <2>3, <2>4, PlaceHere
<1>12. expiry \in Nat /\ expiry < TickMod /\ gap \in Nat /\ due \in Int
  BY <1>4, <1>7, <1>9 DEF Tick
\* The command's time, the time read last and the time now.
<1>13. age = gap + o
  BY <1>6, <1>7, <1>8
<1>14. where = "now" => due <= 0 /\ age - p \in 0 .. MaxAge /\ (expiry + (age - p)) % TickMod = tick
  <2> SUFFICES ASSUME where = "now"
               PROVE  due <= 0 /\ age - p \in 0 .. MaxAge /\ (expiry + (age - p)) % TickMod = tick
    OBVIOUS
  <2>1. age >= p /\ due <= 0 /\ age - p \in 0 .. MaxAge
    BY <1>4, <1>6, <1>7, <1>9, <1>12, <1>13
  <2> DEFINE s == expiry + (age - p)
  <2>2. s \in Nat /\ s < 2 * TickMod /\ (s = val + age \/ s = val + age - TickMod)
    BY <1>7, <1>8, <1>12, <2>1
  <2> HIDE DEF s
  <2>3. s % TickMod = IF s < TickMod THEN s ELSE s - TickMod
    BY <1>7, <2>2, ModIs
  <2>4. s % TickMod = tick
    BY <1>7, <1>8, <2>2, <2>3
  <2> QED
    BY <2>1, <2>4 DEF s
<1>15. /\ early' = {} /\ active' \subseteq TimerSet /\ freed' \subseteq TimerSet
       /\ period' \in [TimerSet -> 1 .. TickMod - 1] /\ period'[t] = p
       /\ \A u \in TimerSet : u # t => period'[u] = period[u]
  <2>1. early' = {}
    <3>1. where = "now" => ~(due > 0)
      BY <1>12, <1>14
    <3> QED
      BY <1>1, <3>1 DEF Types
  <2> QED
    BY <1>1, <1>2, <2>1 DEF Types, TypeOK, p
<1>16. /\ rem' \in [TimerSet -> Int] /\ (where # "now" => rem'[t] = due)
       /\ \A u \in TimerSet : u # t => rem'[u] = rem[u]
  <2>1. due + p \in Int /\ due \in Int /\ 0 \in Int
    BY <1>7, <1>12
  <2> QED
    BY <1>1, <1>2, <2>1 DEF Types
<1>17. /\ q' \in Seq(Cmd) /\ Len(q') <= QueueLength /\ Items(q) \subseteq Items(q')
       /\ \A m \in Items(q') : Sound(m)
       /\ run' \subseteq run \cup {t} /\ run \ {t} \subseteq run'
       /\ where # "now" => t \in run'
       /\ where = "now" /\ t \in run' => \E m \in Items(q') : m.cmd = "restart" /\ m.timer = t
  <2>1. q \in Seq(Cmd) /\ Len(q) <= QueueLength /\ \A m \in Items(q) : Sound(m)
    BY  DEF Types, TypeOK, CmdInv
  <2>2. CASE where # "now"
    BY <1>1, <2>1, <2>2
  <2>3. CASE where = "now" /\ t \in auto
    <3>1. Restart(t, expiry, age - p)
      BY <1>1, <2>3
    <3>2. /\ q' \in Seq(Cmd) /\ Len(q') <= QueueLength
          /\ Items(q) \subseteq Items(q') /\ \A m \in Items(q') : Sound(m)
          /\ \/ run' = run \cup {t} /\ \E m \in Items(q') : m.cmd = "restart" /\ m.timer = t
             \/ run' = run \ {t}
      BY <1>2, <1>4, <1>14, <2>3, <3>1, RestartIs
    <3> QED
      BY <2>3, <3>2
  <2>4. CASE where = "now" /\ t \notin auto
    BY <1>1, <2>1, <2>4
  <2> QED
    BY <2>2, <2>3, <2>4
<1>18. where # "now" => rem'[t] >= -late
  BY <1>4, <1>6, <1>7, <1>9, <1>12, <1>13, <1>16
<1>19. where = "current" => rem'[t] = expiry - tick - w /\ expiry <= last + period'[t]
  BY <1>4, <1>6, <1>7, <1>9, <1>12, <1>13, <1>15, <1>16
<1>20. where = "overflow" => /\ rem'[t] = expiry + TickMod - tick - w
                             /\ expiry + TickMod <= last + period'[t]
  BY <1>4, <1>6, <1>7, <1>9, <1>12, <1>13, <1>15, <1>16
<1>21. period'[t] + MaxLate < TickMod
  BY <1>2, <1>15
<1>22. /\ pc = "apply" /\ pc' = "commands" /\ msg' = Null
       /\ UNCHANGED <<tick, auto, last, left, clientVars, late>>
       /\ t \in TimerSet /\ expiry \in Tick /\ where \in {"now", "current", "overflow"}
  BY <1>1, <1>2, <1>4
<1>23. Fits(e, where, rem'[t], period'[t])
  BY <1>10, <1>18, <1>19, <1>20, <1>21 DEF Fits, w
<1>24. OnlyOf(t) /\ Queued(t, where)
  BY <1>15, <1>16, <1>17 DEF OnlyOf, Queued
<1> HIDE DEF TInv
<1> QED
  BY <1>5, <1>10, <1>11, <1>22, <1>23, <1>24, Applied

-----------------------------------------------------------------------------
(* The theorem.                                                            *)

\* The invariant holds at first: nothing runs and nothing is listed.
LEMMA TInvInit ==
  ASSUME Init
  PROVE  TInv
<1>1. Items(cur) = {} /\ Items(ovf) = {} /\ Items(q) = {} /\ Listed = {}
  BY DEF Init, Items, Listed
<1>2. Types
  <2>1. 0 \in Tick /\ 0 \in -1 .. TickMod /\ 0 \in 0 .. MaxLate
    BY TimersAssumption DEF Tick
  <2>2. cur \in Seq(Item) /\ ovf \in Seq(Item) /\ q \in Seq(Cmd) /\ Len(q) <= QueueLength
    BY TimersAssumption DEF Init
  <2>3. rem \in [TimerSet -> Int]
    BY DEF Init
  <2> QED
    BY <2>1, <2>2, <2>3, TimersAssumption DEF Init, Types, TypeOK
<1>3. CmdInv
  BY <1>1 DEF Init, CmdInv
<1>4. Ordered(cur) /\ Ordered(ovf)
  BY DEF Init, Ordered
<1>5. ListInv /\ ReachInv
  BY <1>1, <1>4 DEF ListInv, ReachInv
<1>6. PlaceInv /\ SleepInv /\ KeptInv
  BY <1>1 DEF Init, PlaceInv, SleepInv, KeptInv
<1> QED
  BY <1>2, <1>3, <1>5, <1>6 DEF TInv

\* Every step of the daemon, the tick, tasks and interrupts keeps it.
LEMMA TInvStep ==
  ASSUME TInv, [Next]_vars
  PROVE  TInv'
<1>1. CASE UNCHANGED vars
  BY <1>1 DEF vars, listVars, timerVars, clientVars, ghosts, TInv, Types, TypeOK, CmdInv,
     Sound, SoundAt, ListInv, ReachInv, PlaceInv, SleepInv, Busy, KeptInv, Wrap, Elapsed, Listed
<1>2. CASE Daemon
  <2>1. ASSUME Apply PROVE TInv'
    BY <2>1, ApplyStartStep, ApplyStopStep, ApplyPeriodStep DEF Apply
  <2> QED
    BY <1>2, <2>1, LookStep, QueueStep, ExpireStep, SwitchStep, SwitchDoneStep, SampleStep
       DEF Daemon
<1>3. CASE TickIrq
  BY <1>3, TickStep
<1>4. CASE \/ \E c \in Commands : Ask(c)
           \/ xTimerGenericCommand
           \/ \E c \in IsrCommands : IsrCommand(c)
           \/ \E m \in Modes : vTimerSetReloadMode(m)
  BY <1>4, SendStep
<1> QED
  BY <1>1, <1>2, <1>3, <1>4 DEF Next

\* The conjuncts of OnTime from those of the invariant.
LEMMA TInvOnTime ==
  ASSUME TInv
  PROVE  OnTime
<1> USE DEF TInv
<1>1. \A t : In(cur, t) \/ In(ovf, t) <=> \E x \in Listed : x.timer = t
  BY InIs DEF Listed
<1>2. TypeOK /\ NoEarlyFire
  BY DEF Types, NoEarlyFire
<1>3. ListedExact
  <2>1. \A i \in DOMAIN cur : rem[cur[i].timer] = cur[i].time - tick - Wrap
    BY DEF ListInv, Items
  <2>2. \A i \in DOMAIN ovf : rem[ovf[i].timer] = ovf[i].time + TickMod - tick - Wrap
    BY DEF ListInv, Items
  <2>3. \A l \in {cur, ovf} : \A i, j \in DOMAIN l :
          i < j => l[i].time <= l[j].time /\ l[i].timer # l[j].timer
    BY DEF ListInv, Ordered
  <2>4. \A t \in TimerSet : ~(In(cur, t) /\ In(ovf, t))
    BY InIs DEF ListInv
  <2> QED
    BY <2>1, <2>2, <2>3, <2>4 DEF ListedExact
<1>4. NeverOversleeps
  <2> SUFFICES ASSUME ~Busy, NEW t \in TimerSet, In(cur, t) \/ In(ovf, t)
               PROVE  left # Forever /\ left <= rem[t]
    BY DEF NeverOversleeps
  <2>1. PICK x \in Listed : x.timer = t
    BY <1>1
  <2> QED
    BY <2>1 DEF SleepInv, Forever
<1>5. Kept
  <2> SUFFICES ASSUME NEW t \in run
               PROVE  \/ In(cur, t) \/ In(ovf, t)
                      \/ \E i \in DOMAIN q : q[i].cmd = "restart" /\ q[i].timer = t
                      \/ pc \in {"sample", "switch", "apply"} /\ msg # Null /\ msg.timer = t
    BY DEF Kept
  <2>1. (\E m \in Items(q) : m.cmd = "restart" /\ m.timer = t)
          => \E i \in DOMAIN q : q[i].cmd = "restart" /\ q[i].timer = t
    BY DEF Items
  <2> QED
    BY <1>1, <2>1 DEF KeptInv
<1> QED
  BY <1>2, <1>3, <1>4, <1>5 DEF OnTime

\* Every timer is in the right list with the right time, or on its way there,
\* across wraps of the tick counter, late commands and a late daemon; no
\* callback of timers.c runs before its timer is due, and the daemon does not
\* sleep past one.
THEOREM TimersOnTime == Spec => []OnTime
<1>1. Init => TInv
  BY TInvInit
<1>2. TInv /\ [Next]_vars => TInv'
  BY TInvStep
<1>3. TInv => OnTime
  BY TInvOnTime
<1> QED
  BY <1>1, <1>2, <1>3, PTL DEF Spec
=============================================================================
