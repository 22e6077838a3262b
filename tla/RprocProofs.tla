---------------------------- MODULE RprocProofs ----------------------------
(***************************************************************************)
(* Proofs about Remoteproc.tla, for every table, set of threads and number *)
(* of ids and of calls: the processor runs in the state RUNNING only, the  *)
(* ids in use are in the bitmap, and remoteproc_create_virtio makes one    *)
(* device of an entry and gives it, with all its vrings, to every caller.  *)
(*                                                                         *)
(* remoteproc_set_rsc_table parses the table without the lock, an entry    *)
(* and an id at a time, so what holds once it has returned is proved of    *)
(* every step on the way.  Devices are found by their notify ids, so       *)
(* OneDevice rests on the ids being distinct.                              *)
(*                                                                         *)
(* And about Startup.tla, which goes from the remoteproc to the service,   *)
(* for every depth of the mailbox, bound of the second wait, number of     *)
(* messages and of resets: the firmware works with the features Linux      *)
(* accepted, and drops no message.                                         *)
(***************************************************************************)
EXTENDS Remoteproc, Startup, WellFoundedInduction, TLAPS

-----------------------------------------------------------------------------
(* What is asked of the tables.                                            *)

\* The ids that an entry fixes, and that a table does.
Fixed(e) == Range(Ids(e)) \ {ANY}
AllFixed(t) == UNION {Fixed(t[i]) : i \in DOMAIN t}
HasAny(e) == ANY \in Range(Ids(e))

\* A table whose ids lie in the bitmap, whose last entry alone leaves ids open,
\* and which does not fix all the ids there are if it does.
SpareId(t) ==
  /\ \A i \in DOMAIN t : Fixed(t[i]) \subseteq 0..BITS - 1
  /\ \A i \in DOMAIN t : HasAny(t[i]) => i = Len(t) /\ ~(0..BITS - 1 \subseteq AllFixed(t))

\* No id is fixed by two entries.
FixedOnce(t) == \A i, j \in DOMAIN t : i # j => Fixed(t[i]) \cap Fixed(t[j]) = {}

-----------------------------------------------------------------------------
(* The ids of the table.                                                   *)

\* handle_rsc_table has begun with the last entry, or is past it.
LastBegun(t) ==
  t # <<>> /\ (rsc_table \/ at.idx > Len(t) \/ (at.idx = Len(t) /\ at.id > 1))

\* Only the ids of the devices change in the given table t.
Shape(t) ==
  /\ t \in Seq({Carveout} \cup VdevEntry) /\ table \in Seq({Carveout} \cup VdevEntry)
  /\ Len(table) = Len(t)
  /\ \A i \in DOMAIN t : IF t[i] \in VdevEntry
                         THEN table[i] \in VdevEntry /\ table[i].vring = t[i].vring
                         ELSE table[i] = Carveout
  /\ bitmap \subseteq 0..BITS - 1
  /\ rsc_table \in BOOLEAN

\* Where handle_rsc_table stands.
Position ==
  /\ at.idx \in 0..(Len(table) + 1)
  /\ at.idx = 0 => at = NotParsing
  /\ at.idx # 0 => /\ ~rsc_table
                   /\ at = [idx |-> at.idx, id |-> at.id]
                   /\ at.id \in Nat \ {0}
  /\ at.idx \in DOMAIN table /\ table[at.idx] \in VdevEntry => at.id \in 1..Len(Ids(table[at.idx]))
  /\ at.idx \in DOMAIN table /\ table[at.idx] \notin VdevEntry => at.id = 1
  /\ at.idx = Len(table) + 1 => at.id = 1

\* The ids of the entries that have been handled are in the bitmap.
HandledMarked ==
  /\ \A i \in DOMAIN table :
       table[i] \in VdevEntry /\ (rsc_table \/ i < at.idx) =>
          Fixed(table[i]) \subseteq bitmap /\ table[i].notifyid \in bitmap
  /\ at.idx \in DOMAIN table /\ table[at.idx] \in VdevEntry =>
       /\ \A j \in 1..(at.id - 1) : Ids(table[at.idx])[j] \in bitmap \cup {ANY}
       /\ at.id > 1 => table[at.idx].notifyid \in bitmap

\* Until the last entry is begun, only ids that the table fixes are taken, and
\* the last entry is as it was given.
LastFresh(t) ==
  ~LastBegun(t) => /\ bitmap \subseteq AllFixed(t)
                   /\ t # <<>> => table[Len(t)] = t[Len(t)]

\* An entry that leaves no id open has one of its own as the device's.
OwnId(t) ==
  \A i \in DOMAIN t : t[i] \in VdevEntry /\ ~HasAny(t[i]) => table[i].notifyid \in Fixed(t[i])

\* No two devices have the same id.
DistinctIds ==
  \A i, j \in DOMAIN table :
    table[i] \in VdevEntry /\ table[j] \in VdevEntry /\ i # j =>
      table[i].notifyid # table[j].notifyid

MarkInv(t) == Shape(t) /\ Position /\ HandledMarked /\ LastFresh(t) /\ OwnId(t)
IdInv(t) == MarkInv(t) /\ DistinctIds
-----------------------------------------------------------------------------
(* The operators.                                                          *)

\* A set of ids has a smallest one.
LEMMA Smallest ==
  ASSUME NEW S \in SUBSET Nat, S # {}
  PROVE  \E i \in S : \A j \in S : i <= j
<1>1. PICK x \in S : \A y \in S : ~(<<y, x>> \in OpToRel(<, Nat))
  BY NatLessThanWellFounded, WFMin
<1>2. \A y \in S : ~(y < x)
  BY <1>1 DEF OpToRel
<1> QED
  BY <1>2

\* remoteproc_allocate_id: an id that was clear is set, and it is the one asked
\* for if one was; or nothing changes, because that one, or every one, was set.
LEMMA AllocateFacts ==
  ASSUME NEW bm \in SUBSET (0..BITS - 1), NEW start \in (0..BITS - 1) \cup {ANY}
  PROVE  LET a == AllocateId(bm, start)
         IN \/ /\ a.id \in (0..BITS - 1) \ bm
               /\ a.bitmap = bm \cup {a.id}
               /\ start # ANY => a.id = start
            \/ /\ a.id = ANY
               /\ a.bitmap = bm
               /\ IF start = ANY THEN 0..BITS - 1 \subseteq bm ELSE start \in bm
<1> DEFINE range == IF start = ANY THEN 0..BITS - 1 ELSE {start}
           clear == range \ bm
           n == CHOOSE i \in clear : \A j \in clear : i <= j
<1>1. clear \subseteq 0..BITS - 1
  OBVIOUS
<1>2. CASE clear = {}
  <2>1. AllocateId(bm, start) = [bitmap |-> bm, id |-> ANY]
    BY <1>2 DEF AllocateId
  <2> QED
    BY <1>2, <2>1
<1>3. CASE clear # {}
  <2>1. clear \in SUBSET Nat
    BY <1>1, RemoteprocAssumption
  <2>2. n \in clear
    <3> HIDE DEF clear
    <3> QED
      BY <1>3, <2>1, Smallest
  <2>3. AllocateId(bm, start) = [bitmap |-> bm \cup {n}, id |-> n]
    BY <1>3 DEF AllocateId
  <2> HIDE DEF n
  <2> QED
    BY <1>1, <2>2, <2>3
<1> QED
  BY <1>2, <1>3

\* The ids of an entry: the device's, then the vrings'.
LEMMA IdsFacts ==
  ASSUME NEW e \in VdevEntry
  PROVE  /\ Len(Ids(e)) \in Nat \ {0} /\ Len(Ids(e)) = Len(e.vring) + 1
         /\ DOMAIN Ids(e) = 1..Len(Ids(e))
         /\ Ids(e)[1] = e.notifyid
         /\ \A j \in 2..Len(Ids(e)) : Ids(e)[j] = e.vring[j - 1]
         /\ \A j \in 1..Len(Ids(e)) : Ids(e)[j] \in NotifyId
         /\ Fixed(e) = {Ids(e)[j] : j \in 1..Len(Ids(e))} \ {ANY}
         /\ HasAny(e) <=> \E j \in 1..Len(Ids(e)) : Ids(e)[j] = ANY
         /\ e.type = "vdev" /\ e.notifyid \in NotifyId /\ e # Carveout
<1>1. e.type = "vdev" /\ e.notifyid \in NotifyId /\ e.vring \in Seq(NotifyId)
  BY DEF VdevEntry
<1>2. Ids(e) = <<e.notifyid>> \o e.vring
  BY <1>1 DEF Ids
<1> DEFINE v == e.vring
           s == <<e.notifyid>> \o v
<1>3. v \in Seq(NotifyId) /\ <<e.notifyid>> \in Seq(NotifyId)
  BY <1>1
<1> HIDE DEF v
<1>4. /\ Len(s) = Len(v) + 1 /\ s[1] = e.notifyid /\ DOMAIN s = 1..Len(s)
      /\ \A j \in 2..Len(s) : s[j] = v[j - 1]
      /\ Len(v) \in Nat
  BY <1>3
<1>5. \A j \in 1..Len(s) : s[j] \in NotifyId
  BY <1>1, <1>3, <1>4
<1>6. e # Carveout
  BY <1>1 DEF Carveout
<1>7. Ids(e) = s /\ v = e.vring
  BY <1>2 DEF v
<1> HIDE DEF s
<1>8. /\ Range(Ids(e)) = {Ids(e)[j] : j \in 1..Len(Ids(e))}
      /\ DOMAIN Ids(e) = 1..Len(Ids(e))
  BY <1>4, <1>7 DEF Range
<1>9. HasAny(e) <=> \E j \in 1..Len(Ids(e)) : Ids(e)[j] = ANY
  BY <1>8 DEF HasAny
<1>10. Fixed(e) = {Ids(e)[j] : j \in 1..Len(Ids(e))} \ {ANY}
  BY <1>8 DEF Fixed
<1>11. /\ Len(Ids(e)) \in Nat \ {0} /\ Len(Ids(e)) = Len(e.vring) + 1
       /\ Ids(e)[1] = e.notifyid
       /\ \A j \in 2..Len(Ids(e)) : Ids(e)[j] = e.vring[j - 1]
       /\ \A j \in 1..Len(Ids(e)) : Ids(e)[j] \in NotifyId
  BY <1>4, <1>5, <1>7
<1> QED
  BY <1>1, <1>6, <1>8, <1>9, <1>10, <1>11

\* A carve-out has no ids.
LEMMA CarveoutFacts ==
  /\ Carveout \notin VdevEntry
  /\ Carveout.type # "vdev"
  /\ Ids(Carveout) = <<>> /\ Fixed(Carveout) = {}
<1>1. Carveout.type = "carveout"
  BY DEF Carveout
<1>2. Ids(Carveout) = <<>>
  BY <1>1 DEF Ids
<1>3. Carveout \notin VdevEntry
  BY <1>1 DEF VdevEntry
<1> QED
  BY <1>1, <1>2, <1>3 DEF Fixed, Range

\* An entry is of one of the two kinds.
LEMMA Kinds ==
  ASSUME NEW t \in Seq({Carveout} \cup VdevEntry), NEW i \in DOMAIN t
  PROVE  /\ t[i] \in VdevEntry <=> t[i].type = "vdev"
         /\ t[i] \notin VdevEntry <=> t[i] = Carveout
<1>1. t[i] \in {Carveout} \cup VdevEntry
  OBVIOUS
<1>2. CASE t[i] = Carveout
  BY <1>2, CarveoutFacts
<1>3. CASE t[i] \in VdevEntry
  BY <1>3, CarveoutFacts, IdsFacts
<1> QED
  BY <1>1, <1>2, <1>3

\* Storing an id of the device leaves everything else of the table alone.
LEMMA StoreFacts ==
  ASSUME NEW tab \in Seq({Carveout} \cup VdevEntry), NEW i \in DOMAIN tab,
         tab[i] \in VdevEntry, NEW n \in 0..BITS - 1
  PROVE  LET new == [tab EXCEPT ![i].notifyid = n]
         IN /\ new \in Seq({Carveout} \cup VdevEntry) /\ Len(new) = Len(tab)
            /\ DOMAIN new = DOMAIN tab
            /\ \A j \in DOMAIN tab : j # i => new[j] = tab[j]
            /\ new[i] \in VdevEntry
            /\ new[i].vring = tab[i].vring /\ new[i].notifyid = n
<1> DEFINE e == [tab[i] EXCEPT !.notifyid = n]
           new == [tab EXCEPT ![i] = e]
<1>0. n \in NotifyId
  BY RemoteprocAssumption DEF NotifyId
<1>1. e \in VdevEntry /\ e.vring = tab[i].vring /\ e.notifyid = n
  BY <1>0 DEF VdevEntry
<1> HIDE DEF e
<1>2. /\ new \in Seq({Carveout} \cup VdevEntry) /\ Len(new) = Len(tab)
      /\ DOMAIN new = DOMAIN tab
      /\ \A j \in DOMAIN tab : j # i => new[j] = tab[j]
      /\ new[i] = e
  BY <1>1
<1>3. new = [tab EXCEPT ![i].notifyid = n]
  BY DEF e
<1> HIDE DEF new
<1> QED
  BY <1>1, <1>2, <1>3

\* What handle_vdev_rsc is about to ask for is an id that the entry fixes, or
\* the entry leaves it open.
LEMMA StartFixed ==
  ASSUME NEW t, SpareId(t), MarkInv(t), at.idx \in DOMAIN table, table[at.idx] \in VdevEntry
  PROVE  LET start == Ids(table[at.idx])[at.id]
         IN /\ at.idx \in DOMAIN t /\ t[at.idx] \in VdevEntry
            /\ start \in (0..BITS - 1) \cup {ANY}
            /\ start # ANY => start \in Fixed(t[at.idx])
            /\ start = ANY => HasAny(t[at.idx])
            /\ start = ANY /\ at.id = 1 => ~(0..BITS - 1 \subseteq bitmap)
<1> DEFINE i == at.idx
           m == at.id
           e == table[i]
           start == Ids(e)[m]
<1>1. /\ i \in DOMAIN t /\ t[i] \in VdevEntry /\ e \in VdevEntry /\ e.vring = t[i].vring
      /\ i \in 1..Len(t) /\ DOMAIN t = 1..Len(t)
  BY Kinds, CarveoutFacts DEF MarkInv, Shape
<1>2. m \in 1..Len(Ids(e))
  BY DEF MarkInv, Position
<1> HIDE DEF e
<1>3. start \in NotifyId /\ Fixed(t[i]) \subseteq 0..BITS - 1
  BY <1>1, <1>2, IdsFacts DEF SpareId
<1>4. CASE m > 1
  <2>1. m \in 2..Len(Ids(t[i])) /\ start = Ids(t[i])[m]
    <3>1. Len(Ids(e)) = Len(e.vring) + 1 /\ \A j \in 2..Len(Ids(e)) : Ids(e)[j] = e.vring[j - 1]
      BY <1>1, IdsFacts
    <3>2. /\ Len(Ids(t[i])) = Len(t[i].vring) + 1 /\ Len(Ids(t[i])) \in Nat
          /\ \A j \in 2..Len(Ids(t[i])) : Ids(t[i])[j] = t[i].vring[j - 1]
      BY <1>1, IdsFacts
    <3>3. Len(Ids(t[i])) = Len(Ids(e)) /\ m \in 2..Len(Ids(e))
      BY <1>1, <1>2, <1>4, <3>1, <3>2
    <3>4. Ids(e)[m] = e.vring[m - 1] /\ Ids(t[i])[m] = t[i].vring[m - 1]
      BY <3>1, <3>2, <3>3, Zenon
    <3> QED
      BY <1>1, <3>3, <3>4, Zenon
  <2> HIDE DEF start
  <2> QED
    BY <1>1, <1>3, <1>4, <2>1, IdsFacts DEF start, e
<1>5. CASE m = 1
  <2>1. start = e.notifyid
    BY <1>1, <1>5, IdsFacts
  <2>2. CASE ~HasAny(t[i])
    <3>1. e.notifyid \in Fixed(t[i])
      BY <1>1, <2>2 DEF MarkInv, OwnId, e
    <3>2. e.notifyid # ANY
      BY <3>1 DEF Fixed
    <3> QED
      BY <1>1, <1>3, <2>1, <3>1, <3>2 DEF e
  <2>3. CASE HasAny(t[i])
    <3>1. i = Len(t) /\ ~(0..BITS - 1 \subseteq AllFixed(t))
      BY <1>1, <2>3 DEF SpareId
    <3>2. ~LastBegun(t)
      BY <1>1, <1>5, <3>1 DEF LastBegun, MarkInv, Position
    <3>3. bitmap \subseteq AllFixed(t) /\ e = t[i]
      BY <1>1, <3>1, <3>2 DEF MarkInv, LastFresh, e
    <3>4. start # ANY => start \in Fixed(t[i])
      BY <1>1, <1>2, <3>3, IdsFacts
    <3> QED
      BY <1>1, <1>3, <2>3, <3>1, <3>3, <3>4 DEF e
  <2> QED
    BY <2>2, <2>3
<1> QED
  BY <1>2, <1>4, <1>5

\* One id in handle_vdev_rsc: it is taken and stored, or it is left as it is.
LEMMA VdevIdStep ==
  ASSUME NEW t, SpareId(t), MarkInv(t), HandleVdevId
  PROVE  LET i == at.idx
             start == Ids(table[i])[at.id]
         IN /\ i \in DOMAIN table /\ table[i] \in VdevEntry
            /\ at.id \in 1..Len(Ids(table[i]))
            /\ at' = IF at.id = Len(Ids(table[i])) THEN [idx |-> i + 1, id |-> 1]
                     ELSE [idx |-> i, id |-> at.id + 1]
            /\ ~rsc_table /\ UNCHANGED rsc_table
            /\ \/ \E n \in (0..BITS - 1) \ bitmap :
                    /\ bitmap' = bitmap \cup {n}
                    /\ table' = [table EXCEPT ![i].notifyid = n]
                    /\ start # ANY => n = start
               \/ /\ UNCHANGED <<bitmap, table>>
                  /\ IF start = ANY THEN at.id > 1 ELSE start \in bitmap
<1> DEFINE i == at.idx
           start == Ids(table[i])[at.id]
           a == AllocateId(bitmap, start)
<1>1. i \in DOMAIN table /\ table[i] \in VdevEntry
  BY Kinds DEF HandleVdevId, MarkInv, Shape
<1>2. /\ at.id \in 1..Len(Ids(table[i])) /\ ~rsc_table
      /\ at = [idx |-> i, id |-> at.id]
  BY <1>1 DEF MarkInv, Position, Shape
<1>3. bitmap \in SUBSET (0..BITS - 1) /\ start \in (0..BITS - 1) \cup {ANY}
  BY <1>1, StartFixed DEF MarkInv, Shape
<1>4. \/ /\ a.id \in (0..BITS - 1) \ bitmap
         /\ a.bitmap = bitmap \cup {a.id}
         /\ start # ANY => a.id = start
      \/ /\ a.id = ANY
         /\ a.bitmap = bitmap
         /\ IF start = ANY THEN 0..BITS - 1 \subseteq bitmap ELSE start \in bitmap
  BY <1>3, AllocateFacts
<1>5. /\ bitmap' = a.bitmap
      /\ table' = IF a.id = ANY THEN table ELSE [table EXCEPT ![i].notifyid = a.id]
      /\ at' = IF at.id = Len(Ids(table[i])) THEN [idx |-> i + 1, id |-> 1]
               ELSE [at EXCEPT !.id = at.id + 1]
      /\ UNCHANGED rsc_table
  <2>1. Allocations(bitmap, start) = {a}
    BY <1>3, RemoteprocAssumption DEF Allocations, Behind
  <2> HIDE DEF a
  <2> QED
    BY <2>1 DEF HandleVdevId
<1>6. [at EXCEPT !.id = at.id + 1] = [idx |-> i, id |-> at.id + 1]
  BY <1>2
<1>7. ANY \notin 0..BITS - 1
  BY RemoteprocAssumption
<1>8. start = ANY /\ 0..BITS - 1 \subseteq bitmap => at.id > 1
  BY <1>1, <1>2, StartFixed, IdsFacts
<1> HIDE DEF a, start
<1>9. \/ \E n \in (0..BITS - 1) \ bitmap :
                    /\ bitmap' = bitmap \cup {n}
                    /\ table' = [table EXCEPT ![i].notifyid = n]
                    /\ start # ANY => n = start
      \/ /\ UNCHANGED <<bitmap, table>>
         /\ IF start = ANY THEN at.id > 1 ELSE start \in bitmap
  BY <1>4, <1>5, <1>7, <1>8
<1> QED
  BY <1>1, <1>2, <1>5, <1>6, <1>9 DEF start

\* After it, the id of the device is in the bitmap, either the old one or one
\* that was not, and so is the id that was asked for.
LEMMA VdevIdPost ==
  ASSUME NEW t, SpareId(t), MarkInv(t), HandleVdevId
  PROVE  LET i == at.idx
             start == Ids(table[i])[at.id]
             n == table'[i].notifyid
         IN /\ table' \in Seq({Carveout} \cup VdevEntry) /\ Len(table') = Len(table)
            /\ DOMAIN table' = DOMAIN table
            /\ \A j \in DOMAIN table : j # i => table'[j] = table[j]
            /\ table'[i] \in VdevEntry /\ table'[i].vring = table[i].vring
            /\ Len(Ids(table'[i])) = Len(Ids(table[i]))
            /\ \A k \in 2..Len(Ids(table[i])) : Ids(table'[i])[k] = Ids(table[i])[k]
            /\ Ids(table'[i])[1] = n
            /\ bitmap \subseteq bitmap' /\ bitmap' \subseteq 0..BITS - 1
            /\ n \in bitmap' /\ start \in bitmap' \cup {ANY}
            /\ \/ n = table[i].notifyid /\ bitmap' = bitmap
               \/ /\ n \notin bitmap /\ bitmap' = bitmap \cup {n}
                  /\ start # ANY => n = start
<1> DEFINE i == at.idx
           start == Ids(table[i])[at.id]
<1>1. /\ i \in DOMAIN table /\ table[i] \in VdevEntry
      /\ at.id \in 1..Len(Ids(table[i]))
      /\ \/ \E n \in (0..BITS - 1) \ bitmap :
              /\ bitmap' = bitmap \cup {n}
              /\ table' = [table EXCEPT ![i].notifyid = n]
              /\ start # ANY => n = start
         \/ /\ UNCHANGED <<bitmap, table>>
            /\ IF start = ANY THEN at.id > 1 ELSE start \in bitmap
  BY VdevIdStep
<1>2. table \in Seq({Carveout} \cup VdevEntry) /\ bitmap \subseteq 0..BITS - 1
  BY DEF MarkInv, Shape
<1> HIDE DEF start
<1>3. CASE \E n \in (0..BITS - 1) \ bitmap :
              /\ bitmap' = bitmap \cup {n}
              /\ table' = [table EXCEPT ![i].notifyid = n]
              /\ start # ANY => n = start
  <2>1. PICK n \in (0..BITS - 1) \ bitmap :
              /\ bitmap' = bitmap \cup {n}
              /\ table' = [table EXCEPT ![i].notifyid = n]
              /\ start # ANY => n = start
    BY <1>3
  <2>2. /\ table' \in Seq({Carveout} \cup VdevEntry) /\ Len(table') = Len(table)
        /\ DOMAIN table' = DOMAIN table
        /\ \A j \in DOMAIN table : j # i => table'[j] = table[j]
        /\ table'[i] \in VdevEntry
        /\ table'[i].vring = table[i].vring /\ table'[i].notifyid = n
    BY <1>1, <1>2, <2>1, StoreFacts
  <2>3. /\ Len(Ids(table[i])) = Len(table[i].vring) + 1
        /\ \A j \in 2..Len(Ids(table[i])) : Ids(table[i])[j] = table[i].vring[j - 1]
    BY <1>1, IdsFacts
  <2>4. /\ Len(Ids(table'[i])) = Len(table'[i].vring) + 1
        /\ \A j \in 2..Len(Ids(table'[i])) : Ids(table'[i])[j] = table'[i].vring[j - 1]
        /\ Ids(table'[i])[1] = table'[i].notifyid
    BY <2>2, IdsFacts
  <2>5. /\ n \in bitmap' /\ start \in bitmap' \cup {ANY}
        /\ bitmap \subseteq bitmap' /\ bitmap' \subseteq 0..BITS - 1
    BY <1>2, <2>1
  <2>6. /\ Len(Ids(table'[i])) = Len(Ids(table[i]))
        /\ \A k \in 2..Len(Ids(table[i])) : Ids(table'[i])[k] = Ids(table[i])[k]
        /\ Ids(table'[i])[1] = table'[i].notifyid
    BY <2>2, <2>3, <2>4
  <2>7. table'[i].notifyid \notin bitmap /\ bitmap' = bitmap \cup {table'[i].notifyid}
    BY <2>1, <2>2
  <2> QED
    BY <2>1, <2>2, <2>5, <2>6, <2>7 DEF start
<1>4. CASE /\ UNCHANGED <<bitmap, table>>
           /\ IF start = ANY THEN at.id > 1 ELSE start \in bitmap
  <2>1. table[i].notifyid \in bitmap
    <3>1. CASE at.id = 1
      <4>1. start = table[i].notifyid
        BY <1>1, <3>1, IdsFacts DEF start
      <4> QED
        BY <1>4, <3>1, <4>1
    <3>2. CASE at.id > 1
      BY <1>1, <3>2 DEF MarkInv, HandledMarked
    <3> QED
      BY <1>1, <3>1, <3>2
  <2>2. Ids(table[i])[1] = table[i].notifyid
    BY <1>1, IdsFacts
  <2>3. table' = table /\ bitmap' = bitmap /\ start \in bitmap \cup {ANY}
    BY <1>4
  <2> QED
    BY <1>1, <1>2, <2>1, <2>2, <2>3 DEF start
<1> QED
  BY <1>1, <1>3, <1>4

\* handle_vdev_rsc keeps what is known of the ids.
LEMMA VdevIdMarks ==
  ASSUME NEW t, SpareId(t), MarkInv(t), HandleVdevId
  PROVE  MarkInv(t)'
<1> DEFINE i == at.idx
           start == Ids(table[i])[at.id]
           n == table'[i].notifyid
<1>1. /\ i \in DOMAIN table /\ table[i] \in VdevEntry
      /\ at.id \in 1..Len(Ids(table[i]))
      /\ at' = IF at.id = Len(Ids(table[i])) THEN [idx |-> i + 1, id |-> 1]
               ELSE [idx |-> i, id |-> at.id + 1]
      /\ ~rsc_table /\ UNCHANGED rsc_table
  BY VdevIdStep
<1>2. /\ table' \in Seq({Carveout} \cup VdevEntry) /\ Len(table') = Len(table)
      /\ DOMAIN table' = DOMAIN table
      /\ \A j \in DOMAIN table : j # i => table'[j] = table[j]
      /\ table'[i] \in VdevEntry /\ table'[i].vring = table[i].vring
      /\ Len(Ids(table'[i])) = Len(Ids(table[i]))
      /\ \A k \in 2..Len(Ids(table[i])) : Ids(table'[i])[k] = Ids(table[i])[k]
      /\ Ids(table'[i])[1] = n
      /\ bitmap \subseteq bitmap' /\ bitmap' \subseteq 0..BITS - 1
      /\ n \in bitmap' /\ start \in bitmap' \cup {ANY}
      /\ \/ n = table[i].notifyid /\ bitmap' = bitmap
         \/ /\ n \notin bitmap /\ bitmap' = bitmap \cup {n}
            /\ start # ANY => n = start
  BY VdevIdPost
<1>3. /\ i \in DOMAIN t /\ t[i] \in VdevEntry
      /\ start # ANY => start \in Fixed(t[i])
      /\ start = ANY => HasAny(t[i])
  BY <1>1, StartFixed
<1>4. /\ t \in Seq({Carveout} \cup VdevEntry) /\ table \in Seq({Carveout} \cup VdevEntry)
      /\ Len(table) = Len(t) /\ DOMAIN t = 1..Len(t) /\ DOMAIN table = 1..Len(t)
      /\ Len(t) \in Nat /\ i \in 1..Len(t)
  BY <1>1 DEF MarkInv, Shape
<1>5. Len(Ids(table[i])) \in Nat \ {0} /\ at.id \in Nat \ {0}
  BY <1>1, IdsFacts
<1> HIDE DEF start, n
<1>6. Shape(t)'
  BY <1>1, <1>2, <1>3, <1>4 DEF MarkInv, Shape
<1>7. Position'
  <2>1. CASE at.id = Len(Ids(table[i]))
    <3>1. at' = [idx |-> i + 1, id |-> 1] /\ at'.idx = i + 1 /\ at'.id = 1
      BY <1>1, <2>1
    <3>2. ASSUME at'.idx \in DOMAIN table', table'[at'.idx] \in VdevEntry
          PROVE  at'.id \in 1..Len(Ids(table'[at'.idx]))
      BY <3>1, <3>2, IdsFacts
    <3> QED
      BY <1>1, <1>2, <1>4, <3>1, <3>2 DEF Position, NotParsing
  <2>2. CASE at.id # Len(Ids(table[i]))
    <3>1. at' = [idx |-> i, id |-> at.id + 1] /\ at'.idx = i /\ at'.id = at.id + 1
      BY <1>1, <2>2
    <3>2. at.id + 1 \in 1..Len(Ids(table'[i]))
      BY <1>1, <1>2, <1>5, <2>2
    <3> QED
      BY <1>1, <1>2, <1>4, <1>5, <3>1, <3>2 DEF Position, NotParsing
  <2> QED
    BY <2>1, <2>2
<1>8. \A k \in 1..at.id : Ids(table'[i])[k] \in bitmap' \cup {ANY}
  <2> SUFFICES ASSUME NEW k \in 1..at.id PROVE Ids(table'[i])[k] \in bitmap' \cup {ANY}
    OBVIOUS
  <2>1. CASE k = 1
    BY <1>2, <2>1
  <2>2. CASE k > 1 /\ k = at.id
    BY <1>1, <1>2, <1>5, <2>2 DEF start
  <2>3. CASE k > 1 /\ k < at.id
    <3>1. Ids(table[i])[k] \in bitmap \cup {ANY}
      BY <1>1, <2>3 DEF MarkInv, HandledMarked
    <3> QED
      BY <1>1, <1>2, <1>5, <2>3, <3>1
  <2> QED
    BY <1>5, <2>1, <2>2, <2>3
<1>9. HandledMarked'
  <2>1. ASSUME NEW j \in DOMAIN table', table'[j] \in VdevEntry, j < at'.idx
        PROVE  Fixed(table'[j]) \subseteq bitmap' /\ table'[j].notifyid \in bitmap'
    <3>1. CASE j = i
      <4>1. at.id = Len(Ids(table[i]))
        BY <1>1, <1>4, <2>1, <3>1
      <4>2. Fixed(table'[i]) = {Ids(table'[i])[k] : k \in 1..Len(Ids(table'[i]))} \ {ANY}
        BY <1>2, IdsFacts
      <4> QED
        BY <1>2, <1>8, <3>1, <4>1, <4>2 DEF n
    <3>2. CASE j # i
      <4>1. j < i /\ j \in DOMAIN table /\ table'[j] = table[j]
        BY <1>1, <1>2, <1>4, <2>1, <3>2
      <4>2. Fixed(table[j]) \subseteq bitmap /\ table[j].notifyid \in bitmap
        BY <2>1, <4>1 DEF MarkInv, HandledMarked
      <4> QED
        BY <1>2, <4>1, <4>2
    <3> QED
      BY <3>1, <3>2
  <2>2. ASSUME at'.idx \in DOMAIN table', table'[at'.idx] \in VdevEntry
        PROVE  /\ \A k \in 1..(at'.id - 1) : Ids(table'[at'.idx])[k] \in bitmap' \cup {ANY}
               /\ at'.id > 1 => table'[at'.idx].notifyid \in bitmap'
    <3>1. CASE at.id = Len(Ids(table[i]))
      BY <1>1, <3>1
    <3>2. CASE at.id # Len(Ids(table[i]))
      <4>1. at'.idx = i /\ at'.id = at.id + 1
        BY <1>1, <3>2
      <4>2. 1..(at'.id - 1) = 1..at.id
        BY <1>5, <4>1
      <4> QED
        BY <1>2, <1>8, <4>1, <4>2 DEF n
    <3> QED
      BY <3>1, <3>2
  <2> QED
    BY <1>1, <2>1, <2>2 DEF HandledMarked
<1>10. LastFresh(t)'
  <2> SUFFICES ASSUME ~LastBegun(t)'
               PROVE  bitmap' \subseteq AllFixed(t) /\ (t # <<>> => table'[Len(t)] = t[Len(t)])
    BY DEF LastFresh
  <2>1. i < Len(t)
    BY <1>1, <1>4, <1>5 DEF LastBegun
  <2>2. ~LastBegun(t)
    BY <1>1, <1>4, <2>1 DEF LastBegun
  <2>3. bitmap \subseteq AllFixed(t) /\ table[Len(t)] = t[Len(t)]
    BY <1>4, <2>1, <2>2 DEF MarkInv, LastFresh
  <2>4. ~HasAny(t[i])
    BY <1>3, <2>1 DEF SpareId
  <2>5. start \in AllFixed(t)
    BY <1>3, <2>4 DEF AllFixed
  <2>6. bitmap' \subseteq AllFixed(t)
    BY <1>2, <1>3, <2>3, <2>4, <2>5
  <2>7. table'[Len(t)] = table[Len(t)]
    BY <1>2, <1>4, <2>1
  <2> QED
    BY <2>3, <2>6, <2>7
<1>11. OwnId(t)'
  <2> SUFFICES ASSUME NEW j \in DOMAIN t, t[j] \in VdevEntry, ~HasAny(t[j])
               PROVE  table'[j].notifyid \in Fixed(t[j])
    BY DEF OwnId
  <2>1. table[j].notifyid \in Fixed(t[j])
    BY DEF MarkInv, OwnId
  <2>2. CASE j = i
    BY <1>2, <1>3, <2>1, <2>2 DEF n
  <2>3. CASE j # i
    BY <1>2, <1>4, <2>1, <2>3
  <2> QED
    BY <2>2, <2>3
<1> QED
  BY <1>6, <1>7, <1>9, <1>10, <1>11 DEF MarkInv

\* An id that handle_vdev_rsc stores is no other device's: a fixed one is fixed
\* once, and a chosen one was clear when the ids of all other devices were set.
LEMMA VdevIdDistinct ==
  ASSUME NEW t, SpareId(t), FixedOnce(t), IdInv(t), HandleVdevId
  PROVE  DistinctIds'
<1> DEFINE i == at.idx
           start == Ids(table[i])[at.id]
           n == table'[i].notifyid
<1>0. MarkInv(t)
  BY DEF IdInv
<1>1. /\ i \in DOMAIN table /\ table[i] \in VdevEntry
      /\ at.id \in 1..Len(Ids(table[i]))
  BY <1>0, VdevIdStep
<1>2. /\ DOMAIN table' = DOMAIN table
      /\ \A j \in DOMAIN table : j # i => table'[j] = table[j]
      /\ \/ n = table[i].notifyid
         \/ n \notin bitmap /\ (start # ANY => n = start)
  BY <1>0, VdevIdPost
<1>3. /\ i \in DOMAIN t
      /\ start # ANY => start \in Fixed(t[i])
      /\ start = ANY => HasAny(t[i])
  BY <1>0, <1>1, StartFixed
<1>4. ASSUME NEW j \in DOMAIN table, j # i, table[j] \in VdevEntry
      PROVE  n # table[j].notifyid
  <2>1. table[i].notifyid # table[j].notifyid
    BY <1>1, <1>4 DEF IdInv, DistinctIds
  <2>2. /\ j \in DOMAIN t /\ t[j] \in VdevEntry /\ i \in 1..Len(t) /\ j \in 1..Len(t)
        /\ Len(t) \in Nat /\ t \in Seq({Carveout} \cup VdevEntry) /\ DOMAIN t = 1..Len(t)
    BY <1>0, <1>1, <1>4, Kinds, CarveoutFacts DEF MarkInv, Shape
  <2>3. CASE n \notin bitmap /\ start = ANY
    <3>1. i = Len(t)
      BY <1>3, <2>3 DEF SpareId
    <3>2. table[j].notifyid \in bitmap
      BY <1>0, <1>4, <2>2, <3>1 DEF MarkInv, HandledMarked
    <3> QED
      BY <2>3, <3>2
  <2>4. CASE n = start /\ start # ANY
    <3>1. CASE HasAny(t[j])
      <4>1. j = Len(t)
        BY <2>2, <3>1 DEF SpareId
      <4>2. ~LastBegun(t)
        BY <1>0, <1>1, <1>4, <2>2, <4>1 DEF LastBegun, MarkInv, Position, Shape
      <4>3. table[j] = t[j]
        BY <1>0, <2>2, <4>1, <4>2 DEF MarkInv, LastFresh
      <4>4. table[j].notifyid \in Fixed(t[j]) \cup {ANY}
        BY <2>2, <4>3, IdsFacts
      <4> QED
        BY <1>3, <1>4, <2>2, <2>4, <4>4 DEF FixedOnce
    <3>2. CASE ~HasAny(t[j])
      <4>1. table[j].notifyid \in Fixed(t[j])
        BY <1>0, <2>2, <3>2 DEF MarkInv, OwnId
      <4> QED
        BY <1>3, <1>4, <2>2, <2>4, <4>1 DEF FixedOnce
    <3> QED
      BY <3>1, <3>2
  <2> HIDE DEF n, start
  <2> QED
    BY <1>2, <2>1, <2>3, <2>4
<1> HIDE DEF start
<1> SUFFICES ASSUME NEW j \in DOMAIN table', NEW k \in DOMAIN table',
                    table'[j] \in VdevEntry, table'[k] \in VdevEntry, j # k
             PROVE  table'[j].notifyid # table'[k].notifyid
  BY DEF DistinctIds
<1>5. CASE j = i
  BY <1>2, <1>4, <1>5
<1>6. CASE k = i
  BY <1>2, <1>4, <1>6
<1>7. CASE j # i /\ k # i
  BY <1>2, <1>7 DEF IdInv, DistinctIds
<1> QED
  BY <1>5, <1>6, <1>7

\* The other steps of remoteproc_set_rsc_table store no id.
LEMMA ParseMarks ==
  ASSUME NEW t, MarkInv(t),
         SetRscTable \/ HandleCarveOut \/ SetRscTableFails \/ SetRscTableEnds
  PROVE  MarkInv(t)' /\ UNCHANGED table
<1>1. UNCHANGED <<table, bitmap>>
  BY DEF SetRscTable, HandleCarveOut, SetRscTableFails, SetRscTableEnds
<1>2. /\ t \in Seq({Carveout} \cup VdevEntry) /\ table \in Seq({Carveout} \cup VdevEntry)
      /\ Len(table) = Len(t) /\ DOMAIN t = 1..Len(t) /\ DOMAIN table = 1..Len(t)
      /\ Len(t) \in Nat
  BY DEF MarkInv, Shape
<1>3. rsc_table' \in BOOLEAN
  BY Zenon DEF SetRscTable, HandleCarveOut, SetRscTableFails, SetRscTableEnds, MarkInv, Shape
<1>4. Shape(t)' /\ OwnId(t)'
  BY <1>1, <1>3 DEF MarkInv, Shape, OwnId
<1>5. \A j \in DOMAIN table : table[j] \in VdevEntry => 1 \in 1..Len(Ids(table[j]))
  BY IdsFacts
<1>6. CASE SetRscTable
  <2>1. /\ at = NotParsing /\ at.idx = 0 /\ ~rsc_table /\ ~rsc_table'
        /\ at' = [idx |-> 1, id |-> 1] /\ at'.idx = 1 /\ at'.id = 1
    BY <1>6 DEF SetRscTable, NotParsing, MarkInv, Shape
  <2>2. Position'
    BY <1>1, <1>2, <1>5, <2>1 DEF Position
  <2>3. HandledMarked'
    BY <1>1, <1>2, <2>1 DEF HandledMarked
  <2>4. LastFresh(t)'
    <3>1. ~LastBegun(t)
      BY <1>2, <2>1 DEF LastBegun
    <3> QED
      BY <1>1, <3>1 DEF MarkInv, LastFresh
  <2> QED
    BY <1>1, <1>4, <2>2, <2>3, <2>4 DEF MarkInv
<1>7. CASE HandleCarveOut
  <2>1. /\ at.idx \in 1..Len(t) /\ table[at.idx] \notin VdevEntry /\ UNCHANGED rsc_table
        /\ at' = [idx |-> at.idx + 1, id |-> 1] /\ at'.idx = at.idx + 1 /\ at'.id = 1
        /\ ~rsc_table /\ table[at.idx] = Carveout /\ at.id = 1
    BY <1>2, <1>7, CarveoutFacts DEF HandleCarveOut, MarkInv, Position
  <2>2. Position'
    BY <1>1, <1>2, <1>5, <2>1 DEF Position
  <2>3. HandledMarked'
    <3>1. ASSUME NEW j \in DOMAIN table, table[j] \in VdevEntry, j < at'.idx
          PROVE  Fixed(table[j]) \subseteq bitmap /\ table[j].notifyid \in bitmap
      <4>1. j < at.idx
        BY <1>2, <2>1, <3>1
      <4> QED
        BY <3>1, <4>1 DEF MarkInv, HandledMarked
    <3> QED
      BY <1>1, <1>2, <2>1, <3>1 DEF HandledMarked
  <2>4. LastFresh(t)'
    <3>1. ~LastBegun(t)' => ~LastBegun(t)
      BY <1>2, <2>1 DEF LastBegun
    <3> QED
      BY <1>1, <3>1 DEF MarkInv, LastFresh
  <2> QED
    BY <1>1, <1>4, <2>2, <2>3, <2>4 DEF MarkInv
<1>8. CASE SetRscTableFails
  <2>1. /\ at.id = 1 /\ (at.idx = 1 \/ at.idx \in DOMAIN table)
        /\ ~rsc_table /\ UNCHANGED rsc_table
        /\ at' = NotParsing /\ at'.idx = 0 /\ at'.id = 0
    BY <1>2, <1>8 DEF SetRscTableFails, MarkInv, Position, NotParsing
  <2>2. Position'
    BY <1>1, <1>2, <2>1 DEF Position
  <2>3. HandledMarked'
    BY <1>1, <1>2, <2>1 DEF HandledMarked
  <2>4. LastFresh(t)'
    <3>1. ~LastBegun(t)
      BY <1>2, <2>1 DEF LastBegun
    <3> QED
      BY <1>1, <3>1 DEF MarkInv, LastFresh
  <2> QED
    BY <1>1, <1>4, <2>2, <2>3, <2>4 DEF MarkInv
<1>9. CASE SetRscTableEnds
  <2>1. at.idx = Len(t) + 1 /\ rsc_table' /\ at' = NotParsing /\ at'.idx = 0
    BY <1>2, <1>9 DEF SetRscTableEnds, NotParsing
  <2>2. Position'
    BY <1>1, <1>2, <2>1 DEF Position
  <2>3. HandledMarked'
    <3>1. ASSUME NEW j \in DOMAIN table, table[j] \in VdevEntry
          PROVE  Fixed(table[j]) \subseteq bitmap /\ table[j].notifyid \in bitmap
      <4>1. j < at.idx
        BY <1>2, <2>1
      <4> QED
        BY <3>1, <4>1 DEF MarkInv, HandledMarked
    <3> QED
      BY <1>1, <1>2, <2>1, <3>1 DEF HandledMarked
  <2>4. LastFresh(t)'
    <3>1. ~LastBegun(t)' => ~LastBegun(t)
      BY <2>1 DEF LastBegun
    <3> QED
      BY <1>1, <3>1 DEF MarkInv, LastFresh
  <2> QED
    BY <1>1, <1>4, <2>2, <2>3, <2>4 DEF MarkInv
<1> QED
  BY <1>1, <1>6, <1>7, <1>8, <1>9

Parse == SetRscTable \/ HandleVdevId \/ HandleCarveOut \/ SetRscTableFails \/ SetRscTableEnds

\* All other calls leave the table alone.
LEMMA OthersLeaveIds ==
  ASSUME [RprocNext]_rprocVars
  PROVE  Parse \/ UNCHANGED ids
  BY DEF RprocNext, rprocVars, Parse, Config, RemoveRproc, LinuxDriverOk, Start, Stop,
         Shutdown, CreateFound, CreateNoMemory, CreateBegin, CreateReady, MapVring,
         CreateDone, CreateFails, RemoveVirtio

\* Every step keeps what is known of the ids in the bitmap.
LEMMA MarksStep ==
  ASSUME NEW t, SpareId(t), MarkInv(t), [RprocNext]_rprocVars
  PROVE  MarkInv(t)'
<1>1. CASE HandleVdevId
  BY <1>1, VdevIdMarks
<1>2. CASE SetRscTable \/ HandleCarveOut \/ SetRscTableFails \/ SetRscTableEnds
  BY <1>2, ParseMarks
<1>3. CASE UNCHANGED ids
  <2>1. UNCHANGED <<table, rsc_table, bitmap, at>>
    BY <1>3 DEF ids
  <2> QED
    BY <2>1 DEF MarkInv, Shape, Position, HandledMarked, LastFresh, LastBegun, OwnId
<1> QED
  BY <1>1, <1>2, <1>3, OthersLeaveIds DEF Parse

\* Every step keeps that no two devices have the same id, too.
LEMMA IdsStep ==
  ASSUME NEW t, SpareId(t), FixedOnce(t), IdInv(t), [RprocNext]_rprocVars
  PROVE  IdInv(t)'
<1>1. MarkInv(t)'
  BY MarksStep DEF IdInv
<1>2. CASE HandleVdevId
  BY <1>1, <1>2, VdevIdDistinct DEF IdInv
<1>3. CASE UNCHANGED table
  BY <1>1, <1>3 DEF IdInv, DistinctIds
<1>4. HandleVdevId \/ UNCHANGED table
  BY OthersLeaveIds, ParseMarks DEF Parse, ids, IdInv
<1> QED
  BY <1>2, <1>3, <1>4

\* The table as the firmware image gives it.
LEMMA IdsInit ==
  ASSUME RprocInit
  PROVE  /\ table \in Tables
         /\ SpareId(table) => MarkInv(table)
         /\ SpareId(table) /\ FixedOnce(table) => IdInv(table)
<1>1. /\ table \in Tables /\ table \in Seq({Carveout} \cup VdevEntry) /\ bitmap = {}
      /\ rsc_table = FALSE /\ at = NotParsing /\ at.idx = 0
  BY RemoteprocAssumption DEF RprocInit, NotParsing
<1>2. DOMAIN table = 1..Len(table) /\ Len(table) \in Nat
  BY <1>1
<1>3. Shape(table) /\ Position /\ HandledMarked /\ LastFresh(table)
  <2>1. Shape(table)
    BY <1>1, Kinds DEF Shape
  <2>2. Position
    BY <1>1, <1>2 DEF Position
  <2>3. HandledMarked
    BY <1>1, <1>2 DEF HandledMarked
  <2>4. LastFresh(table)
    BY <1>1 DEF LastFresh
  <2> QED
    BY <2>1, <2>2, <2>3, <2>4
<1>4. OwnId(table)
  <2> SUFFICES ASSUME NEW i \in DOMAIN table, table[i] \in VdevEntry, ~HasAny(table[i])
               PROVE  table[i].notifyid \in Fixed(table[i])
    BY DEF OwnId
  <2>1. /\ 1 \in 1..Len(Ids(table[i])) /\ Ids(table[i])[1] = table[i].notifyid
        /\ Ids(table[i])[1] # ANY
    BY IdsFacts
  <2> QED
    BY <2>1, IdsFacts
<1>5. ASSUME SpareId(table), FixedOnce(table) PROVE DistinctIds
  <2> SUFFICES ASSUME NEW i \in DOMAIN table, NEW j \in DOMAIN table, i # j,
                      table[i] \in VdevEntry, table[j] \in VdevEntry
               PROVE  table[i].notifyid # table[j].notifyid
    BY DEF DistinctIds
  <2>1. ~HasAny(table[i]) \/ ~HasAny(table[j])
    BY <1>5 DEF SpareId
  <2>2. /\ table[i].notifyid \in Fixed(table[i]) \cup {ANY}
        /\ (~HasAny(table[i]) => table[i].notifyid \in Fixed(table[i]))
    BY <1>4, IdsFacts DEF OwnId
  <2>3. /\ table[j].notifyid \in Fixed(table[j]) \cup {ANY}
        /\ (~HasAny(table[j]) => table[j].notifyid \in Fixed(table[j]))
    BY <1>4, IdsFacts DEF OwnId
  <2>4. ANY \notin Fixed(table[i]) /\ ANY \notin Fixed(table[j])
    BY DEF Fixed
  <2> QED
    BY <1>5, <2>1, <2>2, <2>3, <2>4 DEF FixedOnce
<1> QED
  BY <1>1, <1>3, <1>4, <1>5 DEF MarkInv, IdInv

-----------------------------------------------------------------------------
(* The devices.                                                            *)

Flags == {running, stopIgnored, removed, rsc_table, overrun, listed, driver_ok, badFree}

\* Without the devices' part, the type of the state.
LifeInv ==
  /\ state \in {"OFFLINE", "READY", "RUNNING", "STOPPED"}
  /\ Flags \subseteq BOOLEAN
  /\ ops \in 0..MaxOps
  /\ StoppedUnlessIgnored

\* The devices in the list and the one that is being made are of entries of the
\* table and have the entries' ids; the thread that makes one has the lock.
DeviceInv ==
  /\ vdevs \in Seq(Device)
  /\ vdevs # <<>> \/ creating # None \/ got # {} => rsc_table
  /\ \A i \in DOMAIN vdevs : /\ table[vdevs[i].entry] \in VdevEntry
                             /\ vdevs[i].notifyid = table[vdevs[i].entry].notifyid
  /\ creating # None => /\ creating \in Device
                        /\ lock # NoThread
                        /\ table[creating.entry] \in VdevEntry
                        /\ creating.notifyid = table[creating.entry].notifyid
  /\ lock \in Threads \cup {NoThread}
  /\ listed \in BOOLEAN /\ (listed => creating # None)

\* No two are of one entry; all vrings are set, but those of the new device, and
\* were when a caller got the device.
Single == \A i, j \in DOMAIN vdevs : vdevs[i].entry = vdevs[j].entry => i = j
NotYet == creating # None /\ ~listed => \A i \in DOMAIN vdevs : vdevs[i].entry # creating.entry
Whole(d) == d.mapped = Vrings(d)
AllWhole ==
  \A i \in DOMAIN vdevs : Whole(vdevs[i]) \/ (listed /\ vdevs[i].entry = creating.entry)
GotWhole == got \subseteq (DOMAIN table) \X (DOMAIN table) \X Nat /\ ReadyWhenGiven
ReadyInv == Single /\ NotYet /\ AllWhole /\ GotWhole

\* Every caller has got its entry's device.
OneInv == \A p \in got : p[1] = p[2]

\* The processor is stopped by remoteproc_shutdown or not at all.
LEMMA LifeStep ==
  ASSUME LifeInv, [RprocNext]_rprocVars
  PROVE  LifeInv'
<1> USE DEF life, ids, devs, Call
<1>1. Flags' \subseteq BOOLEAN
  <2>1. CASE UNCHANGED rprocVars
    BY <2>1, Zenon DEF LifeInv, Flags, rprocVars
  <2>2. CASE Config \/ RemoveRproc \/ LinuxDriverOk
    BY <2>2, Zenon DEF LifeInv, Flags, Config, RemoveRproc, LinuxDriverOk
  <2>3. ASSUME NEW ok \in BOOLEAN, Start(ok) \/ Stop(ok)
        PROVE  Flags' \subseteq BOOLEAN
    BY <2>3, Zenon DEF LifeInv, Flags, Start, Stop
  <2>4. ASSUME NEW stop \in BOOLEAN, NEW down \in BOOLEAN, Shutdown(stop, down)
        PROVE  Flags' \subseteq BOOLEAN
    BY <2>4, Zenon DEF LifeInv, Flags, Shutdown
  <2>5. CASE Parse
    <3>1. CASE HandleVdevId
      <4>1. overrun' \in BOOLEAN
        BY <3>1, Zenon DEF LifeInv, Flags, HandleVdevId
      <4> QED
        BY <3>1, <4>1, Zenon DEF LifeInv, Flags, HandleVdevId
    <3> QED
      BY <2>5, <3>1, Zenon DEF LifeInv, Flags, Parse, SetRscTable, HandleCarveOut,
                               SetRscTableFails, SetRscTableEnds
  <2>6. ASSUME NEW e, CreateNoMemory(e)
        PROVE  Flags' \subseteq BOOLEAN
    <3>1. badFree' \in {badFree, TRUE}
      BY <2>6 DEF CreateNoMemory
    <3>2. badFree' \in BOOLEAN
      BY <3>1, Zenon DEF LifeInv, Flags
    <3> QED
      BY <2>6, <3>2, Zenon DEF LifeInv, Flags, CreateNoMemory
  <2>7. CASE CreateReady
    BY <2>7, Zenon DEF LifeInv, Flags, CreateReady
  <2>8. ASSUME NEW e, NEW t, CreateFound(e) \/ CreateBegin(t, e)
        PROVE  Flags' \subseteq BOOLEAN
    BY <2>8, Zenon DEF LifeInv, Flags, CreateFound, CreateBegin
  <2>9. ASSUME NEW i, MapVring(i) \/ CreateDone(i) \/ CreateFails(i) \/ RemoveVirtio(i)
        PROVE  Flags' \subseteq BOOLEAN
    BY <2>9, Zenon DEF LifeInv, Flags, MapVring, CreateDone, CreateFails, RemoveVirtio
  <2> QED
    BY <2>1, <2>2, <2>3, <2>4, <2>5, <2>6, <2>7, <2>8, <2>9, Zenon DEF RprocNext, Parse
<1> DEFINE Rest == /\ state \in {"OFFLINE", "READY", "RUNNING", "STOPPED"}
                   /\ ops \in 0..MaxOps
                   /\ StoppedUnlessIgnored
<1>2. Rest'
  <2>1. Rest
    BY DEF LifeInv
  <2> USE RemoteprocAssumption DEF StoppedUnlessIgnored
  <2>2. CASE Config \/ RemoveRproc
    BY <2>1, <2>2 DEF Config, RemoveRproc
  <2>3. ASSUME NEW ok \in BOOLEAN, Start(ok) \/ Stop(ok)
        PROVE  Rest'
    BY <2>1, <2>3 DEF Start, Stop
  <2>4. ASSUME NEW stop \in BOOLEAN, NEW down \in BOOLEAN, Shutdown(stop, down)
        PROVE  Rest'
    <3>1. /\ running' <=> running /\ (state = "STOPPED" \/ ~stop)
          /\ state' = IF (state = "STOPPED" \/ stop) /\ down THEN "OFFLINE" ELSE state
          /\ UNCHANGED <<stopIgnored, removed>>
          /\ ops' = ops + 1 /\ ops < MaxOps
      BY <2>4, Zenon DEF Shutdown
    <3>2. state' \in {"OFFLINE", "READY", "RUNNING", "STOPPED"} /\ ops' \in 0..MaxOps
      BY <2>1, <3>1
    <3>3. StoppedUnlessIgnored'
      BY <2>1, <3>1
    <3> QED
      BY <3>2, <3>3
  <2>5. CASE UNCHANGED <<state, running, stopIgnored, removed>> /\ ops' \in 0..MaxOps
    BY <2>1, <2>5
  <2>6. ASSUME NEW i, RemoveVirtio(i) \/ SetRscTable
        PROVE  UNCHANGED <<state, running, stopIgnored, removed>> /\ ops' \in 0..MaxOps
    BY <2>1, <2>6 DEF RemoveVirtio, SetRscTable
  <2>7. UNCHANGED life => UNCHANGED <<state, running, stopIgnored, removed>> /\ ops' \in 0..MaxOps
    BY <2>1
  <2> HIDE DEF Rest
  <2>8. CASE UNCHANGED rprocVars
    BY <2>1, <2>5, <2>7, <2>8 DEF rprocVars
  <2>9. CASE Parse
    BY <2>5, <2>6, <2>7, <2>9 DEF Parse, HandleVdevId, HandleCarveOut, SetRscTableFails,
                                  SetRscTableEnds
  <2>10. ASSUME NEW e, NEW t, NEW i,
                \/ CreateFound(e) \/ CreateNoMemory(e) \/ CreateBegin(t, e) \/ CreateReady
                \/ MapVring(i) \/ CreateDone(i) \/ CreateFails(i) \/ LinuxDriverOk
         PROVE  Rest'
    BY <2>5, <2>7, <2>10 DEF CreateFound, CreateNoMemory, CreateBegin, CreateReady,
                             MapVring, CreateDone, CreateFails, LinuxDriverOk
  <2>11. ASSUME NEW i, RemoveVirtio(i)
         PROVE  Rest'
    BY <2>5, <2>6, <2>11
  <2> QED
    BY <2>2, <2>3, <2>4, <2>8, <2>9, <2>10, <2>11 DEF RprocNext, Parse
<1> QED
  BY <1>1, <1>2, Zenon DEF LifeInv

\* metal_list_del: the others stay, in their order.
LEMMA RemoveFacts ==
  ASSUME NEW S, NEW s \in Seq(S), NEW i \in DOMAIN s
  PROVE  /\ RemoveAt(s, i) \in Seq(S)
         /\ DOMAIN RemoveAt(s, i) = 1..(Len(s) - 1)
         /\ \A j \in 1..(Len(s) - 1) : RemoveAt(s, i)[j] = s[IF j < i THEN j ELSE j + 1]
<1> DEFINE a == SubSeq(s, 1, i - 1)
           b == SubSeq(s, i + 1, Len(s))
<1>1. i \in 1..Len(s) /\ Len(s) \in Nat
  OBVIOUS
<1>2. a \in Seq(S) /\ Len(a) = i - 1 /\ \A j \in 1..(i - 1) : a[j] = s[j]
  BY <1>1
<1>3. b \in Seq(S) /\ Len(b) = Len(s) - i /\ \A j \in 1..(Len(s) - i) : b[j] = s[j + i]
  BY <1>1
<1> HIDE DEF a, b
<1>4. a \o b \in Seq(S) /\ Len(a \o b) = Len(s) - 1 /\ DOMAIN (a \o b) = 1..(Len(s) - 1)
  BY <1>1, <1>2, <1>3
<1>5. \A j \in 1..(Len(s) - 1) : (a \o b)[j] = s[IF j < i THEN j ELSE j + 1]
  <2> SUFFICES ASSUME NEW j \in 1..(Len(s) - 1)
               PROVE  (a \o b)[j] = s[IF j < i THEN j ELSE j + 1]
    OBVIOUS
  <2>1. CASE j < i
    BY <1>1, <1>2, <1>3, <2>1
  <2>2. CASE ~(j < i)
    <3>1. (a \o b)[j] = b[j - (i - 1)]
      BY <1>1, <1>2, <1>3, <2>2
    <3>2. j - (i - 1) \in 1..(Len(s) - i) /\ j - (i - 1) + i = j + 1
      BY <1>1, <2>2
    <3> QED
      BY <1>3, <2>2, <3>1, <3>2
  <2> QED
    BY <2>1, <2>2
<1>6. RemoveAt(s, i) = a \o b
  BY DEF RemoveAt, a, b
<1> QED
  BY <1>4, <1>5, <1>6

\* So each is one that was there, and none is there twice.
LEMMA RemoveKeeps ==
  ASSUME NEW S, NEW s \in Seq(S), NEW i \in DOMAIN s
  PROVE  /\ RemoveAt(s, i) \in Seq(S)
         /\ \A j \in DOMAIN RemoveAt(s, i) :
              \E k \in DOMAIN s : k # i /\ RemoveAt(s, i)[j] = s[k]
         /\ (\A j, k \in DOMAIN s : s[j].entry = s[k].entry => j = k) =>
              \A j, k \in DOMAIN RemoveAt(s, i) :
                RemoveAt(s, i)[j].entry = RemoveAt(s, i)[k].entry => j = k
<1> DEFINE r == RemoveAt(s, i)
           g(j) == IF j < i THEN j ELSE j + 1
<1>1. r \in Seq(S) /\ DOMAIN r = 1..(Len(s) - 1) /\ \A j \in DOMAIN r : r[j] = s[g(j)]
  BY RemoveFacts
<1>2. DOMAIN s = 1..Len(s) /\ Len(s) \in Nat /\ i \in 1..Len(s)
  OBVIOUS
<1>3. \A j \in DOMAIN r : g(j) \in DOMAIN s /\ g(j) # i
  BY <1>1, <1>2
<1>4. \A j, k \in DOMAIN r : g(j) = g(k) => j = k
  BY <1>1, <1>2
<1> HIDE DEF r, g
<1>5. ASSUME \A j, k \in DOMAIN s : s[j].entry = s[k].entry => j = k,
             NEW j \in DOMAIN r, NEW k \in DOMAIN r, r[j].entry = r[k].entry
      PROVE  j = k
  <2>1. s[g(j)].entry = s[g(k)].entry
    BY <1>1, <1>5, Zenon
  <2>2. g(j) = g(k)
    BY <1>3, <1>5, <2>1, Zenon
  <2> QED
    BY <1>4, <2>2, Zenon
<1>6. \A j \in DOMAIN r : \E k \in DOMAIN s : k # i /\ r[j] = s[k]
  BY <1>1, <1>3, Zenon
<1> QED
  BY <1>1, <1>5, <1>6, Zenon DEF r

\* metal_list_add_tail: the others stay.
LEMMA AppendFacts ==
  ASSUME NEW S, NEW s \in Seq(S), NEW d \in S
  PROVE  /\ Append(s, d) \in Seq(S)
         /\ DOMAIN Append(s, d) = DOMAIN s \cup {Len(s) + 1}
         /\ \A i \in DOMAIN s : Append(s, d)[i] = s[i]
         /\ Append(s, d)[Len(s) + 1] = d
         /\ Len(s) + 1 \notin DOMAIN s
  OBVIOUS

\* Setting a vring changes nothing but how many are set.
LEMMA MapFacts ==
  ASSUME NEW i, vdevs \in Seq(Device), MapVring(i)
  PROVE  /\ vdevs' \in Seq(Device) /\ DOMAIN vdevs' = DOMAIN vdevs
         /\ \A j \in DOMAIN vdevs : /\ vdevs'[j].entry = vdevs[j].entry
                                    /\ vdevs'[j].notifyid = vdevs[j].notifyid
                                    /\ j # i => vdevs'[j] = vdevs[j]
<1> DEFINE d == [vdevs[i] EXCEPT !.mapped = @ + 1]
<1>1. i \in DOMAIN vdevs /\ vdevs' = [vdevs EXCEPT ![i] = d]
  BY DEF MapVring, New
<1>2. vdevs[i] \in Device
  BY <1>1
<1>3. d \in Device /\ d.entry = vdevs[i].entry /\ d.notifyid = vdevs[i].notifyid
  BY <1>2 DEF Device
<1> HIDE DEF d
<1> QED
  BY <1>1, <1>3

\* While the table is parsed there is no device yet, and no entry comes or goes.
LEMMA ParseFacts ==
  ASSUME NEW t, SpareId(t), MarkInv(t), Parse
  PROVE  ~rsc_table /\ UNCHANGED devs /\ DOMAIN table' = DOMAIN table
<1>1. DOMAIN table' = DOMAIN table
  BY VdevIdPost, ParseMarks DEF Parse
<1>2. ~rsc_table
  <2>1. Len(table) \in Nat /\ DOMAIN table = 1..Len(table)
    BY DEF MarkInv, Shape
  <2> QED
    BY <2>1 DEF Parse, SetRscTable, HandleVdevId, HandleCarveOut, SetRscTableFails,
                SetRscTableEnds, MarkInv, Position
<1>3. UNCHANGED devs
  BY DEF Parse, SetRscTable, HandleVdevId, HandleCarveOut, SetRscTableFails, SetRscTableEnds
<1> QED
  BY <1>1, <1>2, <1>3

\* The steps that change the list, the lock or what callers have got.
Devices ==
  \/ CreateReady
  \/ \E e \in DOMAIN table : CreateFound(e) \/ \E th \in Threads : CreateBegin(th, e)
  \/ \E i \in DOMAIN vdevs :
       MapVring(i) \/ CreateDone(i) \/ CreateFails(i) \/ RemoveVirtio(i)

\* All others are those of the table and of the life cycle.
LEMMA OthersLeaveDevices ==
  ASSUME [RprocNext]_rprocVars
  PROVE  Devices \/ UNCHANGED <<vdevs, lock, creating, listed, got>>
  BY DEF RprocNext, rprocVars, devs, Devices, Config, RemoveRproc, LinuxDriverOk, Start, Stop,
         Shutdown, CreateNoMemory, SetRscTable, HandleVdevId, HandleCarveOut,
         SetRscTableFails, SetRscTableEnds

\* They leave the ids alone.
LEMMA DevicesKeepIds == Devices => UNCHANGED <<table, rsc_table>>
  BY DEF Devices, ids, CreateReady, CreateFound, CreateBegin, MapVring, CreateDone,
         CreateFails, RemoveVirtio

\* What is known of the devices without the lock and the one that is made.
Listing(list) ==
  /\ list \in Seq(Device)
  /\ \A i \in DOMAIN list : /\ table[list[i].entry] \in VdevEntry
                            /\ list[i].notifyid = table[list[i].entry].notifyid

\* A device is made of an entry under the lock and listed with the lock.
LEMMA DeviceStep ==
  ASSUME NEW t, SpareId(t), MarkInv(t), DeviceInv, [RprocNext]_rprocVars
  PROVE  DeviceInv'
<1>1. CASE Parse
  <2>1. /\ ~rsc_table /\ UNCHANGED <<vdevs, lock, creating, listed, got>>
        /\ DOMAIN table' = DOMAIN table
    BY <1>1, ParseFacts DEF devs
  <2>2. vdevs = <<>> /\ creating = None /\ got = {}
    BY <2>1 DEF DeviceInv
  <2> QED
    BY <2>1, <2>2 DEF DeviceInv, Device
<1>2. CASE UNCHANGED ids
  <2>0. UNCHANGED <<table, rsc_table>> /\ Device' = Device /\ Listing(vdevs)
    BY <1>2 DEF ids, Device, DeviceInv, Listing
  <2>1. CASE UNCHANGED <<vdevs, lock, creating, listed, got>>
    BY <2>0, <2>1 DEF DeviceInv
  <2>2. ASSUME Listing(vdevs'), rsc_table, creating' = None, ~listed', listed' \in BOOLEAN,
               lock' \in Threads \cup {NoThread}
        PROVE  DeviceInv'
    BY <2>0, <2>2 DEF DeviceInv, Listing
  <2>3. ASSUME Listing(vdevs'), rsc_table, UNCHANGED <<creating, lock>>,
               creating # None \/ ~listed', listed' \in BOOLEAN
        PROVE  DeviceInv'
    BY <2>0, <2>3 DEF DeviceInv, Listing
  <2>4. ASSUME NEW th \in Threads, NEW e \in DOMAIN table, CreateBegin(th, e)
        PROVE  DeviceInv'
    <3>1. table[e] \in VdevEntry
      BY <2>4, Kinds DEF CreateBegin, VdevEntries, MarkInv, Shape
    <3>2. creating' = [entry |-> e, notifyid |-> table[e].notifyid, mapped |-> 0]
      BY <2>4 DEF CreateBegin
    <3>3. table[e].notifyid \in NotifyId
      BY <3>1 DEF VdevEntry
    <3>4. creating' \in Device /\ creating'.entry = e /\ creating'.notifyid = table[e].notifyid
      BY <3>2, <3>3 DEF Device
    <3>5. /\ lock' = th /\ th # NoThread /\ rsc_table /\ UNCHANGED <<vdevs, listed, got>>
          /\ creating = None
      BY <2>4, RemoteprocAssumption DEF CreateBegin, DeviceInv
    <3>6. ~listed
      BY <3>5 DEF DeviceInv
    <3> QED
      BY <2>0, <3>1, <3>4, <3>5, <3>6 DEF DeviceInv
  <2>5. CASE CreateReady
    <3>1. /\ creating # None /\ UNCHANGED <<creating, lock>> /\ listed'
          /\ listed' \in BOOLEAN /\ vdevs' = Append(vdevs, creating)
      BY <2>5 DEF CreateReady
    <3>2. /\ creating \in Device /\ table[creating.entry] \in VdevEntry /\ rsc_table
          /\ creating.notifyid = table[creating.entry].notifyid
      BY <3>1 DEF DeviceInv
    <3>3. Listing(vdevs')
      BY <2>0, <3>1, <3>2, AppendFacts DEF Listing
    <3> QED
      BY <2>3, <3>1, <3>2, <3>3
  <2>6. ASSUME NEW i \in DOMAIN vdevs, RemoveAt(vdevs, i) = vdevs'
        PROVE  Listing(vdevs') /\ rsc_table
    <3>1. /\ vdevs' \in Seq(Device)
          /\ \A j \in DOMAIN vdevs' : \E k \in DOMAIN vdevs : vdevs'[j] = vdevs[k]
      BY <2>0, <2>6, RemoveKeeps DEF Listing
    <3>2. vdevs # <<>>
      BY <2>0, <2>6 DEF Listing
    <3> QED
      BY <2>0, <3>1, <3>2 DEF Listing, DeviceInv
  <2>7. ASSUME NEW i \in DOMAIN vdevs, MapVring(i)
        PROVE  DeviceInv'
    <3>1. Listing(vdevs')
      BY <2>0, <2>7, MapFacts DEF Listing
    <3>2. UNCHANGED <<creating, lock, listed>> /\ listed
      BY <2>7 DEF MapVring
    <3>3. creating # None /\ rsc_table /\ listed \in BOOLEAN
      BY <3>2 DEF DeviceInv
    <3> QED
      BY <2>3, <3>1, <3>2, <3>3
  <2>8. ASSUME NEW i \in DOMAIN vdevs, CreateDone(i) \/ CreateFails(i)
        PROVE  DeviceInv'
    <3>1. /\ creating' = None /\ listed' = FALSE /\ lock' = NoThread /\ listed
          /\ UNCHANGED vdevs \/ vdevs' = RemoveAt(vdevs, i)
      BY <2>8 DEF CreateDone, CreateFails
    <3>2. Listing(vdevs') /\ rsc_table
      BY <2>0, <2>6, <3>1 DEF DeviceInv
    <3> QED
      BY <2>2, <3>1, <3>2
  <2>9. ASSUME NEW i \in DOMAIN vdevs, RemoveVirtio(i)
        PROVE  DeviceInv'
    <3>1. vdevs' = RemoveAt(vdevs, i) /\ UNCHANGED <<creating, lock, listed>>
      BY <2>9 DEF RemoveVirtio
    <3> QED
      BY <2>3, <2>6, <3>1 DEF DeviceInv
  <2>10. ASSUME NEW e \in DOMAIN table, CreateFound(e)
         PROVE  DeviceInv'
    <3>1. vdevs # <<>> /\ UNCHANGED <<vdevs, creating, lock, listed>>
      BY <2>10 DEF CreateFound, Found, Range
    <3> QED
      BY <2>0, <2>3, <3>1 DEF DeviceInv
  <2> QED
    BY <2>1, <2>4, <2>5, <2>7, <2>8, <2>9, <2>10, OthersLeaveDevices DEF Devices
<1> QED
  BY <1>1, <1>2, OthersLeaveIds

\* A caller finds no device before its vrings are set: who sets them has the lock.
LEMMA ReadyStep ==
  ASSUME NEW t, SpareId(t), MarkInv(t), DeviceInv, ReadyInv, [RprocNext]_rprocVars
  PROVE  ReadyInv'
<1>0. vdevs \in Seq(Device) /\ \A i \in DOMAIN vdevs : /\ vdevs[i].entry \in DOMAIN table
                                                      /\ vdevs[i].mapped \in Nat
  <2>1. \A d \in Device : d.entry \in DOMAIN table /\ d.mapped \in Nat
    BY DEF Device
  <2>2. vdevs \in Seq(Device) /\ \A i \in DOMAIN vdevs : vdevs[i] \in Device
    BY DEF DeviceInv
  <2> QED
    BY <2>1, <2>2
<1> USE DEF ReadyInv
<1>1. CASE UNCHANGED <<vdevs, lock, creating, listed, got>>
  <2>1. Single' /\ NotYet'
    BY <1>1 DEF Single, NotYet
  <2>2. DOMAIN table' = DOMAIN table /\ (UNCHANGED table \/ ~rsc_table)
    BY OthersLeaveIds, ParseFacts DEF ids
  <2>3. CASE UNCHANGED table
    BY <1>1, <2>1, <2>3 DEF AllWhole, GotWhole, ReadyWhenGiven, Whole, Vrings
  <2>4. CASE ~rsc_table
    <3>1. vdevs = <<>> /\ got = {}
      BY <2>4 DEF DeviceInv
    <3>2. AllWhole' /\ GotWhole'
      BY <1>1, <3>1 DEF AllWhole, GotWhole, ReadyWhenGiven
    <3> QED
      BY <2>1, <3>2
  <2> QED
    BY <2>2, <2>3, <2>4
<1>2. CASE Devices
  <2>0. UNCHANGED <<table, rsc_table>>
    BY <1>2, DevicesKeepIds
  <2>1. ASSUME NEW e \in DOMAIN table, NEW d, d.entry \in DOMAIN table, d.mapped \in Nat,
               Whole(d), got' = got \cup {<<e, d.entry, d.mapped>>}
        PROVE  GotWhole'
    BY <2>0, <2>1 DEF GotWhole, ReadyWhenGiven, Whole, Vrings
  <2>2. UNCHANGED got => GotWhole'
    BY <2>0 DEF GotWhole, ReadyWhenGiven
  <2>3. ASSUME NEW e \in DOMAIN table, CreateFound(e)
        PROVE  ReadyInv'
    <3>1. PICK d \in Found(e) : got' = got \cup {<<e, d.entry, d.mapped>>}
      BY <2>3 DEF CreateFound
    <3>2. PICK i \in DOMAIN vdevs : d = vdevs[i]
      BY <3>1 DEF Found, Range
    <3>3. lock = NoThread /\ UNCHANGED <<vdevs, creating, listed>>
      BY <2>3 DEF CreateFound
    <3>4. ~listed
      BY <3>3 DEF DeviceInv
    <3>5. Whole(d)
      BY <3>2, <3>4 DEF AllWhole
    <3>6. GotWhole'
      BY <1>0, <2>1, <3>1, <3>2, <3>5
    <3>7. Single' /\ NotYet' /\ AllWhole'
      BY <2>0, <3>3 DEF Single, NotYet, AllWhole, Whole, Vrings
    <3> QED
      BY <3>6, <3>7
  <2>4. ASSUME NEW th \in Threads, NEW e \in DOMAIN table, CreateBegin(th, e)
        PROVE  ReadyInv'
    <3>1. creating'.entry = e /\ UNCHANGED <<vdevs, listed, got>> /\ lock = NoThread
      BY <2>4 DEF CreateBegin
    <3>2. ~listed
      BY <3>1 DEF DeviceInv
    <3>3. ASSUME NEW i \in DOMAIN vdevs PROVE vdevs[i].entry # e
      <4>1. vdevs[i].notifyid = table[vdevs[i].entry].notifyid
        BY DEF DeviceInv
      <4>2. vdevs[i].notifyid # table[e].notifyid
        BY <2>4 DEF CreateBegin, Found, Range
      <4> QED
        BY <4>1, <4>2
    <3>4. Single' /\ NotYet' /\ AllWhole'
      BY <2>0, <3>1, <3>2, <3>3 DEF Single, NotYet, AllWhole, Whole, Vrings
    <3> QED
      BY <2>2, <3>1, <3>4
  <2>5. CASE CreateReady
    <3>1. /\ creating # None /\ ~listed /\ listed' = TRUE /\ UNCHANGED <<creating, got>>
          /\ vdevs' = Append(vdevs, creating)
      BY <2>5 DEF CreateReady
    <3>2. creating \in Device
      BY <3>1 DEF DeviceInv
    <3>3. /\ DOMAIN vdevs' = DOMAIN vdevs \cup {Len(vdevs) + 1}
          /\ \A i \in DOMAIN vdevs : vdevs'[i] = vdevs[i]
          /\ vdevs'[Len(vdevs) + 1] = creating
      BY <1>0, <3>1, <3>2, AppendFacts
    <3>4. \A i \in DOMAIN vdevs : vdevs[i].entry # creating.entry
      BY <3>1 DEF NotYet
    <3>5. Single'
      BY <3>3, <3>4, Zenon DEF Single
    <3>6. AllWhole'
      BY <2>0, <3>1, <3>3 DEF AllWhole, Whole, Vrings
    <3>7. NotYet'
      BY <3>1 DEF NotYet
    <3> QED
      BY <2>2, <3>1, <3>5, <3>6, <3>7
  <2>6. ASSUME NEW i \in DOMAIN vdevs, MapVring(i)
        PROVE  ReadyInv'
    <3>1. listed /\ vdevs[i].entry = creating.entry /\ UNCHANGED <<creating, listed, got>>
      BY <2>6 DEF MapVring, New
    <3>2. /\ DOMAIN vdevs' = DOMAIN vdevs
          /\ \A j \in DOMAIN vdevs : /\ vdevs'[j].entry = vdevs[j].entry
                                     /\ j # i => vdevs'[j] = vdevs[j]
      BY <1>0, <2>6, MapFacts
    <3>3. Single'
      BY <3>2, Zenon DEF Single
    <3>4. AllWhole'
      BY <2>0, <3>1, <3>2 DEF AllWhole, Whole, Vrings
    <3>5. NotYet'
      BY <3>1 DEF NotYet
    <3> QED
      BY <2>2, <3>1, <3>3, <3>4, <3>5
  <2>7. ASSUME NEW i \in DOMAIN vdevs, CreateDone(i)
        PROVE  ReadyInv'
    <3>1. /\ listed /\ vdevs[i].entry = creating.entry /\ Whole(vdevs[i])
          /\ got' = got \cup {<<creating.entry, vdevs[i].entry, vdevs[i].mapped>>}
          /\ creating' = None /\ UNCHANGED vdevs
      BY <2>7 DEF CreateDone, New, Whole
    <3>2. \A j \in DOMAIN vdevs : Whole(vdevs[j])
      BY <3>1 DEF AllWhole, Single
    <3>3. GotWhole'
      BY <1>0, <2>1, <3>1
    <3>4. Single' /\ NotYet' /\ AllWhole'
      BY <2>0, <3>1, <3>2 DEF Single, NotYet, AllWhole, Whole, Vrings
    <3> QED
      BY <3>3, <3>4
  <2>8. ASSUME NEW i \in DOMAIN vdevs, CreateFails(i) \/ RemoveVirtio(i)
        PROVE  ReadyInv'
    <3>1. /\ vdevs' = RemoveAt(vdevs, i) /\ UNCHANGED got
      BY <2>8 DEF CreateFails, RemoveVirtio
    <3>2. /\ \A j \in DOMAIN vdevs' : \E k \in DOMAIN vdevs : k # i /\ vdevs'[j] = vdevs[k]
          /\ Single'
      <4>1. vdevs \in Seq(Device)
        BY <1>0
      <4>2. \A j, k \in DOMAIN vdevs : vdevs[j].entry = vdevs[k].entry => j = k
        BY DEF Single
      <4> DEFINE list == RemoveAt(vdevs, i)
      <4>3. /\ \A j \in DOMAIN list : \E k \in DOMAIN vdevs : k # i /\ list[j] = vdevs[k]
            /\ \A j, k \in DOMAIN list : list[j].entry = list[k].entry => j = k
        BY <4>1, <4>2, RemoveKeeps
      <4> HIDE DEF list
      <4>4. vdevs' = list
        BY <3>1 DEF list
      <4> QED
        BY <4>3, <4>4, Zenon DEF Single
    <3>3. CASE RemoveVirtio(i)
      <4>1. UNCHANGED <<creating, listed>>
        BY <3>3 DEF RemoveVirtio
      <4>2. AllWhole'
        BY <2>0, <3>2, <4>1 DEF AllWhole, Whole, Vrings
      <4>3. NotYet'
        BY <3>2, <4>1 DEF NotYet
      <4> QED
        BY <2>2, <3>1, <3>2, <4>2, <4>3
    <3>4. CASE CreateFails(i)
      <4>1. listed /\ vdevs[i].entry = creating.entry /\ creating' = None
        BY <3>4 DEF CreateFails, New
      <4>2. \A k \in DOMAIN vdevs : k # i => Whole(vdevs[k])
        BY <4>1 DEF AllWhole, Single
      <4>3. AllWhole'
        BY <2>0, <3>2, <4>2 DEF AllWhole, Whole, Vrings
      <4>4. NotYet'
        BY <4>1 DEF NotYet
      <4> QED
        BY <2>2, <3>1, <3>2, <4>3, <4>4
    <3> QED
      BY <2>8, <3>3, <3>4
  <2> QED
    BY <1>2, <2>3, <2>4, <2>5, <2>6, <2>7, <2>8 DEF Devices
<1> QED
  BY <1>1, <1>2, OthersLeaveDevices

\* remoteproc_create_virtio finds the device of the entry, and no other, by its
\* notify id.
LEMMA OneStep ==
  ASSUME NEW t, SpareId(t), IdInv(t), DeviceInv, OneInv, [RprocNext]_rprocVars
  PROVE  OneInv'
<1>0. MarkInv(t) /\ \A i \in DOMAIN vdevs : vdevs[i].entry \in DOMAIN table
  <2>1. \A i \in DOMAIN vdevs : vdevs[i] \in Device
    BY DEF DeviceInv
  <2>2. \A d \in Device : d.entry \in DOMAIN table
    BY DEF Device
  <2> QED
    BY <2>1, <2>2 DEF IdInv
<1>1. CASE UNCHANGED got
  BY <1>1 DEF OneInv
<1>2. ASSUME NEW e \in DOMAIN table, CreateFound(e)
      PROVE  OneInv'
  <2>1. PICK d \in Found(e) : got' = got \cup {<<e, d.entry, d.mapped>>}
    BY <1>2 DEF CreateFound
  <2>2. PICK i \in DOMAIN vdevs : d = vdevs[i] /\ d.notifyid = table[e].notifyid
    BY <2>1 DEF Found, Range
  <2>3. /\ table[e] \in VdevEntry /\ table[d.entry] \in VdevEntry /\ d.entry \in DOMAIN table
        /\ d.notifyid = table[d.entry].notifyid
    BY <1>0, <1>2, <2>2, Kinds DEF CreateFound, VdevEntries, MarkInv, Shape, DeviceInv
  <2>4. d.entry = e
    BY <2>2, <2>3 DEF IdInv, DistinctIds
  <2> QED
    BY <2>1, <2>4 DEF OneInv
<1>3. ASSUME NEW i \in DOMAIN vdevs, CreateDone(i)
      PROVE  OneInv'
  BY <1>3 DEF CreateDone, New, OneInv
<1>4. \/ UNCHANGED got
      \/ \E e \in DOMAIN table : CreateFound(e)
      \/ \E i \in DOMAIN vdevs : CreateDone(i)
  BY OthersLeaveDevices DEF Devices, CreateBegin, CreateReady, MapVring, CreateFails,
                            RemoveVirtio
<1> QED
  BY <1>1, <1>2, <1>3, <1>4

-----------------------------------------------------------------------------
(* The theorems.                                                           *)

\* The processor runs in the state RUNNING only, and is stopped when the
\* instance is removed, unless remoteproc_stop ignored a failure, for every
\* table and number of calls.
THEOREM RunsOnlyRunning == RprocSpec => []StoppedUnlessIgnored
<1>1. RprocInit => LifeInv
  <2> SUFFICES ASSUME RprocInit PROVE LifeInv
    OBVIOUS
  <2>1. Flags \subseteq BOOLEAN
    BY Zenon DEF RprocInit, Flags
  <2>2. /\ state \in {"OFFLINE", "READY", "RUNNING", "STOPPED"} /\ ops \in 0..MaxOps
        /\ StoppedUnlessIgnored
    BY RemoteprocAssumption DEF RprocInit, StoppedUnlessIgnored
  <2> QED
    BY <2>1, <2>2, Zenon DEF LifeInv
<1>2. LifeInv /\ [RprocNext]_rprocVars => LifeInv'
  BY LifeStep
<1>3. LifeInv => StoppedUnlessIgnored
  BY DEF LifeInv
<1> QED
  BY <1>1, <1>2, <1>3, PTL DEF RprocSpec

ReservedInv == DeviceInv /\ ReadyInv /\ \E t \in Tables : MarkInv(t)
UniqueInv == LifeInv /\ DeviceInv /\ ReadyInv /\ OneInv /\ \E t \in Tables : IdInv(t)

\* remoteproc_init: no device, no call and a processor that is off.
LEMMA DeviceInit == RprocInit => LifeInv /\ DeviceInv /\ ReadyInv /\ OneInv
<1> SUFFICES ASSUME RprocInit PROVE LifeInv /\ DeviceInv /\ ReadyInv /\ OneInv
  OBVIOUS
<1>1. Flags \subseteq BOOLEAN
  BY Zenon DEF RprocInit, Flags
<1>2. /\ state \in {"OFFLINE", "READY", "RUNNING", "STOPPED"} /\ ops \in 0..MaxOps
      /\ StoppedUnlessIgnored
  BY RemoteprocAssumption DEF RprocInit, StoppedUnlessIgnored
<1>3. LifeInv
  BY <1>1, <1>2, Zenon DEF LifeInv
<1>4. DeviceInv /\ ReadyInv /\ OneInv
  <2>1. vdevs = <<>> /\ creating = None /\ got = {} /\ lock = NoThread /\ listed = FALSE
    BY DEF RprocInit
  <2>2. OneInv
    BY <2>1 DEF OneInv
  <2>3. vdevs \in Seq(Device) /\ DOMAIN vdevs = {}
    BY <2>1
  <2>4. DeviceInv
    BY <2>1, <2>3, Zenon DEF DeviceInv
  <2>5. Single /\ NotYet /\ AllWhole /\ GotWhole
    BY <2>1 DEF Single, NotYet, AllWhole, GotWhole, ReadyWhenGiven
  <2> QED
    BY <2>2, <2>4, <2>5 DEF ReadyInv
<1> QED
  BY <1>3, <1>4

\* Every step keeps both.
LEMMA ReservedStep ==
  ASSUME \A t \in Tables : SpareId(t), ReservedInv, [RprocNext]_rprocVars
  PROVE  ReservedInv'
<1>1. PICK t \in Tables : MarkInv(t)
  BY DEF ReservedInv
<1>2. MarkInv(t)' /\ DeviceInv' /\ ReadyInv'
  BY <1>1, MarksStep, DeviceStep, ReadyStep DEF ReservedInv
<1> QED
  BY <1>2 DEF ReservedInv

\* A device that a caller gets has all its vrings, for every such table and any
\* number of threads.
THEOREM ReadyAlways ==
  ASSUME \A t \in Tables : SpareId(t)
  PROVE  RprocSpec => []ReadyWhenGiven
<1>1. RprocInit => ReservedInv
  BY DeviceInit, IdsInit DEF ReservedInv
<1>2. ReservedInv /\ [RprocNext]_rprocVars => ReservedInv'
  BY ReservedStep
<1>3. ReservedInv => ReadyWhenGiven
  BY DEF ReservedInv, ReadyInv, GotWhole
<1> QED
  BY <1>1, <1>2, <1>3, PTL DEF RprocSpec

\* Every id that a handled entry or a device uses is in the bitmap, also after
\* a table that was given up half way, for every table whose ids lie in it, that
\* leaves ids open in its last entry only and then does not fix all there are.
THEOREM IdsAlwaysReserved ==
  ASSUME \A t \in Tables : SpareId(t)
  PROVE  RprocSpec => []IdsReserved
<1>1. RprocInit => ReservedInv
  BY DeviceInit, IdsInit DEF ReservedInv
<1>2. ReservedInv /\ [RprocNext]_rprocVars => ReservedInv'
  BY ReservedStep
<1>3. ReservedInv => IdsReserved
  <2> SUFFICES ASSUME ReservedInv PROVE IdsReserved
    OBVIOUS
  <2>1. PICK t \in Tables : MarkInv(t)
    BY DEF ReservedInv
  <2>2. ASSUME rsc_table, NEW i \in DOMAIN table
        PROVE  Range(Ids(table[i])) \ {ANY} \subseteq bitmap
    <3>1. CASE table[i] \in VdevEntry
      BY <2>1, <2>2, <3>1 DEF MarkInv, HandledMarked, Fixed
    <3>2. CASE table[i] = Carveout
      BY <3>2, CarveoutFacts DEF Fixed
    <3> QED
      BY <2>1, <3>1, <3>2, Kinds DEF MarkInv, Shape
  <2>3. ASSUME NEW i \in DOMAIN vdevs PROVE vdevs[i].notifyid \in bitmap
    <3>1. vdevs \in Seq(Device) /\ vdevs # <<>> /\ rsc_table
      BY <2>3 DEF ReservedInv, DeviceInv
    <3>2. vdevs[i] \in Device
      BY <3>1
    <3>3. vdevs[i].entry \in DOMAIN table
      BY <3>2 DEF Device
    <3>4. /\ table[vdevs[i].entry] \in VdevEntry
          /\ vdevs[i].notifyid = table[vdevs[i].entry].notifyid
      BY DEF ReservedInv, DeviceInv
    <3> QED
      BY <2>1, <3>1, <3>3, <3>4 DEF MarkInv, HandledMarked
  <2> QED
    BY <2>2, <2>3 DEF IdsReserved, Range
<1> QED
  BY <1>1, <1>2, <1>3, PTL DEF RprocSpec

\* remoteproc_create_virtio gives every caller the device of its entry, and
\* never makes two of one entry, for every table, besides, whose fixed ids are
\* fixed by one entry each.
THEOREM OneDeviceEach ==
  ASSUME \A t \in Tables : SpareId(t) /\ FixedOnce(t)
  PROVE  RprocSpec => []OneDevice
<1>1. RprocInit => UniqueInv
  BY DeviceInit, IdsInit DEF UniqueInv
<1>2. UniqueInv /\ [RprocNext]_rprocVars => UniqueInv'
  <2> SUFFICES ASSUME UniqueInv, [RprocNext]_rprocVars PROVE UniqueInv'
    OBVIOUS
  <2>1. PICK t \in Tables : IdInv(t)
    BY DEF UniqueInv
  <2>2. IdInv(t)' /\ DeviceInv' /\ ReadyInv' /\ OneInv' /\ LifeInv'
    BY <2>1, IdsStep, DeviceStep, ReadyStep, OneStep, LifeStep DEF UniqueInv, IdInv
  <2> QED
    BY <2>2 DEF UniqueInv
<1>3. UniqueInv => OneDevice
  <2> SUFFICES ASSUME UniqueInv PROVE OneDevice
    OBVIOUS
  <2>1. PICK t \in Tables : IdInv(t)
    BY DEF UniqueInv
  <2>2. /\ table \in Seq({Carveout} \cup VdevEntry) /\ bitmap \subseteq 0..BITS - 1
        /\ at.idx \in 0..(Len(table) + 1)
    BY <2>1 DEF IdInv, MarkInv, Shape, Position
  <2>3. /\ vdevs \in Seq(Device) /\ lock \in Threads \cup {NoThread}
        /\ creating = None \/ creating \in Device
        /\ got \subseteq (DOMAIN table) \X (DOMAIN table) \X Nat
    BY DEF UniqueInv, DeviceInv, ReadyInv, GotWhole
  <2>4. RprocTypeOK
    BY <2>2, <2>3, Zenon DEF UniqueInv, LifeInv, Flags, RprocTypeOK
  <2> QED
    BY <2>4 DEF UniqueInv, ReadyInv, Single, OneInv, OneDevice
<1> QED
  BY <1>1, <1>2, <1>3, PTL DEF RprocSpec

\* The table of core/rsc_tab.c is one of those: its ids are fixed, once each.
THEOREM FirmwareTableSound ==
  ASSUME BITS >= 3
  PROVE  LET t == <<Carveout, Vdev(0, <<1, 2>>)>> IN SpareId(t) /\ FixedOnce(t)
<1> DEFINE e == Vdev(0, <<1, 2>>)
           t == <<Carveout, e>>
<1>1. ANY \notin Nat /\ BITS \in Nat
  BY RemoteprocAssumption
<1>2. e = [type |-> "vdev", notifyid |-> 0, vring |-> <<1, 2>>]
  BY DEF Vdev
<1>3. e \in VdevEntry
  <2> DEFINE v == <<1, 2>>
  <2>1. 0 \in NotifyId /\ 1 \in NotifyId /\ 2 \in NotifyId
    BY <1>1 DEF NotifyId
  <2>2. v \in Seq(NotifyId)
    BY <2>1
  <2>3. e = [type |-> "vdev", notifyid |-> 0, vring |-> v]
    BY <1>2
  <2> HIDE DEF v, e
  <2> QED
    BY <2>1, <2>2, <2>3 DEF VdevEntry
<1>4. e.notifyid = 0 /\ e.vring = <<1, 2>>
  BY <1>2
<1> HIDE DEF e
<1>5. ~HasAny(e) /\ Fixed(e) \subseteq 0..BITS - 1
  <2> DEFINE l == Len(Ids(e))
             v == e.vring
             w == Ids(e)
  <2>1. l = Len(v) + 1 /\ w[1] = e.notifyid /\ \A j \in 2..l : w[j] = v[j - 1]
    BY <1>3, IdsFacts
  <2>2. Len(v) = 2 /\ v[1] = 1 /\ v[2] = 2
    BY <1>4
  <2> HIDE DEF v, w
  <2>3. l = 3
    BY <2>1, <2>2
  <2>4. w[2] = v[1] /\ w[3] = v[2]
    <3>1. 2 \in 2..l /\ 3 \in 2..l
      BY <2>3
    <3>2. w[2] = v[2 - 1] /\ w[3] = v[3 - 1]
      BY <2>1, <3>1, Zenon
    <3>3. 2 - 1 = 1 /\ 3 - 1 = 2
      OBVIOUS
    <3> QED
      BY <3>2, <3>3, Zenon
  <2>5. w[1] \in 0..2 /\ w[2] \in 0..2 /\ w[3] \in 0..2
    BY <1>4, <2>1, <2>2, <2>4
  <2>6. /\ HasAny(e) <=> \E j \in 1..l : w[j] = ANY
        /\ Fixed(e) = {w[j] : j \in 1..l} \ {ANY}
    BY <1>3, IdsFacts DEF w
  <2> HIDE DEF l
  <2>7. \A j \in 1..l : w[j] \in 0..2
    BY <2>3, <2>5
  <2>8. 0..2 \subseteq 0..BITS - 1 /\ ANY \notin 0..2
    BY <1>1
  <2> QED
    BY <2>6, <2>7, <2>8, Zenon
<1>6. ~HasAny(Carveout) /\ Fixed(Carveout) = {}
  BY CarveoutFacts DEF HasAny, Range
<1>7. DOMAIN t = 1..2 /\ t[1] = Carveout /\ t[2] = e
  OBVIOUS
<1> HIDE DEF t
<1>8. SpareId(t)
  BY <1>5, <1>6, <1>7 DEF SpareId
<1>9. FixedOnce(t)
  BY <1>7, CarveoutFacts DEF FixedOnce
<1> QED
  BY <1>8, <1>9 DEF t, e

-----------------------------------------------------------------------------
(* Start-up: where the task is says what exists.  The invariant has one    *)
(* part for the types, one for what Linux has answered and one for what it *)
(* can post to.                                                            *)


\* The calls after the one that creates the device, and after the read of the
\* features.
AfterFeatures == {"vqCallback", "vqRing", "eptList", "register", "announce", "loop"}
AfterOk == {"add", "vrings", "shm", "waitReady", "features"} \cup AfterFeatures

FlagsOK ==
  {irq_registered, callback, vring, support_ns, announced, gfeatures, accepts,
   channel, fault} \subseteq BOOLEAN

\* The parts of the type that a step of one actor changes.
Bounds ==
  /\ pc \in PhaseSet \cup {"halt"}
  /\ loops \in 0..(WAIT_LOOPS + 1)
  /\ vdev_list \in {"none", "empty", "vdev"}
  /\ endpoints \in {"none", "empty", "service"}
  /\ status \in {"reset", "driver", "ok", "needs_reset"}
  /\ resets \in 0..MaxResets /\ words \in 0..FifoDepth
  /\ posted \in 0..MaxMsgs /\ ring \in 0..posted
  /\ pc = "waitReady" => loops <= WAIT_LOOPS
  /\ pc \in {"mbox", "irq", "rproc", "table", "run", "create", "waitOk", "add",
            "vrings", "shm"} => loops = 0

\* Linux answers before its driver is OK, and the answer is the same each time.
Answered ==
  /\ status \in {"driver", "ok"} => gfeatures = accepts
  /\ pc \in AfterOk => gfeatures = accepts
  /\ pc \in AfterFeatures => support_ns = accepts

\* What exists when the service is announced, and so when Linux can post.
Served ==
  /\ pc \in {"vqRing", "eptList", "register", "announce", "loop"} => callback
  /\ pc \in {"eptList", "register", "announce", "loop"} => vring
  /\ pc \in {"announce", "loop"} => endpoints = "service"
  /\ announced => pc = "loop"
  /\ channel => announced
  /\ ring > 0 => channel
  /\ dropped = 0

StartInv == FlagsOK /\ Bounds /\ Answered /\ Served

\* The calls after the read of the features are those of AfterFeatures.
LEMMA PhaseFacts ==
  /\ PhaseSet = {"mbox", "irq", "rproc", "table", "run", "create", "waitOk"} \cup AfterOk
  /\ Past("features") => pc \in AfterFeatures
<1>1. DOMAIN Phases = 1..18
  BY DEF Phases
<1>2. \A i \in 1..18 : Phases[i] = "features" => i = 12
  BY DEF Phases
<1>3. \A j \in 1..18 : j > 12 => Phases[j] \in AfterFeatures
  BY DEF Phases, AfterFeatures
<1>4. PhaseSet = {"mbox", "irq", "rproc", "table", "run", "create", "waitOk"} \cup AfterOk
  BY <1>1 DEF PhaseSet, Phases, AfterOk, AfterFeatures
<1>5. Past("features") => pc \in AfterFeatures
  BY <1>1, <1>2, <1>3 DEF Past
<1> QED
  BY <1>4, <1>5

\* Flags stay flags.
LEMMA FlagsStep ==
  ASSUME FlagsOK, [Next]_vars
  PROVE  FlagsOK'
<1> USE DEF FlagsOK, firmware, linux, mailbox
<1>1. CASE UNCHANGED vars
  BY <1>1, Zenon DEF vars
<1>2. CASE MsgboxInit \/ RemoteprocInit \/ ConfigStart \/ WaitOk \/ AddVdev
  BY <1>2, Zenon DEF MsgboxInit, RemoteprocInit, ConfigStart, WaitOk, AddVdev
<1>3. CASE RequestIrq
  <2>1. irq_registered' \in BOOLEAN
    BY <1>3, StartupAssumption, Zenon DEF RequestIrq
  <2> QED
    BY <1>3, <2>1, Zenon DEF RequestIrq
<1>4. ASSUME NEW ok \in BOOLEAN,
             InstallTable(ok) \/ CreateVdev(ok) \/ InitVrings(ok) \/ GetShmIo(ok)
      PROVE  FlagsOK'
  BY <1>4, Zenon DEF InstallTable, CreateVdev, InitVrings, GetShmIo
<1>5. CASE WaitReady \/ ReadFeatures
  BY <1>5, Zenon DEF WaitReady, ReadFeatures
<1>6. CASE VqCallback \/ VqRing \/ EptList \/ Register
  BY <1>6, Zenon DEF VqCallback, VqRing, EptList, Register
<1>7. ASSUME NEW ok \in BOOLEAN, Announce(ok)
      PROVE  FlagsOK'
  BY <1>7, Zenon DEF Announce
<1>8. CASE Isr \/ TaskPoll
  BY <1>8, Zenon DEF Isr, TaskPoll, Notified
<1>9. CASE LinuxDriver \/ LinuxReady \/ LinuxReset
  BY <1>9, Zenon DEF LinuxDriver, LinuxReady, LinuxReset
<1>10. CASE LinuxKick \/ LinuxAnnounced \/ LinuxPost
  BY <1>10, Zenon DEF LinuxKick, LinuxAnnounced, LinuxPost
<1> QED
  BY <1>1, <1>2, <1>3, <1>4, <1>5, <1>6, <1>7, <1>8, <1>9, <1>10, Zenon DEF Next, Task

\* The task's calls come in their order, its second wait is bounded, and Linux
\* fills neither the mailbox nor the ring beyond their bounds.
LEMMA BoundsStep ==
  ASSUME Bounds, [Next]_vars
  PROVE  Bounds'
<1> USE StartupAssumption, PhaseFacts DEF Bounds, AfterOk, AfterFeatures, firmware, linux, mailbox
<1>1. CASE UNCHANGED vars
  BY <1>1 DEF vars
<1>2. CASE MsgboxInit \/ RequestIrq \/ RemoteprocInit \/ ConfigStart
  BY <1>2 DEF MsgboxInit, RequestIrq, RemoteprocInit, ConfigStart
<1>3. CASE WaitOk \/ AddVdev \/ WaitReady
  BY <1>3 DEF WaitOk, AddVdev, WaitReady
<1>4. ASSUME NEW ok \in BOOLEAN,
             InstallTable(ok) \/ CreateVdev(ok) \/ InitVrings(ok) \/ GetShmIo(ok)
      PROVE  Bounds'
  BY <1>4 DEF InstallTable, CreateVdev, InitVrings, GetShmIo
<1>5. CASE ReadFeatures \/ VqCallback \/ VqRing \/ EptList \/ Register
  BY <1>5 DEF ReadFeatures, VqCallback, VqRing, EptList, Register
<1>6. ASSUME NEW ok \in BOOLEAN, Announce(ok)
      PROVE  Bounds'
  BY <1>6 DEF Announce
<1>7. CASE Isr \/ TaskPoll
  BY <1>7 DEF Isr, TaskPoll, Notified
<1>8. CASE LinuxDriver \/ LinuxReady \/ LinuxReset
  BY <1>8 DEF LinuxDriver, LinuxReady, LinuxReset
<1>9. CASE LinuxKick \/ LinuxAnnounced \/ LinuxPost
  BY <1>9 DEF LinuxKick, LinuxAnnounced, LinuxPost
<1> QED
  BY <1>1, <1>2, <1>3, <1>4, <1>5, <1>6, <1>7, <1>8, <1>9 DEF Next, Task

\* Linux answers before the first wait ends (rproc_virtio_wait_remote_ready),
\* so a reset after it, or a second wait that times out, changes nothing.
LEMMA AnsweredStep ==
  ASSUME Bounds, Answered, [Next]_vars
  PROVE  Answered'
<1> USE PhaseFacts DEF Bounds, Answered, AfterOk, AfterFeatures, firmware, linux, mailbox
<1>1. CASE UNCHANGED vars
  BY <1>1 DEF vars
<1>2. CASE MsgboxInit \/ RequestIrq \/ RemoteprocInit \/ ConfigStart
  BY <1>2 DEF MsgboxInit, RequestIrq, RemoteprocInit, ConfigStart
<1>3. CASE WaitOk \/ AddVdev \/ WaitReady
  BY <1>3 DEF WaitOk, AddVdev, WaitReady
<1>4. ASSUME NEW ok \in BOOLEAN,
             InstallTable(ok) \/ CreateVdev(ok) \/ InitVrings(ok) \/ GetShmIo(ok)
      PROVE  Answered'
  BY <1>4 DEF InstallTable, CreateVdev, InitVrings, GetShmIo
<1>5. CASE ReadFeatures \/ VqCallback \/ VqRing \/ EptList \/ Register
  BY <1>5 DEF ReadFeatures, VqCallback, VqRing, EptList, Register
<1>6. ASSUME NEW ok \in BOOLEAN, Announce(ok)
      PROVE  Answered'
  BY <1>6 DEF Announce
<1>7. CASE Isr \/ TaskPoll
  BY <1>7 DEF Isr, TaskPoll
<1>8. CASE LinuxDriver \/ LinuxReady \/ LinuxReset
  BY <1>8 DEF LinuxDriver, LinuxReady, LinuxReset
<1>9. CASE LinuxKick \/ LinuxAnnounced \/ LinuxPost
  BY <1>9 DEF LinuxKick, LinuxAnnounced, LinuxPost
<1> QED
  BY <1>1, <1>2, <1>3, <1>4, <1>5, <1>6, <1>7, <1>8, <1>9 DEF Next, Task

\* The service is announced by the last call, when the virtqueue and the
\* endpoint are there; a message comes after the announcement, and the
\* callback finds the endpoint.
LEMMA ServedStep ==
  ASSUME FlagsOK, Bounds, Served, [Next]_vars
  PROVE  Served'
<1> USE PhaseFacts DEF Bounds, Served, AfterOk, AfterFeatures, firmware, linux, mailbox
<1>1. CASE UNCHANGED vars
  BY <1>1 DEF vars
<1>2. CASE MsgboxInit \/ RequestIrq \/ RemoteprocInit \/ ConfigStart
  BY <1>2 DEF MsgboxInit, RequestIrq, RemoteprocInit, ConfigStart
<1>3. CASE WaitOk \/ AddVdev \/ WaitReady
  BY <1>3 DEF WaitOk, AddVdev, WaitReady
<1>4. ASSUME NEW ok \in BOOLEAN,
             InstallTable(ok) \/ CreateVdev(ok) \/ InitVrings(ok) \/ GetShmIo(ok)
      PROVE  Served'
  BY <1>4 DEF InstallTable, CreateVdev, InitVrings, GetShmIo
<1>5. CASE ReadFeatures \/ VqCallback \/ VqRing \/ EptList \/ Register
  BY <1>5 DEF ReadFeatures, VqCallback, VqRing, EptList, Register
<1>6. ASSUME NEW ok \in BOOLEAN, Announce(ok)
      PROVE  Served'
  BY <1>6 DEF Announce
<1>7. CASE Isr \/ TaskPoll
  <2>1. Notified /\ UNCHANGED <<firmware, linux>>
    BY <1>7 DEF Isr, TaskPoll
  <2>2. dropped' = 0 /\ ring' \in {0, ring}
    <3>1. endpoints = "service" \/ ring = 0
      OBVIOUS
    <3> QED
      BY <2>1, <3>1 DEF Notified
  <2> QED
    BY <2>1, <2>2
<1>8. CASE LinuxDriver \/ LinuxReady \/ LinuxReset
  BY <1>8 DEF LinuxDriver, LinuxReady, LinuxReset
<1>9. CASE LinuxKick \/ LinuxAnnounced \/ LinuxPost
  BY <1>9 DEF LinuxKick, LinuxAnnounced, LinuxPost
<1> QED
  BY <1>1, <1>2, <1>3, <1>4, <1>5, <1>6, <1>7, <1>8, <1>9 DEF Next, Task

\* The memory of a fresh boot.
LEMMA StartInit == Init => StartInv
<1> SUFFICES ASSUME Init PROVE StartInv
  OBVIOUS
<1>1. FlagsOK
  BY Zenon DEF Init, FlagsOK
<1>2. Bounds /\ Answered /\ Served
  BY StartupAssumption, PhaseFacts DEF Init, Bounds, Answered, Served, AfterOk, AfterFeatures
<1> QED
  BY <1>1, <1>2 DEF StartInv

\* The parts of the invariant give what the runs check.
LEMMA StartTypes == StartInv => TypeOK
<1> SUFFICES ASSUME StartInv PROVE TypeOK
  OBVIOUS
<1>1. /\ pc \in PhaseSet \cup {"halt"}
      /\ loops \in 0..(WAIT_LOOPS + 1)
      /\ vdev_list \in {"none", "empty", "vdev"}
      /\ endpoints \in {"none", "empty", "service"}
      /\ status \in {"reset", "driver", "ok", "needs_reset"}
      /\ resets \in 0..MaxResets /\ words \in 0..FifoDepth
      /\ posted \in 0..MaxMsgs
  BY DEF StartInv, Bounds
<1>2. ring \in 0..MaxMsgs /\ dropped \in 0..MaxMsgs
  BY StartupAssumption DEF StartInv, Bounds, Served
<1> QED
  BY <1>1, <1>2, Zenon DEF StartInv, FlagsOK, TypeOK

\* Every reachable state satisfies the invariant.
LEMMA StartAlways == Spec => []StartInv
<1>1. StartInv /\ [Next]_vars => StartInv'
  BY FlagsStep, BoundsStep, AnsweredStep, ServedStep DEF StartInv
<1> QED
  BY StartInit, <1>1, PTL DEF Spec

\* The firmware works with the features that Linux' driver accepts, for every
\* bound of the second wait, every number of resets, and whether Linux kicks
\* early or not (rpmsg_init_vdev ignores that the wait timed out).
THEOREM FeaturesCorrect == Spec => []FeaturesAgree
<1>1. StartInv => FeaturesAgree
  BY StartTypes, PhaseFacts DEF StartInv, Answered, FeaturesAgree
<1> QED
  BY StartAlways, <1>1, PTL

\* No message that Linux posts is lost in the start: it posts after the
\* announcement, the last thing setup_rpmsg does.
THEOREM StartDropsNothing == Spec => []NothingDropped
<1>1. StartInv => NothingDropped
  BY DEF StartInv, Served, NothingDropped
<1> QED
  BY StartAlways, <1>1, PTL
=============================================================================
