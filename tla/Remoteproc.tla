----------------------------- MODULE Remoteproc -----------------------------
(***************************************************************************)
(* struct remoteproc (openamp/open-amp/remoteproc): the life cycle of the  *)
(* remote processor, the notify ids that rsc_table_parser.c assigns in the *)
(* resource table, and the list of virtio devices.                         *)
(*                                                                         *)
(* Threads call the functions of remoteproc.c.  One that holds rproc->lock *)
(* from its begin to its end is one step.  remoteproc_create_virtio waits  *)
(* for the driver of the other side while it holds the lock, lists the new *)
(* device and sets its vrings afterwards: a step each, with those of the   *)
(* callers without the lock between them.  remoteproc_set_rsc_table takes  *)
(* no lock: each id is a step.  The platform's operations may fail.        *)
(***************************************************************************)
EXTENDS Naturals, Sequences, SequencesExt

CONSTANTS
  Threads,
  NoThread,
  Tables,        \* resource tables as the firmware image gives them
  BITS,          \* METAL_BITS_PER_ULONG, the size of rproc->bitmap
  ANY,           \* RSC_NOTIFY_ID_ANY
  MaxOps         \* bound on the changes of the state, and on the devices removed

Carveout == [type |-> "carveout"]
Vdev(id, vrings) == [type |-> "vdev", notifyid |-> id, vring |-> vrings]

\* An entry's ids in the order in which handle_vdev_rsc visits them.
Ids(e) == IF e.type = "vdev" THEN <<e.notifyid>> \o e.vring ELSE <<>>

NotifyId == Nat \cup {ANY}
VdevEntry == [type : {"vdev"}, notifyid : NotifyId, vring : Seq(NotifyId)]

ASSUME RemoteprocAssumption ==
  /\ NoThread \notin Threads
  /\ ANY \notin Nat
  /\ BITS \in Nat /\ MaxOps \in Nat
  /\ \A t \in Tables : t \in Seq({Carveout} \cup VdevEntry)

VARIABLES
  state,         \* rproc->state
  running,       \* the processor runs (external)
  stopIgnored,   \* history: remoteproc_stop went on after ops->stop failed
  removed,       \* remoteproc_remove has called ops->remove
  table,         \* the resource table, whose ids are assigned in place
  rsc_table,     \* rproc->rsc_table is set
  at,            \* the entry, and the id of it, that handle_rsc_table is about to
                 \* handle; NotParsing outside of it
  bitmap,        \* rproc->bitmap
  overrun,       \* history: a bit behind the bitmap was asked for
  vdevs,         \* rproc->vdevs: the devices, each with the entry it is made of
                 \* and the number of its vrings that are mapped and set
  lock,          \* the holder of rproc->lock
  creating,      \* of the thread in remoteproc_create_virtio: its new device
  listed,        \* and whether it has put that in the list
  driver_ok,     \* the status in the resource table, written by Linux
  got,           \* history: the entry asked for, that of the device got, and the
                 \* number of the device's vrings that were set by then
  badFree,       \* history: a pointer was freed that was never allocated
  ops            \* steps counted against MaxOps

life  == <<state, running, stopIgnored, removed, ops>>
ids   == <<table, rsc_table, bitmap, overrun, at>>
devs  == <<vdevs, lock, creating, listed, got, badFree>>
rprocVars == <<life, ids, devs, driver_ok>>

None == [entry |-> 0]
NotParsing == [idx |-> 0, id |-> 0]

\* remoteproc_init.
RprocInit ==
  /\ state = "OFFLINE"
  /\ running = FALSE /\ stopIgnored = FALSE /\ removed = FALSE
  /\ table \in Tables
  /\ rsc_table = FALSE
  /\ at = NotParsing
  /\ bitmap = {}
  /\ overrun = FALSE
  /\ vdevs = <<>>
  /\ lock = NoThread
  /\ creating = None /\ listed = FALSE
  /\ driver_ok = FALSE
  /\ got = {}
  /\ badFree = FALSE
  /\ ops = 0

-----------------------------------------------------------------------------
(* The life cycle.                                                         *)

\* A call takes the lock and does all its work; callers stop after the removal.
Call == lock = NoThread /\ ~removed /\ ops < MaxOps /\ ops' = ops + 1

\* remoteproc_config: the state changes whatever ops->config returns.
Config ==
  /\ Call
  /\ state = "OFFLINE"
  /\ state' = "READY"
  /\ UNCHANGED <<running, stopIgnored, removed, ids, devs, driver_ok>>

\* remoteproc_start: the state changes whatever ops->start returns.
Start(ok) ==
  /\ Call
  /\ state = "READY"
  /\ running' = ok
  /\ state' = "RUNNING"
  /\ UNCHANGED <<stopIgnored, removed, ids, devs, driver_ok>>

\* remoteproc_stop, the same.
Stop(ok) ==
  /\ Call
  /\ state \notin {"STOPPED", "OFFLINE"}
  /\ running' = (running /\ ~ok)
  /\ stopIgnored' = (stopIgnored \/ ~ok)
  /\ state' = "STOPPED"
  /\ UNCHANGED <<removed, ids, devs, driver_ok>>

\* Mutant: the result of ops->stop is ignored.
ShutdownIgnoring(stop, down) ==
  /\ Call
  /\ state # "OFFLINE"
  /\ running' = (running /\ (state = "STOPPED" \/ ~stop))
  /\ state' = IF down THEN "OFFLINE" ELSE state
  /\ UNCHANGED <<stopIgnored, removed, ids, devs, driver_ok>>

\* remoteproc_shutdown with the results of ops->stop and ops->shutdown.
Shutdown(stop, down) ==
  /\ Call
  /\ state # "OFFLINE"
  /\ LET stopped == state = "STOPPED" \/ stop
     IN /\ running' = (running /\ (state = "STOPPED" \/ ~stop))
        /\ state' = IF stopped /\ down THEN "OFFLINE" ELSE state
  /\ UNCHANGED <<stopIgnored, removed, ids, devs, driver_ok>>

\* remoteproc_remove.
RemoveRproc ==
  /\ Call
  /\ state = "OFFLINE"
  /\ removed' = TRUE
  /\ UNCHANGED <<state, running, stopIgnored, ids, devs, driver_ok>>

-----------------------------------------------------------------------------
(* Notify ids.                                                             *)

\* Mutant: only an id that was searched for is marked in the bitmap.
AllocateIdUnmarked(bm, start) ==
  LET range == IF start = ANY THEN 0..BITS - 1 ELSE {start}
      clear == range \ bm
  IN IF clear = {} THEN [bitmap |-> bm, id |-> ANY]
     ELSE LET n == CHOOSE i \in clear : \A j \in clear : i <= j
          IN [bitmap |-> IF start = ANY THEN bm \cup {n} ELSE bm, id |-> n]

\* remoteproc_allocate_id(rproc, start, start + 1) of an id in the bitmap; for
\* ANY, start + 1 is 0 and the range is the whole bitmap.
AllocateId(bm, start) ==
  LET range == IF start = ANY THEN 0..BITS - 1 ELSE {start}
      clear == range \ bm
  IN IF clear = {} THEN [bitmap |-> bm, id |-> ANY]
     ELSE LET n == CHOOSE i \in clear : \A j \in clear : i <= j
          IN [bitmap |-> bm \cup {n}, id |-> n]

\* An id that the bitmap has no bit for is looked up, and marked, in what lies
\* behind it, the next members of struct remoteproc: nothing checks it.
Behind == Nat \ (0..BITS - 1)
Allocations(bm, start) ==
  IF start \in Behind THEN {[bitmap |-> bm, id |-> n] : n \in {start, ANY}}
                      ELSE {AllocateId(bm, start)}

\* remoteproc_set_rsc_table begins; the platform calls it until it succeeds.
SetRscTable ==
  /\ at = NotParsing /\ ~rsc_table /\ ~removed
  /\ ops < MaxOps /\ ops' = ops + 1
  /\ at' = [idx |-> 1, id |-> 1]
  /\ UNCHANGED <<state, running, stopIgnored, removed, table, rsc_table, bitmap, overrun,
                 devs, driver_ok>>

\* handle_vdev_rsc: each id that is allocated, the device's and then the
\* vrings', is stored as the id of the device.
HandleVdevId ==
  /\ at.idx \in DOMAIN table
  /\ table[at.idx].type = "vdev"
  /\ LET all == Ids(table[at.idx])
     IN /\ \E a \in Allocations(bitmap, all[at.id]) :
             /\ bitmap' = a.bitmap
             /\ table' = IF a.id = ANY THEN table
                         ELSE [table EXCEPT ![at.idx].notifyid = a.id]
        /\ overrun' = (overrun \/ all[at.id] \in Behind)
        /\ at' = IF at.id = Len(all) THEN [idx |-> at.idx + 1, id |-> 1]
                 ELSE [at EXCEPT !.id = at.id + 1]
  /\ UNCHANGED <<life, rsc_table, devs, driver_ok>>

\* handle_carve_out_rsc maps the memory.
HandleCarveOut ==
  /\ at.idx \in DOMAIN table
  /\ table[at.idx] = Carveout
  /\ at' = [idx |-> at.idx + 1, id |-> 1]
  /\ UNCHANGED <<life, table, rsc_table, bitmap, overrun, devs, driver_ok>>

\* The header, an entry outside of the table, or a carveout that cannot be
\* mapped ends it; the ids of the entries before stay assigned.
SetRscTableFails ==
  /\ at.id = 1
  /\ at.idx = 1 \/ at.idx \in DOMAIN table
  /\ at' = NotParsing
  /\ UNCHANGED <<life, table, rsc_table, bitmap, overrun, devs, driver_ok>>

\* All entries have been handled.
SetRscTableEnds ==
  /\ at.idx = Len(table) + 1
  /\ rsc_table' = TRUE
  /\ at' = NotParsing
  /\ UNCHANGED <<life, table, bitmap, overrun, devs, driver_ok>>

-----------------------------------------------------------------------------
(* Virtio devices.                                                         *)

\* find_rsc: the entries of type RSC_VDEV.
VdevEntries == {e \in DOMAIN table : table[e].type = "vdev"}

\* Mutant: no device is found.
FoundNone(e) == {}

\* The devices in the list with the notify id of the entry.
Found(e) == {d \in Range(vdevs) : d.notifyid = table[e].notifyid}

\* remoteproc_create_virtio returns the device it finds.
CreateFound(e) ==
  /\ lock = NoThread /\ rsc_table /\ ~removed
  /\ e \in VdevEntries
  /\ \E d \in Found(e) : got' = got \cup {<<e, d.entry, d.mapped>>}
  /\ UNCHANGED <<life, ids, vdevs, lock, creating, listed, badFree, driver_ok>>

\* rproc_virtio_create_vdev has no memory: the error path frees the virtqueues
\* of all vrings, but only the first vring's entry has been cleared; what the
\* others hold is what the heap held.
CreateNoMemory(e) ==
  /\ lock = NoThread /\ rsc_table /\ ~removed
  /\ e \in VdevEntries
  /\ Found(e) = {}
  /\ badFree' \in IF Len(table[e].vring) > 1 THEN {badFree, TRUE} ELSE {badFree}
  /\ UNCHANGED <<life, ids, vdevs, lock, creating, listed, got, driver_ok>>

\* It allocates a device; the lock is kept in rproc_virtio_wait_remote_ready.
CreateBegin(t, e) ==
  /\ lock = NoThread /\ rsc_table /\ ~removed
  /\ e \in VdevEntries
  /\ Found(e) = {}
  /\ lock' = t
  /\ creating' = [entry |-> e, notifyid |-> table[e].notifyid, mapped |-> 0]
  /\ UNCHANGED <<life, ids, vdevs, listed, got, badFree, driver_ok>>

\* Mutant: the lock is given up once the device is in the list.
CreateReadyUnlocks ==
  /\ creating # None /\ ~listed /\ driver_ok
  /\ vdevs' = Append(vdevs, creating)
  /\ listed' = TRUE
  /\ lock' = NoThread
  /\ UNCHANGED <<life, ids, creating, got, badFree, driver_ok>>

\* The wait ends: the device is put in the list, with no vring set.
CreateReady ==
  /\ creating # None /\ ~listed /\ driver_ok
  /\ vdevs' = Append(vdevs, creating)
  /\ listed' = TRUE
  /\ UNCHANGED <<life, ids, lock, creating, got, badFree, driver_ok>>

\* Where the new device is in the list, and how many vrings a device has.
New == {i \in DOMAIN vdevs : vdevs[i].entry = creating.entry}
Vrings(d) == Len(table[d.entry].vring)

\* The next vring is mapped and given to the device.
MapVring(i) ==
  /\ listed /\ i \in New
  /\ vdevs[i].mapped < Vrings(vdevs[i])
  /\ vdevs' = [vdevs EXCEPT ![i].mapped = @ + 1]
  /\ UNCHANGED <<life, ids, lock, creating, listed, got, badFree, driver_ok>>

\* All are: remoteproc_create_virtio returns the device.
CreateDone(i) ==
  /\ listed /\ i \in New
  /\ vdevs[i].mapped = Vrings(vdevs[i])
  /\ got' = got \cup {<<creating.entry, vdevs[i].entry, vdevs[i].mapped>>}
  /\ creating' = None /\ listed' = FALSE
  /\ lock' = NoThread
  /\ UNCHANGED <<life, ids, vdevs, badFree, driver_ok>>

\* err1: a vring cannot be mapped or set; the device is removed again.
CreateFails(i) ==
  /\ listed /\ i \in New
  /\ vdevs[i].mapped < Vrings(vdevs[i])
  /\ vdevs' = RemoveAt(vdevs, i)
  /\ creating' = None /\ listed' = FALSE
  /\ lock' = NoThread
  /\ UNCHANGED <<life, ids, got, badFree, driver_ok>>

\* remoteproc_remove_virtio, without the lock, of a device that was given.
RemoveVirtio(i) ==
  /\ i \in DOMAIN vdevs
  /\ vdevs[i].entry # creating.entry
  /\ ops < MaxOps /\ ops' = ops + 1
  /\ vdevs' = RemoveAt(vdevs, i)
  /\ UNCHANGED <<state, running, stopIgnored, removed, ids, lock, creating, listed,
                 got, badFree, driver_ok>>

\* Linux' driver (external).
LinuxDriverOk ==
  /\ ~driver_ok
  /\ driver_ok' = TRUE
  /\ UNCHANGED <<life, ids, devs>>

-----------------------------------------------------------------------------

RprocNext ==
  \/ Config \/ RemoveRproc \/ LinuxDriverOk \/ CreateReady
  \/ \E ok \in BOOLEAN : Start(ok) \/ Stop(ok)
  \/ \E stop, down \in BOOLEAN : Shutdown(stop, down)
  \/ SetRscTable \/ HandleVdevId \/ HandleCarveOut
  \/ SetRscTableFails \/ SetRscTableEnds
  \/ \E e \in DOMAIN table :
       \/ CreateFound(e) \/ CreateNoMemory(e)
       \/ \E t \in Threads : CreateBegin(t, e)
  \/ \E i \in DOMAIN vdevs :
       MapVring(i) \/ CreateDone(i) \/ CreateFails(i) \/ RemoveVirtio(i)

RprocSpec == RprocInit /\ [][RprocNext]_rprocVars

-----------------------------------------------------------------------------
(* Properties.                                                             *)

Device == [entry : DOMAIN table, notifyid : NotifyId, mapped : Nat]

\* The type of the state.
RprocTypeOK ==
  /\ state \in {"OFFLINE", "READY", "RUNNING", "STOPPED"}
  /\ {running, stopIgnored, removed, rsc_table, overrun, listed, driver_ok, badFree}
       \subseteq BOOLEAN
  /\ table \in Seq({Carveout} \cup VdevEntry)
  /\ at.idx \in 0..(Len(table) + 1)
  /\ bitmap \subseteq 0..BITS - 1
  /\ vdevs \in Seq(Device)
  /\ lock \in Threads \cup {NoThread}
  /\ creating = None \/ creating \in Device
  /\ got \subseteq (DOMAIN table) \X (DOMAIN table) \X Nat
  /\ ops \in 0..MaxOps

\* remoteproc_create_virtio gives every caller the device of the entry it asks
\* for, and never makes two of one entry, although it knows the devices by the
\* id of the device only, which handle_vdev_rsc overwrites: from tables that
\* give their fixed ids first, and once each.
OneDevice ==
  /\ RprocTypeOK
  /\ \A p \in got : p[1] = p[2]
  /\ \A i, j \in DOMAIN vdevs : vdevs[i].entry = vdevs[j].entry => i = j

\* An id that a handled entry or a device uses is marked in the bitmap, also
\* after a table that was given up half way: no later entry is given it.
IdsReserved ==
  /\ rsc_table => \A i \in DOMAIN table : Range(Ids(table[i])) \ {ANY} \subseteq bitmap
  /\ \A d \in Range(vdevs) : d.notifyid \in bitmap

\* The processor runs in the state RUNNING only, and is stopped when the
\* instance is removed, unless remoteproc_stop ignored that ops->stop failed:
\* remoteproc_shutdown does not.
StoppedUnlessIgnored ==
  running /\ ~stopIgnored => state = "RUNNING" /\ ~removed

\* A device that remoteproc_create_virtio returns has all its vrings, also when
\* another thread has just put it in the list and waits for their memory: it is
\* listed before its vrings are set, and the lock is kept over both.
ReadyWhenGiven == \A p \in got : p[3] = Len(table[p[2]].vring)

\* remoteproc.h: a notify id is "a unique rproc-wide notify index".
UniqueNotifyIds ==
  rsc_table =>
    \A i, j \in DOMAIN table :
      \A m \in DOMAIN Ids(table[i]), n \in DOMAIN Ids(table[j]) :
        Ids(table[i])[m] = Ids(table[j])[n] => i = j /\ m = n

\* remoteproc.h: "RPROC_STOPPED: remote is stopped".
StoppedIsStopped == state = "STOPPED" => ~running

\* remoteproc.h: rproc->bitmap is the "bitmap for notify IDs for remoteproc
\* subdevices"; the ids are the table's.
BitmapInside == ~overrun

\* alloc.h: metal_free_memory frees "the memory previously allocated".
FreesAllocated == ~badFree

=============================================================================
