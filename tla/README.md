# Verification of the OpenAMP firmware for the T113 C906 core

The firmware runs on the RISC-V core of the Allwinner T113 beside Linux on the
Cortex-A7 cores. The two exchange rpmsg messages through vrings in shared memory
and kick each other with a hardware mailbox. This project models the part of
the repository that carries that exchange: the virtqueue, the notification
protocol on top of it, rpmsg endpoints and the name service, the receive path
with its locks and callbacks, the mailbox with its interrupt handler and
polling task, the start of the firmware against Linux' driver, remoteproc with
the ELF loader, the interrupt controller, and FreeRTOS as this firmware builds
and changes it: scheduler, queues, event groups, stream buffers, timers, heap.

## 1. Inventory

| Part | Source | State | Operations | Talks to |
|---|---|---|---|---|
| virtqueue | `openamp/open-amp/virtio/virtqueue.c` | descriptor table, available and used ring, their free-running 16-bit indices (shared); free chain, cookies, consumer indices, `vq_queued_cnt` (private to a side) | add, get used, get available, add consumed; kick, enable and disable callbacks, notification | the other core through shared memory; `notify` and `callback` function pointers |
| rpmsg endpoints | `openamp/open-amp/rpmsg/rpmsg.c`, `rpmsg_virtio_ns_callback` | endpoint list, address bitmap, per endpoint name, address and destination | create, destroy, lookup, NS announcement in both directions | transport, below; application threads, above; Linux' channels |
| rpmsg transport | `openamp/open-amp/rpmsg/rpmsg_virtio.c` | `rdev->lock`, the held flag in a buffer's header | receive callback, hold, release, get transmit buffer, send | two virtqueues, endpoint callbacks |
| mailbox, OpenAMP task | `openamp/platform/ipi.c`, `platform.c`, `core/main.c` | mailbox FIFO and pending bit (hardware), the task's notification count | poll, interrupt handler, send, the 20 ms loop | Linux' mailbox driver; remoteproc notification, which calls the virtqueues |
| start-up handshake | `rpmsg_init_vdev`, `remoteproc_virtio.c` | status and feature words in the resource table | wait for DRIVER_OK, create the virtqueues | Linux' virtio driver |
| remoteproc | `openamp/open-amp/remoteproc/` | life cycle state, memory list, notify id bitmap, list of virtio devices | init, start, stop, shutdown, resource table handlers, create and remove a device | platform operations |
| ELF loader | `remoteproc_load`, `remoteproc_load_noblock`, `elf_loader.c` | headers read so far and the next segment, in `load_state` | identify, load headers, load segments, locate the resource table | the image store, the resource table |
| interrupt controller | `arch/riscv/irq.c`, `hal/sources/plic.c` | handler table, enable bits, claim register | request, free, enable, disable, claim, dispatch, complete | the trap handler, mailbox handler |
| libmetal | `openamp/libmetal` | lists, I/O regions, irq controllers | | third-party |
| RPC proxy | `openamp/open-amp/proxy` | one outstanding request | remote open, read, write, close | an endpoint |
| FreeRTOS scheduler | `FreeRTOS/Source/tasks.c`, `list.c`, `arch/riscv/softirq.c` | ready lists and their bit map, two delayed lists, pending and suspended lists, tick counter, pended ticks, pending yield; per task priority, base priority, mutexes held, notification | tick, switch, suspend and resume the scheduler, delay, create, delete, priority, notify | the tick and software interrupts; everything below |
| FreeRTOS queues, event groups, stream buffers | `queue.c`, `event_groups.c`, `stream_buffer.c` | messages waiting, two event lists, two lock counts, mutex holder; bits; ring with head and tail, the waiting reader and writer | send, receive, take, give, set, wait, sync, also from interrupts | the scheduler |
| FreeRTOS timers | `timers.c` | two sorted lists, command queue, status and period per timer | start, stop, change, delete, the daemon's loop | the tick counter, a queue |
| FreeRTOS heap | `portable/MemMang/heap_4.c` | list of free blocks, block headers, free bytes | malloc, aligned malloc, realloc, free | every component; called from tasks and handlers |
| HAL | `hal/` | | | register access |

What is hard: two cores share rings without a lock, so order and index wrap
decide correctness; the consumer's switch of notifications races with the
producer; a single core runs the receive callback in a task and in an interrupt
handler; locks are released around callbacks, so state read before is used
after; announcements, transmit buffers and the mailbox FIFO can fail or run out.
Below that the kernel keeps a task in up to two lists at once, defers ticks and
wake-ups while the scheduler is suspended, computes times across the wrap of a
counter, and lends priorities; buffers and heap are shared with interrupt
handlers, partly without a lock.
`PROJECT.json` lists these hazards line by line with the properties that cover
them.

## 2. Modules

| Module | Models | Extended by |
|---|---|---|
| `Virtqueue` | one vring with master and slave, one step per access to shared memory | `MCVirtqueue`, `VirtqueueProofs` |
| `VringFifo` | what a vring promises: a FIFO of buffers each way, one owner per buffer | instance `Fifo` in `Virtqueue` |
| `VqNotify` | kicks, flags, event indices | `MCVqNotify`, `KickProofs` |
| `RpmsgEndpoint` | endpoints, bitmap, name service | `MCRpmsgEndpoint`, `RpmsgEndpointProofs` |
| `RpmsgRx` | receive callback, hold and release, echo, in task and handler | `MCRpmsgRx`, `RpmsgRxProofs` |
| `Msgbox` | mailbox, `msgbox_poll`, interrupt handler, task loop | `MCMsgbox`, `KickProofs` |
| `Startup` | `main_task` to the announcement of the service, against the handler and Linux' probe | `MCStartup`, `RprocProofs` |
| `Remoteproc` | life cycle, resource table, notify ids, virtio devices, with two threads | `MCRemoteproc`, `RprocProofs` |
| `ElfLoader` | the load state and its operators, `elf_loader.c` | `RprocLoad` |
| `RprocLoad` | `remoteproc_load` with its store, `remoteproc_load_noblock`, and the error paths of both | `MCRprocLoad`, `RprocLoadProofs` |
| `Plic` | PLIC, `irq.c`, `plic.c`, at each register access | `MCPlic`, `KickProofs` |
| `Sched` | lists and scheduler as operators on the record of the kernel's globals | `KTask` |
| `KTask` | tasks and interrupts that call the kernel, one step per critical section; delay, suspend, resume, create, delete, priority, notifications | `KQueue` |
| `KQueue` | queues, semaphores, mutexes | `KEvents` |
| `KEvents` | event groups | `KStream` |
| `KStream` | stream and message buffers | `Kernel` |
| `Kernel` | the composition of the four, and what the kernel promises | `MCKernel` |
| `Timers` | daemon, command queue, lists | `MCTimers`, `TimersProofs` |
| `Heap` | `heap_4.c` | `MCHeap`, `HeapProofs` |

The modules compose by abstraction. `RpmsgRx` and `RpmsgEndpoint` use rings and
message streams as the queues of `VringFifo`, which `Virtqueue` is shown to
implement. `Msgbox` uses "the callback drains the ring", which is the loop of
`RpmsgRx`; `RpmsgRx` and `VqNotify` use "a kick leads to a callback", which is
what `Msgbox` and `VqNotify` show. `Startup` puts the parts together in the
order in which the firmware makes them and takes each as one step: what its
handler finds is what `remoteproc_get_notification`, `virtqueue_notification`
and the receive callback would find at that moment. `Msgbox` and `Startup` use
"an asserted line reaches its handler", which `Plic` shows.

**Virtqueue.** Variables carry the names of the C fields. `m_pc` and `s_pc` are
the positions of the master and the slave inside a call; a call is as many
actions as it has accesses to memory the other side also touches: for instance
`virtqueue_get_available_buffer` is `GetAvail` (index compared, slot claimed),
`ReadSlot`, `ReadDesc`. All callers pass chains of one descriptor, so chains of
more are left out. Indices are taken modulo `IDX_MOD` (65536 in the code) and
masked by `Slot`. `owner` and `rank` are history variables: where a descriptor
is, and how high on the free chain. No action's guard reads them.

**VqNotify.** The same protocol serves both directions, so the module has a
producer and a consumer. `event_idx` chooses at start between the flag
(`VRING_USED_F_NO_NOTIFY`, what this firmware's resource table negotiates) and
event indices. The consumer follows the pattern of the API: drain, enable, look
again.

**RpmsgEndpoint.** One action per critical section of `rdev->lock`, and one for
each announcement, which is sent outside it and may fail. `op` is where the
thread of an endpoint stands. `lost` records the channels whose DESTROY could
not be sent, as `rpmsg_destroy_ept` ignores that error. Linux is external: it
applies announcements to a set of channels and announces its own endpoints.
`ns_bind_cb` and `ns_unbind_cb` are NULL in this firmware.

**RpmsgRx.** Each critical section of `rpmsg_virtio_rx_callback` is two steps,
`Acquire` and the section itself, so that a context can lose the processor
while it owns the lock; `Runs` says that the task does not run while the
handler does. `EptCb` is the endpoint's callback, which may hold the buffer;
after it the echo service sends with wait (`GetTx`, `Send`); a callback that
fails only leads to a log line. `TICKS` stands for
the 15000 retries. `held` is the flag in the buffer's header: posting a message
rewrites the header, so it clears the flag. Linux is external.

**Msgbox.** One action per register access of `msgbox_poll`, for each of the
two contexts. The mailbox is external; the manual's silence on whether the
pending bit is set again when it is cleared with words left is the parameter
`Relatch`. What the handler does apart from polling, counting for the log
lines, is left out.

**Startup.** A step of the task is a call that makes something visible to the
handler or to Linux, or reads what Linux writes; `Phases` is their order. The
handler preempts the task and runs to its end: `Isr` is one step, with its path
through devices, virtqueue and endpoints, each of which may not exist yet.
`remoteproc_create_virtio` waits for DRIVER_OK without a bound (`WaitOk`),
`rpmsg_init_vdev` for 500 rounds (`WaitReady`). Linux may reset the device in
between, answer with or without `VIRTIO_RPMSG_F_NS`, or stay away. The offset
that `platform.c:181` passes as NULL is written to: the step `GetShmIo` lets it
trap or not.

**Remoteproc.** Each operation is a critical section of `rproc->lock`, except
the operations that do not take it and `remoteproc_create_virtio`. That one holds
the lock while it waits for Linux (`CreateBegin`, `CreateReady`), lists the device,
maps its vrings one by one (`MapVring`) and returns it or gives it up (`CreateDone`,
`CreateFails`); calls without the lock come in between.
`remoteproc_set_rsc_table` is one of these: `at` is the entry, and the id of it,
that `handle_rsc_table` is about to handle, and every entry and every id is a
step, so that a table can be given up half way. Platform operations
fail or not. Ids are allocated as the code does, including the ANY marker and
the end of the range. An id the bitmap has no bit for is looked up behind it, in
whatever `struct remoteproc` has there: it is free or not (`Allocations`), and
`overrun` records it. The resource tables are sequences of entries; `Tables`
holds the firmware's own and others. Failures of `virtqueue_allocate` follow the
error path of `rproc_virtio_create_vdev`, with `badFree` for the pointers that
memory nobody cleared may hold.

**ElfLoader, RprocLoad.** An image is the order of its parts in the file (ELF
header, program headers, section headers, names, data), the kind of each program
header and whether it has a resource table. The position in the file is the
number of parts passed; `Windows` is what the store can deliver at first.
`RprocLoad` has one action per call of a store or loader operation, in the order
of `remoteproc_load`, and keeps what is held, to see that every path gives
it back. The labels `error3`, `error2` and `error1` are steps of their own, and an
error goes to the label the code names; `stray` records a release of what is not held
or no longer held. `remoteproc_load_noblock` is for a caller that has the image in pieces:
it passes what the last call asked for, loads what it is given an address for,
and calls again until a call neither asks for data nor gives an address. A call
holds the lock throughout and is one step; the properties hold of both ways to
load.

**Plic.** Lines, pending and claimed interrupts, enable bits and priorities are
the hardware. The task's calls are lists of accesses (`After`), and the handler
can run between any two. `use` is how an application uses the calls: what its
handlers call, and which lines it enables without requesting them.
Completion of a line that is not enabled is ignored, as the PLIC specification
says. `on` is a history variable: the lines that are switched on as far as
callers know.

**Sched, KTask, KQueue, KEvents, KStream, Kernel.** The state of the scheduler
is one record `K`, and each function of `tasks.c` that runs with interrupts
masked is an operator from `K` to the next; a call of the API is a sequence of
steps of the task that makes it, one for each critical section, with
`L[t].pc` saying where it stands and `L[t]` its locals. Only the current task
takes steps; the tick (`TickIrq`), the software interrupt that switches
(`SoftIrq`) and the interrupts of a workload (`Isr`) come between any two. A
ready list is the ring of its items turned so that the item at `pxIndex` is
last, which makes `vListInsertEnd` an insertion before it and leaves round robin
to the list. A queue is a count, as no property tells its items apart; a stream
buffer has its cells, as the order of bytes is the point. Sends and receives
that find nothing go the way of the code: suspend the scheduler, lock the queue,
check the time, look again, enter the event list, unlock, resume, yield. A
`Workload` is an initial set of tasks with priorities and the calls that each,
and the interrupts, may make in any order.

**Timers.** A step of the daemon goes from one use of the queue or of the tick
counter to the next, since nobody else touches the lists. Commands carry the
tick at which they were sent. `rem` and `run` are history variables: when a timer is
really due, in unbounded time, and whether it is meant to run. The actions do not
read them.

**Heap.** A block is the address of its header; `next` and `size` are the
headers of free blocks, `used` those of allocated ones, with what the caller
asked for as a ghost. `vPortFree` marks the block before it masks interrupts, so
it is two steps (`Free`, `FreeInsert`), and `pvPortRealloc` is an allocation, a
copy and a free. Sizes are computed modulo `Word` as in `size_t`.

Some properties of a run are conjunctions of named parts that belong together:
`Timely` (`NoOversleep`, `NoEarlyTimeout`, `Punctual`), `NothingMissed` (`NoLostWakeup`,
`NoLostNotify`, `BitsSeen`, `StreamWakes`), `MutexesExact` (`MutexExact`,
`RecursionExact`, `Inherits`) and `StreamsIntact` (`Intact`, `MessageWhole`) of
`Kernel`, `OnTime` of `Timers`, `FreeListExact` and `Tiled` of `Heap`,
`StartServes` of `Startup`. A module's `TypeOK` is part of one of its
invariants, or proved.

Operators with a comment "Mutant:" are wrong variants of the
definition after them. No specification uses them; they serve to show that a
property fails when the code is changed that way.

## 3. Runs

| Run | Instance | Shows |
|---|---|---|
| `vq` | 2 descriptors, indices modulo 4, 3 buffers | `Exclusive`, the inductive invariant `IInv`, and that the ring implements `VringFifo` |
| `notify` | 3 entries, indices modulo 8, batches up to 7 | no lost wake-up with flag or event index; every entry is taken |
| `endpoints` | 2 endpoints, 1 name and the empty one, 1 predefined and 1 bitmap address (and one out of range), streams of 2 | bitmap, list and remote channels agree |
| `msgbox` | FIFO of 3, 2 rounds of the handler, words 2 and 0 | no lost kick, every message is received |
| `rx` | 2 receive buffers, 1 transmit buffer, 1 retry, 3 messages, polling task and application | one owner, order, every buffer returns |
| `startup` | 2 rounds of waiting, 2 words in the mailbox, 2 messages, 2 resets; with and without the interrupt, kicks at any time | the features are Linux' answer, nothing is dropped for lack of an endpoint, bounded waits end, messages are received |
| `rproc` | 2 threads, 5 ids, 3 resource tables, 6 operations | one device per entry, ids in use marked, a stopped state means stopped or an error that was ignored, a device that is given has all its vrings |
| `load` | 270 images with up to 3 program headers, each by a store with seek, one without, and call by call; 4 first windows, failure of any store operation, allocation or mapping (a table that is refused is left out, see below) | segments loaded once, table found, everything released once, the load ends |
| `plic` | 2 lines, 4 calls, 3 assertions; a disciplined use of the calls, and one where handlers call everything and a line is enabled that nobody requested | entries are complete when used, a line switched off stays off, every line that is on is served |
| `kernel` | 23 workloads of up to 3 tasks, one queue of length 1, two mutexes, an event group, a message buffer of 4 cells and a stream buffer of 3, 4 priorities, a tick counter modulo 4 | lists exact, highest priority runs, no wake-up lost, early or late, priorities lent and given back, round robin without overtaking, buffers intact and their tasks woken |
| `timers` | an auto-reload and a one-shot timer, 3 commands, a queue of 2, a tick counter modulo 5, a daemon up to 2 ticks late and commands up to 2 ticks old | timers are listed where they are due, none fires early, none is slept over, a running timer is never lost, due timers fire |
| `heap` | 10 units of 16 bytes, 2 callers, requests of 0 to 4 units and one in the top half of `size_t`, alignments 8 and 32 | the blocks tile the heap, the list is ordered and joined, the count exact, callers' memory is theirs |

Why the bounds suffice. A ring of two descriptors fills, empties and is
traversed out of order, and with four index values each index wraps every
second lap, as 65536 is a multiple of the ring size; the proofs cover every
other size. In `notify` the ring (3) is not a divisor of the index space (8), so
every alignment of window and wrap occurs, and a batch may be as long as the
index space allows. In `endpoints` one bitmap address for two endpoints makes
each reuse collide with the announcements of the previous owner. A mailbox of
three words holds a word that is read, one that shares its pending bit and one
that arrives meanwhile. In `rx` a second message is taken while the first
buffer is held, and a third reuses a returned buffer; one transmit buffer runs
out at the second echo.

In `startup` two rounds of waiting stand for 500: the count is only compared
with its bound, and one round before and one after a reset are the cases. Five
ids in `rproc` are fewer than the fixed and the chosen ids together, so the
bitmap runs out; the tables overlap in their ids. Three program headers give a
segment to load before, between and after others. Two lines of one word are
enough for a lost update, four calls let both be requested and one be switched
off and on.

In `kernel` a workload aims at one part of the kernel: two receivers and a peek
against an interrupt that sends, senders of equal and different priority,
mutexes with and without timeout and with recursion, notifications while the
scheduler is suspended, and so on. With a queue of length 1 it is full or empty
at every step, four ticks make every waiting time cross the wrap, and `MaxPend`
ticks are held back while the scheduler is suspended. Periods of 1 and 2 ticks of
tasks that share a priority make `xTaskDelayUntil` late on both sides of the
wrap; a task is never a whole turn of the counter late, which is 2^64 ticks in
the firmware. A ring of four cells holds
the largest message with its length and wraps inside of both. Two mutexes held
at once by one task are left out of these workloads: two statements of the code
fail for them (below). In `timers` a period of 2 with commands and daemon up to
2 ticks late reaches every branch of `prvInsertTimerInActiveList` on both sides
of the wrap, and two commands fill the queue. The heap of ten units has room for
three to five blocks, so that a block is freed between two free ones, behind
one, before one and between none; the proofs cover every other size.

Deadlock is checked except in `startup`, where the task halts
for good after an error, in `rproc`, where `MaxOps` ends, and in
`plic`, where the calls and the devices' assertions end and nothing is left to do.

Fairness, used by `EveryEntryTaken`, `MessageReceived`, `BufferReturns`,
`StartServes`, `LoadEnds`, `LineServed` and `DueTimersFire`:

- `VqNotify`: both sides go on with what they began, and a published entry gets
  its kick: `rpmsg_virtio_send_offchannel_nocopy` kicks in the same critical
  section, the receive callback when the ring is empty. Disabling callbacks and
  publishing are never required to happen.
- `Msgbox`: the task's wait ends after 20 ms, the processor goes on, and a level
  interrupt that stays pending is taken. Linux writes a word it owes when the
  FIFO has room again and again (strong fairness: another writer may use the
  room in between). Poll steps need weak fairness only per context.
- `RpmsgRx`: polling calls back again and again. A context that wants the lock
  gets it in the end (strong fairness: the application may own it in between;
  FreeRTOS queues waiters by priority), and the application releases what it
  keeps. Linux takes what it is given.
- `Startup`: the task goes on, its loop polls, and an enabled pending interrupt
  is taken. Nothing is assumed of Linux: `StartEnds` allows the task to wait in
  `remoteproc_create_virtio` as long as Linux does not set DRIVER_OK.
- `RprocLoad`: the caller's thread goes on.
- `Plic`: the processor takes its next step, interrupts first or not, and the
  PLIC latches what is asserted.
- `Timers`: the tick goes on, and so does the daemon, which this firmware
  creates with the highest priority. Nobody has to send a command.

`Remoteproc` has no liveness property: `remoteproc_create_virtio` holds the lock until
Linux sets DRIVER_OK, which nothing in the code can enforce, so that the lock comes
back is not to be promised. `Kernel` has none either: whether a task runs depends on what tasks of
higher priority do, which the kernel leaves to the application. `NoOvertaking`,
`NothingMissed` and `Timely` say instead, as safety, that
nothing stands between a task and its turn.

### Statements that the code does not keep

The modules also state the following, which TLC refutes in the instance of the
run named first, with that property alone and the change named.

| Instance | Property | What happens |
|---|---|---|
| `endpoints`, `RPMSG_ADDR_BMP_SIZE = 2`, `RemoteAddrs = {r1, r2}` | `DestroyUnbinds`: a callback for the endpoint bound to what was destroyed (`rpmsg.h:64`) | the NS DESTROY of a remote endpoint is applied to an earlier endpoint of the same name that is bound to nothing; the bound one keeps a dead address |
| `rx`, `Contexts = {"task", "isr"}`, `MaxMsgs = 2` | `IsrNeverWaits`: "This macro must not be used from an ISR." (`semphr.h:405`) | the handler calls `rpmsg_virtio_rx_callback` (`ipi.c:92`), which takes a FreeRTOS mutex without timeout (`mutex.h:73`, `rpmsg_virtio.c:490`); if the task it interrupted owns the mutex, nobody can give it |
| `startup`, `IrqResults = {TRUE}` | `CallbacksWait`: "without invoking callbacks (rproc not ready yet)" (`ipi.c`) | the interrupt of the mailbox is enabled before (`ipi.c:190`); a kick in that window walks a list whose head is zero |
| `rproc`, `Tables <- FirmwareTable` | `UniqueNotifyIds`: "a unique rproc-wide notify index" (`remoteproc.h`) | the ids allocated for vrings overwrite the id of the device (`rsc_table_parser.c:151`); the firmware's table, with 0, 1, 2, ends with 2 for the device and a vring |
| `rproc`, `Tables <- BeyondTable` | `BitmapInside`: "bitmap for notify IDs for remoteproc subdevices" (`remoteproc.h:362`) | an id that a table fixes is not compared with the size of the bitmap (`remoteproc.c:865-867`): its bit is looked up, and set, in the members of `struct remoteproc` behind |
| `rx`, `EarlyRelease = TRUE` | `ReturnedOnce`: a buffer may be released "at process context when the message in rx buffer is processed" (`rpmsg.h:300`) | `RPMSG_BUF_HELD` is a bit in the shared buffer, read after the callback; when the buffer has been released and reused by then, it is returned twice |
| `msgbox`, `OtherIds = {1}`, `Relatch = {TRUE}` | `NoLostKick` with words of both vrings | the read without pending bit (`ipi.c:257`) drops the word it reads; with only words that address the receive ring this is harmless (`KickNeverLost`) |
| `rproc`, `Tables <- FirmwareTable` | `StoppedIsStopped`: "remote is stopped" (`remoteproc.h:480`) | the state is set when `ops->stop` failed, and `remoteproc_shutdown` does not try again |
| `rproc`, `Tables <- FirmwareTable` | `FreesAllocated`: frees "memory previously allocated" (`alloc.h:33`) | only the first entry of `vrings_info` is cleared (`remoteproc_virtio.c:219`); the error path frees what the others hold |
| `load` | `BreakIsComplete`: the comment at `remoteproc.c:591` | program headers of other types behind the last segment end the load before the section headers are read, so the table is missed |
| `load`, `TableResults = {"table", "nomem", "invalid"}` | `FreesAllocated`; `AllReleased` with it | a resource table that cannot be read makes `remoteproc_get_rsc_table` free an error pointer and lose its memory (`remoteproc.c:126-135`), and `remoteproc_load` take the error pointer for a table |
| `load` | `ResultTells`: "0 for success and negative value for failure" (`remoteproc.h:720`) | a short read returns its count (`remoteproc.c:496`), also 0 |
| `kernel`, `Workloads <- MCTwo` | `HighestRuns` with two mutexes: "the task that was given the mutex" must run (`tasks.c:4237-4244`) | the yield that `xTaskPriorityDisinherit` asks for is dropped when the given mutex has no waiter (`queue.c:870-893`), so the task goes on at a lower priority than a ready one |
| `kernel`, `Workloads <- MCNested` | `ListsExact` with nested mutexes | `vTaskPriorityDisinheritAfterTimeout` clears the bit of the new priority, not of the list it emptied (`tasks.c:4341`): the bit map claims tasks where there are none, which the search for the highest priority asserts away (`tasks.c:179`) |
| `kernel`, `Workloads <- MCPeek` | `Intact`: one writer and one reader are safe (`stream_buffer.h:35-40`) | a look at the next length, and a receive into a buffer that is too small, move `xTail` and put it back (`stream_buffer.c:877-880`, `973-988`); an interrupt that writes in between uses the space |
| `kernel`, `Workloads <- MCStream` | `ReceiveWaits`: `xTicksToWait` of `stream_buffer.h` | `xStreamBufferReceive` waits once (`stream_buffer.c:810`): a notification left over from before, or one without data, ends the wait early and empty |
| `kernel`, `Workloads <- MCLook` | `NoLengthAlone`: `configASSERT( xBytesAvailable == 0 )` (`stream_buffer.c:886`) | a reader that preempts the writer between length and data finds the length alone; the assertion is compiled out in this build |
| `timers`, `Commands <- MCStop`, `IsrCommands = {}` | `StopStops`: "Stopping a timer ensures the timer is not in the active state." (`timers.h:524`) | the restart that the daemon sends itself for a late timer (`timers.c:531`, `821`, `936`) is queued behind a stop and revives the timer |
| `timers`, `Commands <- MCDelete`, `IsrCommands = {}` | `FreedUnused` with an auto-reload timer | the same restart behind a delete uses the freed timer (`timers.c:866`) |
| `timers` | `RestartKept`: `configASSERT( xResult )` (`timers.c:532`, `822`, `937`) | interrupts fill the queue before the daemon sends itself the restart of a late auto-reload timer; the assertion is compiled out, and the timer is lost. `Kept` and `DueTimersFire` excuse this case |
| `timers` | `ActiveRuns`: an expired one-shot timer is dormant (`timers.h:417-419`) | one that expires while its command is carried out or while the lists switch stays `tmrSTATUS_IS_ACTIVE`; an auto-reload timer whose restart finds the queue full is active in no list |
| `heap` | `CopyInside`: realloc copies what the old block has | the old size is read with `xBlockAllocatedBit` in it (`heap_4.c:622`), so the new length is copied always, also past the end of a smaller old block |
| `heap` with a request close to `Word` | `CallerMemory` | `pvPortMallocAlign` adds size and alignment in `size_t` without the check that `__internal_malloc` has for its own sum (`heap_4.c:550`): a sum that wraps gets a small block |
| `rx`, `Contexts = {"task", "isr"}`, `MaxMsgs = 2` | `InOrder` | the handler runs the callback between the task's `rpmsg_virtio_get_rx_buffer` and its delivery: the second message overtakes the first |
| `heap` | `StatsReachEnd`: "until the last block is reached" (`heap_4.c:488-513`) | with no free block at all `vPortGetHeapStats` starts at `pxEnd` and follows its NULL |

`LineServed` of `Plic` is restricted to disciplined uses for two reasons that the model
shows when the restriction is lifted: `plic_toggle`'s write of a stale word takes back a
line that a handler has enabled in between, and a handler that disables its own line has
its completion ignored, so the line stays claimed. The firmware's only handler does
neither. Seen while reading and not modelled: `virtqueue_get_desc_size` invalidates
another slot of the ring than it reads; with event indices `rpmsg_virtio_rx_callback`
would have to call `virtqueue_enable_cb`; a handler that calls `irq_request` enables
nested interrupts; with 256 program headers the segment number in the load state wraps;
`rpmsg_release_rx_buffer` returns a buffer without a kick, so Linux waiting for one
hears of it at the next message; `remoteproc_remove_virtio` and
`remoteproc_get_notification` use the list of devices without the lock. In
`remoteproc_load_noblock`: `nlen` is 0 for a segment without file contents though the
load is not finished; a table that cannot be mapped gives the result 0 with `img_info`
released (`remoteproc.c:800-805`); after an error the caller's `*img_info` dangles;
`*pa` and `*io` are not reset when there is nothing to load, which
`remoteproc.h:752-757` promises. In the kernel: `vTaskPrioritySet` of a task that has
inherited compares with the wrong priority (`tasks.c:1652`, `1672`); `vTaskResume` also
wakes a task that waits for ever for a notification; `xQueueGenericReset` wakes one
sender for a whole empty queue; the lock counts are `int8_t` and overflow after 127
posts while a queue is locked; `xStreamBufferReset` between the length and the data of a
message leaves the data.

## 4. Proofs

All theorems hold for every value of the constants that satisfies the named
assumptions, and the hypothesis where a theorem states one. The proofs are
checked by TLAPS.

**`VirtqueueProofs`** proves `Spec => []IInv` (`InductiveInvariant`) and from
it `TypeOK`, `Exclusive`, `SlaveOwnsBuffer` and `AssertsHold`, and the
refinement `Spec => ImplementsFifo` (`RingIsFifo`). Assumption:
`VqAssumption`, the ring has between 1 and 32768 entries and the index space is
at least two laps of it. One lap would not do: a full and an empty ring would
have equal indices.

`Exclusive` is not inductive: that a slot the master writes is not one the slave
still needs follows from where *every* descriptor is. `IInv` therefore says, for
each place of `owner`, what memory looks like: `ChainInv` (the free chain is a
list of ranks `1..vq_free_cnt`, the head on top), `AvailInv` and `UsedInv` (the
pending window of a ring names distinct descriptors in the right place, and the
slots used by calls in progress hold what these calls rely on), and `BufInv`
(a descriptor carries a buffer exactly while it is not free). A ring never
overflows because distinct slots of the window name distinct descriptors, and
the one being added is not among them: a pigeonhole argument over
`0..(N-1)`, which is a lemma of its own, as are the facts on the
window when an index is incremented across the wrap. One step per action follows.

`RingIsFifo` takes the queues of `VringFifo` from the pending windows of the two rings.
A pending slot keeps its descriptor and a pending descriptor its buffer (`IInv`), and no
buffer is in flight twice (`Distinct`). So every write to a slot, a descriptor or the
free chain leaves the mapped queues alone (the `Hidden` lemmas: these steps stutter),
and the four steps that move an index are the four steps of the FIFO: `PublishOffers`,
`ClaimTakes`, `PublishReturns`, `ClaimReclaims`.

**`KickProofs`** has the three modules on the way of a kick; they share no
state, and their specifications are `NotifySpec`, `MboxSpec` and `PlicSpec`.

For `VqNotify` it proves `[]NoLostWakeup` (`WakeupNeverLost`) from
`NotifyAssumption`: the ring is smaller than the index space by more than one,
and fewer entries than the index space are published between two kicks. It is
not inductive. `Armed` adds that from `virtqueue_enable_cb` on the consumer's wish
is in memory (the flag is clear, or the event index is where it stands), and
`Covered` says with numbers what `MustNotify` decides: while the consumer waits
and no notification is on its way, every pending entry was published since the
last kick. The lemmas are about distances between free-running indices across
the wrap; `NeedEventIs` says that `vring_need_event` tests whether the event
index lies among the entries published last.

For `Msgbox` it proves `[]NoLostKick` (`KickNeverLost`) under the assumption
that every word Linux writes addresses the receive vring. `NoLostKick` is
inductive together with `MboxTypeOK` and the fact that the handler goes round only
while it has rounds left, which `MboxTypeOK` needs (`MboxTypeCorrect`, without the
assumption). With words for the other vring `NoLostKick` fails (section 3), so
the assumption is necessary.

For `Plic` it proves `[]OffStaysOff` (`OffIsOff`) for any number of lines and
any use of the calls, `[]EntryWhole` (`EntryComplete`) and `[]PlicTypeOK`
(`PlicTypeCorrect`: a call in progress has a line). `OffStaysOff` is
not inductive because of the word the task is about to write back: `OffInv` adds
that a line in it whose priority is set is on, and that a call that switches a
line on finds priority and history in step. `WholeInv` says for each position of
a call what it has stored or cleared: a line with a priority has its entry. Both
assume only `PlicAssumption`; `EntryWhole` itself speaks of disciplined uses.

**`RprocProofs`** is about the start of the firmware and the remoteproc framework below
it. For `Startup` it proves `[]FeaturesAgree` (`FeaturesCorrect`) and `[]NothingDropped`
(`StartDropsNothing`) from `StartupAssumption`, for every depth of the mailbox, bound of
the second wait and number of resets, with Linux kicking early or not. Both follow from
where the task is: `PhaseFacts` names the calls of `Phases` and those after the read of
the features. `FeaturesAgree` needs that the features are read at one call and that
Linux settles its own before it sets DRIVER_OK; for `NothingDropped` the invariant says
which of the three objects on the message's way exist at each call, and that Linux has
the channel only after the announcement, which is the last call.

For `Remoteproc` it proves `[]StoppedUnlessIgnored` (`RunsOnlyRunning`) from
`RemoteprocAssumption` alone, and `[]IdsReserved` (`IdsAlwaysReserved`) and
`[]OneDevice` (`OneDeviceEach`) for tables that a firmware image may hold, any number of
threads and ids. Their hypotheses are about the tables: `SpareId`, the ids lie in the
bitmap, only the last entry leaves ids open, and the table does not fix all the ids
there are if it does; `FixedOnce`, no two entries fix the same id. They are necessary in
kind: the bitmap is set in the order of the entries, so an id chosen early can be one
that a later entry fixes, and a device is found by its id. `FirmwareTableSound` says
that the table of `core/rsc_tab.c` meets both. The invariant relates the table to the
one that was given (`Shape`: ids of devices alone change), says where `handle_rsc_table`
stands (`Position`) and that what it has handled is in the bitmap (`HandledMarked`),
that up to the last entry only fixed ids are taken (`LastFresh`), and that a device
whose ids are all fixed ends with one of its own (`OwnId`), so that devices differ in
their ids (`DistinctIds`); it is kept at every id although the table can be given up and
begun again. `OneInv` then is about the list: a device in it or in creation has the id
of its entry, hence `remoteproc_create_virtio` finds the one it looks for, and makes one
only with the lock, when there is none. `[]ReadyWhenGiven` (`ReadyAlways`) rests on
`ReadyInv`: no entry has two devices, the only one
without all its vrings is the one in creation, and whoever is creating holds the lock
from before it is listed until its last vring is set, so that no other call can find it.

**`RpmsgEndpointProofs`** proves `Spec => []AddressesExact` (`BitmapExact`),
with the list and the threads' positions as strengthening: an endpoint is
registered exactly while its thread is between creation and unregistration, and
its address does not change meanwhile. `EndpointListExact` (`[]ListExact`) adds
`Listed`: the list has no element twice, which makes its length the number of
registered endpoints; what `metal_list_del` (`Unlink`) leaves of such a list is a
lemma on its own. `ChannelsAlwaysFollow` (`[]ChannelsFollow`) rests on
`Channelled`: the endpoint that answers for a channel is one that was announced
and not destroyed, and its name and address stay while it is. What a message
at the end of the stream does to `Settled`, and that the remote's handling of the
first one does not change it, are the lemmas.

**`RpmsgRxProofs`** proves `[]OneOwner` (`BufferHasOneOwner`) for one and for two
contexts, if the application does not release a buffer before the callback that
held it has returned (`~EarlyRelease`; section 3 shows what happens if it does).
`RxAssumption` asks for a finite set of buffers. `OneOwner` counts places;
`OwnerInv` says instead that the rings hold no buffer twice and that rings,
Linux and the firmware are pairwise disjoint and cover the buffers (`Places`),
and that the flag in the header of a buffer in work tells whether the application
keeps it (`AtWork`); the sum of the cardinalities follows. `MessagesInOrder`
(`[]InOrder`) is for the task alone, which is necessary (section 3): `RxOrder`
says that the messages delivered, the one about to be delivered and those on the
ring are consecutive, and `TxOrder` that what was echoed and what is on the
transmit ring is in order, before the message being answered.

**`RprocLoadProofs`** proves `[]SegmentsOnce` (`SegmentsLoadedOnce`),
`[]TableFound` (`TableAlwaysFound`) and, if a table that was allocated is not refused,
`[]AllReleased` (`EverythingReleased`; section 3 has the counterexample for
the other case). `RprocLoadAssumption` says that an image has at least one program
header and fewer than the segment field of the load state can count. `Base` has
the types and which positions belong to which of the two calls. `Position` relates
the number of the next segment to the state of the loader, and `Copied` says that
the segments loaded are exactly the loadable ones up to that number; that a search
for the next segment skips none is an argument by the least program header
(`SegmentStep`). `Headed` says that the section headers are read when the table
is looked for, but for the exceptions of `TableFound`, `Owned` which resources the
calls hold at each step and no longer hold at each of the labels, from which it follows
that a label gives back what is held and nothing twice.

**`HeapProofs`** proves `[]FreeListExact` (`TypeOK`, `ListExact` and `Coalesced`) and
`[]Tiled` (`Disjoint` and `NoGap`) of `Heap` from `HeapAssumption` alone: sizes are
positive and the heap is not empty. Nothing is assumed of alignment or of the requests
for these. `Disjoint` is not inductive: that a block put back meets no other rests on
the order of the list, and that the right place is found rests on the list being in
order and joined. `HInv` therefore has the list as a pair of functions (`Ordered`, which
is `ListExact` and `Coalesced` with the types), allocated blocks and blocks on their way
back away from it and from each other (`UsedOK`, `LimboOK`), the blocks of two reallocs
distinct (`CopyOK`), and every address in some block (`CoverOK`). The lemmas are about
the list alone: the loop stops (`BeforeIs`, by the least distance to the end, the only
use of well-foundedness), a block taken out leaves a list in order (`UnlinkIs`), and a
block put back, joined with its neighbours or not, leaves a list in order that covers
what it covered and the block, and nothing else (`InsertIs`). malloc is the first and
then, for the rest of a cut, the second. `NoGap` follows from `CoverOK` and
disjointness: the block at the address where another ends begins there.

`CallersOwnTheirMemory` proves `[]CallerMemory` from `AlignAssumption` too, which
is what the port fixes: the header is a multiple of the alignment, the alignment
of the size of a pointer, and a caller's alignment divides that size or is a
multiple of it. Its hypothesis `NoOverflow` (the sum in `pvPortMallocAlign` does
not wrap) is necessary, see section 3. `MInv` adds to `HInv` that every block,
free, allocated or on its way back, starts at a multiple of the alignment
(`AlignedOK`). The lemmas are about multiples, rounding up, and sums modulo
`Word` that did not shrink, which are the checks of `__internal_malloc`
(`NoWrap`, `WantedIs`), and the pointer of `pvPortMallocAlign` (`AlignedIs`).
`CountAlwaysWalked` proves the count of free bytes with a function that gives
for each address what a walk along the list has added up there
(`FreeBytesWalked`); that it is the sum over the set of free blocks, as
`FreeBytesExact` has it, is left to TLC.

**`TimersProofs`** proves `[]OnTime` (`TimersOnTime`) of `Timers` from
`TimersAssumption`, for every set of timers, periods, calls, length of the queue and lap
of the counter. The assumption that carries the proof is that the daemon is late by less
than a period leaves of a lap (`period + MaxLate < TickMod`, for the periods that
commands bring too). The counter has 64 bits here, so nothing comes near a lap; a timer
that is late by more cannot be told from one that is early, as the lists have nothing
but times modulo a lap. A command may be on its way for longer, up to a whole lap
(`MaxLate <= MaxAge < TickMod`). The ghost `rem` is the time to go in unbounded time,
and `TInv` relates the two: `ListInv` says what `rem` is for an item of either list,
with a lap more while the daemon has not noticed the wrap; `ReachInv` that an item is no
further ahead of the time read last than its period and no further behind than the
daemon is late, so that the time in the list means one tick and no other; `CmdInv` that
a start knows how long ago its time was; `PlaceInv` what the daemon relies on at each
step, in particular that the timer in hand is in no list. The lemma `WhereIs` is the
heart: `prvInsertTimerInActiveList` answers "now" only if the period is over and puts a
timer where its time will be found otherwise, for any command time, whichever of
command, expiry and present the wrap falls between. That the tick neither loses the wrap
nor shows it twice is `ClockMoves`. `KeptInv` and `SleepInv` are the remaining parts of
`OnTime`; the lists stay sorted and without duplicates by the lemmas about `Insert` and
`Without`, whose positions exist by the least number argument.

Only model-checked: liveness (`EveryEntryTaken`, `MessageReceived`,
`BufferReturns`, `StartServes`, `LoadEnds`, `LineServed`,
`DueTimersFire`), which needs fairness and `ENABLED`, out of the prover's reach;
and the invariants of `Kernel`, and `FreeBytesExact` of `Heap`. Most invariants of
`Kernel` are about operators that fold over sequences, whose value for every
input needs induction over data; `FreeBytesExact` folds over a set, for the same
reason. `OneOwner` with `EarlyRelease`, `InOrder` with two contexts,
`AllReleased` with a refused table, `NoLostKick` with words for the other
vring and `CallerMemory` with a sum that wraps do not hold.

## 5. Not modelled

Cache maintenance and memory ordering below the fences (memory is sequentially
consistent between fences); descriptor chains; the master role of
`rpmsg_virtio.c`, which the firmware does not play, except for the master side
of the ring itself; buffer sizes and payloads; `msgbox_send` to the Linux
mailbox driver; memory regions of remoteproc and the translation of addresses;
a caller of `remoteproc_load_noblock` that passes other data than it was asked
for; nested interrupts; the RPC proxy; libmetal and the
HAL beyond what the modelled code uses.

Of FreeRTOS: notifications that set bits, queue sets,
`vEventGroupDelete`, `xStreamBufferSetTriggerLevel`, timer callbacks that call
the timer API, run-time statistics, the low-water mark and the leak detector of
the heap, and the assembly that saves and restores registers. Not part of the
firmware at all, though in the tree: co-routines, the MPU wrappers, the heaps
other than `heap_4.c`, and the ARMv8-M ports. These and the headers, which are
mostly API documentation, are more than half of the lines under `src/`, so the
modelled share of the lines stays well below the modelled share of the code that
runs.

## 6. Plan

Done: `Virtqueue` with `VringFifo`, proofs and the refinement, `VqNotify`,
`RpmsgEndpoint`, `Msgbox` and `RpmsgRx` with proofs, `Startup` and `Remoteproc` with
proofs, `ElfLoader` with `RprocLoad` and proofs, `Plic` with proofs, the kernel (`Sched`
to `Kernel`), `Timers` and `Heap` with proofs. Next, in this order:

1. Proofs: `MutexesExact` for any number of tasks, with lists as functions of
   positions, as in `Timers`, in place of the folds.
2. Sending: `msgbox_send` with its timeout composed with `VqNotify`; the
   application's get, send and hold of transmit buffers in `RpmsgRx`.
3. libmetal: softirq pending bits against dispatch, ranges of interrupt
   controllers.
4. Nested interrupts in `Plic`; a removal of a device against
   `remoteproc_get_notification` step by step.
5. The cache under `Virtqueue`: which lines are written back and invalidated
   before an index is published or read.
6. RPC proxy: one request outstanding, answers after a timeout.
