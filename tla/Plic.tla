-------------------------------- MODULE Plic --------------------------------
(***************************************************************************)
(* External interrupts of the C906: the table and the calls of             *)
(* arch/riscv/irq.c, the register accesses of hal/sources/plic.c, and the  *)
(* PLIC itself, which is external.                                         *)
(*                                                                         *)
(* A step of the task is one access to a register or to a word of memory   *)
(* that the interrupt handler also uses.  The handler is not preempted:    *)
(* it takes a step per interrupt it claims, calls and completes, while     *)
(* devices go on.  All lines share one word of enable bits and one of      *)
(* plic_irq_rec.                                                           *)
(***************************************************************************)
EXTENDS Naturals, FiniteSets

CONSTANTS
  Lines,         \* hwirq of the interrupt lines, all below NR_IRQS
  Uses,          \* how the calls are used: see Use
  MaxOps,        \* bound on the calls of the task
  MaxRaises      \* bound on the times devices assert a line

\* A use of the calls of irq.c: what a device's handler may call, and the
\* lines that are enabled and disabled without irq_request.
Use == [calls : SUBSET {"none", "disable own", "disable other", "enable other"},
        unrequested : SUBSET Lines]

ASSUME PlicAssumption ==
  /\ Lines \subseteq Nat \ {0} /\ IsFiniteSet(Lines)
  /\ Uses \subseteq Use
  /\ MaxOps \in Nat /\ MaxRaises \in Nat

VARIABLES
  use,        \* how this application uses the calls
  line,       \* lines a device asserts
  pending,    \* PLIC: lines that wait to be claimed
  claimed,    \* PLIC: lines claimed and not completed
  enable,     \* PLIC: the word of enable bits
  priority,   \* PLIC: lines whose priority is 1, above the threshold 0
  plic_irq_rec,
  handler,    \* lines with irq_table[].handler set
  param,      \* lines with the param that goes with it
  mie,        \* MIE_MEIE
  task,       \* the task's call: op, line and the access it is about to make
  word,       \* the word the task has read and is about to write back
  isr,        \* "off", or where plic_handle_irq is
  cur,        \* the line it claimed
  on,         \* history: lines that are to be delivered
  ops, raises

device == <<line, raises>>
plic   == <<pending, claimed, enable, priority>>
irqc   == <<plic_irq_rec, handler, param>>
taskv  == <<task, word, ops>>
isrv   == <<isr, cur>>
plicVars == <<use, device, plic, irqc, mie, taskv, isrv, on>>

Idle == [op |-> "none", irq |-> 0, at |-> "done"]

Ops == {"request", "free", "enable", "disable"}

\* Mutant: irq_free clears the entry first.
AfterClearFirst(op, step) ==
  CASE step = "call" -> (CASE op = "request" -> "handler" [] op = "free" -> "clear"
                           [] OTHER -> "priority")
    [] step = "handler"  -> "param"
    [] step = "param"    -> "mie"
    [] step = "mie"      -> "priority"
    [] step = "clear"    -> "priority"
    [] step = "priority" -> "load"
    [] step = "load"     -> "store"
    [] step = "store"    -> "recload"
    [] step = "recload"  -> "recstore"
    [] step = "recstore" -> "done"

\* The access that follows a step.  irq_request stores the entry before it
\* lets the PLIC deliver the line, irq_free clears it after; between are
\* plic_irq_toggle and record_irq_enable or record_irq_disable.
After(op, step) ==
  CASE step = "call"     -> IF op = "request" THEN "handler" ELSE "priority"
    [] step = "handler"  -> "param"
    [] step = "param"    -> "mie"
    [] step = "mie"      -> "priority"
    [] step = "priority" -> "load"
    [] step = "load"     -> "store"
    [] step = "store"    -> "recload"
    [] step = "recload"  -> "recstore"
    [] step = "recstore" -> IF op = "free" THEN "clear" ELSE "done"
    [] step = "clear"    -> "done"

\* After plic_init, which disables every line; irq_table and plic_irq_rec are
\* zero.
PlicInit ==
  /\ use \in Uses
  /\ line = {} /\ raises = 0
  /\ pending = {} /\ claimed = {} /\ enable = {} /\ priority = {}
  /\ plic_irq_rec = {} /\ handler = {} /\ param = {}
  /\ mie = FALSE
  /\ task = Idle /\ word = {} /\ ops = 0
  /\ isr = "off" /\ cur = 0
  /\ on = {}

\* plic_toggle, record_irq_enable, record_irq_disable.
SetBit(w, i, up) == IF up THEN w \union {i} ELSE w \ {i}

-----------------------------------------------------------------------------
(* Devices and the PLIC, external.  A line that is asserted becomes pending *)
(* unless it is pending or claimed already.                                 *)

Deliverable == pending \intersect enable \intersect priority

Raise(i) ==
  /\ i \notin line /\ raises < MaxRaises
  /\ line' = line \union {i}
  /\ raises' = raises + 1
  /\ UNCHANGED <<use, plic, irqc, mie, taskv, isrv, on>>

Gateway(i) ==
  /\ i \in line \ (pending \union claimed)
  /\ pending' = pending \union {i}
  /\ UNCHANGED <<use, device, claimed, enable, priority, irqc, mie, taskv, isrv, on>>

-----------------------------------------------------------------------------
(* The task.  It runs while the handler does not.                           *)

\* irq_request, irq_free, irq_enable, irq_disable.  A line is requested when
\* it is free; irq_enable and irq_disable do not ask whether it is requested.
Call(op, i) ==
  /\ isr = "off" /\ task = Idle /\ ops < MaxOps
  /\ \/ op = "request" /\ i \notin handler
     \/ op = "free" /\ i \in handler
     \/ op \in {"enable", "disable"} /\ i \in handler \union use.unrequested
  /\ task' = [op |-> op, irq |-> i, at |-> After(op, "call")]
  /\ ops' = ops + 1
  /\ UNCHANGED <<use, device, plic, irqc, mie, word, isrv, on>>

Up == task.op \in {"request", "enable"}

\* The call makes the access at which it stands, and goes on after last.
Does(step, last) ==
  /\ isr = "off" /\ task.at = step
  /\ task' = LET next == After(task.op, last)
             IN IF next = "done" THEN Idle ELSE [task EXCEPT !.at = next]
  /\ UNCHANGED <<use, device, pending, claimed, isrv, ops>>

At(step) == Does(step, step)

StoreHandler ==
  /\ At("handler")
  /\ handler' = handler \union {task.irq}
  /\ UNCHANGED <<enable, priority, plic_irq_rec, param, mie, word, on>>

StoreParam ==
  /\ At("param")
  /\ param' = param \union {task.irq}
  /\ UNCHANGED <<enable, priority, plic_irq_rec, handler, mie, word, on>>

AllowExternal ==
  /\ At("mie")
  /\ mie' = TRUE
  /\ UNCHANGED <<enable, priority, irqc, word, on>>

\* Mutant: the priority of a line that is disabled stays.
WritePriorityUpOnly ==
  /\ At("priority")
  /\ priority' = priority \union {task.irq}
  /\ on' = IF Up THEN on \union {task.irq} ELSE on
  /\ UNCHANGED <<enable, irqc, mie, word>>

\* A line is on from the moment it may be delivered.
WritePriority ==
  /\ At("priority")
  /\ priority' = SetBit(priority, task.irq, Up)
  /\ on' = IF Up THEN on \union {task.irq} ELSE on
  /\ UNCHANGED <<enable, irqc, mie, word>>

ReadEnable ==
  /\ At("load")
  /\ word' = enable
  /\ UNCHANGED <<enable, priority, irqc, mie, on>>

\* A line is off once plic_irq_disable has returned.
WriteEnable ==
  /\ At("store")
  /\ enable' = SetBit(word, task.irq, Up)
  /\ on' = IF Up THEN on ELSE on \ {task.irq}
  /\ UNCHANGED <<priority, irqc, mie, word>>

\* A word that is as it should be is not written.
ReadRecord ==
  /\ Does("recload", IF (task.irq \in plic_irq_rec) = Up THEN "recstore" ELSE "recload")
  /\ word' = plic_irq_rec
  /\ UNCHANGED <<enable, priority, irqc, mie, on>>

WriteRecord ==
  /\ At("recstore")
  /\ plic_irq_rec' = SetBit(word, task.irq, Up)
  /\ UNCHANGED <<enable, priority, handler, param, mie, word, on>>

ClearEntry ==
  /\ At("clear")
  /\ handler' = handler \ {task.irq}
  /\ param' = param \ {task.irq}
  /\ UNCHANGED <<enable, priority, plic_irq_rec, mie, word, on>>

TaskStep == \/ StoreHandler \/ StoreParam \/ AllowExternal
            \/ WritePriority \/ ReadEnable \/ WriteEnable
            \/ ReadRecord \/ WriteRecord \/ ClearEntry

-----------------------------------------------------------------------------
(* The interrupt handler.                                                   *)

\* C906_Default_IRQHandler, plic_handle_irq up to its loop.
Interrupt ==
  /\ isr = "off" /\ mie /\ Deliverable # {}
  /\ isr' = "claim"
  /\ mie' = FALSE
  /\ UNCHANGED <<use, device, plic, irqc, taskv, cur, on>>

\* readl(claim): of lines of one priority the PLIC gives the lowest.
Claim ==
  /\ isr = "claim"
  /\ cur' \in Deliverable /\ \A i \in Deliverable : cur' <= i
  /\ pending' = pending \ {cur'}
  /\ claimed' = claimed \union {cur'}
  /\ isr' = "handle"
  /\ UNCHANGED <<use, device, enable, priority, irqc, mie, taskv, on>>

\* Mutant: MIE_MEIE is not set again.
ClaimNoneMasked ==
  /\ isr = "claim" /\ Deliverable = {}
  /\ isr' = "off" /\ cur' = 0
  /\ UNCHANGED <<use, device, plic, irqc, mie, taskv, on>>

\* readl(claim) gives 0.
ClaimNone ==
  /\ isr = "claim" /\ Deliverable = {}
  /\ mie' = TRUE
  /\ isr' = "off" /\ cur' = 0
  /\ UNCHANGED <<use, device, plic, irqc, taskv, on>>

\* irq_enable or irq_disable by a device's handler: nothing interrupts it.
Switch(i, up) ==
  /\ priority' = SetBit(priority, i, up)
  /\ enable' = SetBit(enable, i, up)
  /\ plic_irq_rec' = SetBit(plic_irq_rec, i, up)
  /\ on' = SetBit(on, i, up)

HandlerCall ==
  \E call \in use.calls :
    \/ call = "none" /\ UNCHANGED <<enable, priority, plic_irq_rec, on>>
    \/ call = "disable own" /\ Switch(cur, FALSE)
    \/ call = "disable other" /\ \E i \in handler \ {cur} : Switch(i, FALSE)
    \/ call = "enable other" /\ \E i \in handler \ {cur} : Switch(i, TRUE)

\* generic_handle_irq: the handler serves its device, which then releases the
\* line.
Handle ==
  /\ isr = "handle" /\ cur \in handler
  /\ line' = line \ {cur}
  /\ HandlerCall
  /\ isr' = "eoi"
  /\ UNCHANGED <<use, raises, pending, claimed, handler, param, mie, taskv, cur>>

\* generic_handle_irq without an entry.
Unhandled ==
  /\ isr = "handle" /\ cur \notin handler
  /\ isr' = "eoi"
  /\ UNCHANGED <<use, device, plic, irqc, mie, taskv, cur, on>>

\* plic_irq_eoi.  The PLIC ignores the completion of a line that is not
\* enabled.
Eoi ==
  /\ isr = "eoi"
  /\ claimed' = claimed \ ({cur} \intersect enable)
  /\ isr' = "claim"
  /\ UNCHANGED <<use, device, pending, enable, priority, irqc, mie, taskv, cur, on>>

Isr == Interrupt \/ Claim \/ ClaimNone \/ Handle \/ Unhandled \/ Eoi

-----------------------------------------------------------------------------
PlicNext ==
  \/ \E i \in Lines : Raise(i) \/ Gateway(i)
  \/ \E op \in Ops, i \in Lines : Call(op, i)
  \/ TaskStep
  \/ Isr

\* The processor goes on with what it does and takes interrupts; the PLIC
\* latches asserted lines.
PlicFairness ==
  /\ WF_plicVars(TaskStep) /\ WF_plicVars(Isr)
  /\ \A i \in Lines : WF_plicVars(Gateway(i))

PlicSpec == PlicInit /\ [][PlicNext]_plicVars /\ PlicFairness

-----------------------------------------------------------------------------
(* Properties                                                               *)

\* Every variable has its type: no write of a register or of irq_table leaves
\* the lines there are.
PlicTypeOK ==
  /\ use \in Uses
  /\ line \subseteq Lines /\ pending \subseteq Lines /\ claimed \subseteq Lines
  /\ enable \subseteq Lines /\ priority \subseteq Lines /\ plic_irq_rec \subseteq Lines
  /\ handler \subseteq Lines /\ param \subseteq Lines
  /\ on \subseteq Lines /\ word \subseteq Lines
  /\ mie \in BOOLEAN
  /\ isr \in {"off", "claim", "handle", "eoi"}
  /\ cur \in Lines \union {0}
  /\ task.op \in Ops \union {"none"} /\ task.irq \in Lines \union {0}

\* Only lines that are requested are enabled, and handlers do no more than
\* disable other lines.
Disciplined ==
  use.calls \subseteq {"none", "disable other"} /\ use.unrequested = {}

\* An interrupt finds its entry of irq_table complete, handler and parameter:
\* neither irq_request nor irq_free, interrupted at any access, lets
\* generic_handle_irq see half an entry or none.
EntryWhole == Disciplined /\ isr = "handle" => cur \in handler \intersect param

\* A line that irq_disable or irq_free has switched off, in the task or in a
\* handler, is not delivered until it is switched on, whatever handlers call:
\* plic_toggle's write of a stale word may restore its enable bit, but not its
\* priority.
OffStaysOff == Deliverable \subseteq on

\* A device that asserts a line that is on is served, unless the line is
\* switched off: the loop of plic_handle_irq, its completions and MIE_MEIE
\* lose no interrupt.  Not so for other uses: plic_toggle's write of a stale
\* word takes back what a handler has enabled, and the PLIC ignores the
\* completion of a line that its handler has disabled.
LineServed ==
  \A i \in Lines : (Disciplined /\ i \in line \intersect on)
                     ~> (i \notin line \/ i \notin on)
=============================================================================
