------------------------------ MODULE MCKernel ------------------------------
(***************************************************************************)
(* Kernel with three tasks, a queue, two mutexes and an event group.  A    *)
(* workload says which calls every task and the interrupts make, in any    *)
(* order; each is aimed at one part of the kernel.                         *)
(***************************************************************************)
EXTENDS Kernel

CONSTANTS t1, t2, t3, q1, m1, m2, g1, ms, ss

MCTasks == {t1, t2, t3, Idle}
MCQueues == {q1, m1, m2}
MCLists == (MCQueues \X {"send", "recv"}) \cup ({g1} \X {"bits"})
MCLength == [x \in MCQueues |-> 1]
MCxLength == (ms :> 4) @@ (ss :> 3)
MCTrigger == (ms :> 1) @@ (ss :> 2)

Do(op, obj, n) == [op |-> op, obj |-> obj, n |-> n]
Menu(A, B, C) == (t1 :> A) @@ (t2 :> B) @@ (t3 :> C) @@ (Idle :> {})
Prio(A, B, C) == (t1 :> A) @@ (t2 :> B) @@ (t3 :> C) @@ (Idle :> 0)
On(A, p, menu, isr) ==
  [prio |-> p, created |-> A, menu |-> menu, isr |-> isr,
   mortal |-> { t \in MCTasks : \A i \in DOMAIN A : A[i] # t }]
Load(p, menu, isr) == On(<<t1, t2, t3, Idle>>, p, menu, isr)

WRecv == On(<<t2, t3, Idle>>, Prio(1, 2, 3),
  Menu({}, {Do("recv", q1, 3)}, {Do("recv", q1, 0), Do("peek", q1, 3)}), {Do("send", q1, 0)})
WRecvLate == On(<<t2, t3, Idle>>, Prio(1, 2, 3),
  Menu({}, {Do("recv", q1, 1)}, {Do("peek", q1, 3)}), {Do("send", q1, 0)})
WSend == Load(Prio(1, 1, 2),
  Menu({Do("send", q1, 2)}, {Do("send", q1, 3)},
       {Do("recv", q1, 0), Do("recv", q1, 2), Do("reset", q1, 0), Do("overwrite", q1, 0)}), {})
WSendIsr == On(<<t1, t2, Idle>>, Prio(1, 2, 2),
  Menu({Do("send", q1, 3)}, {Do("send", q1, 3)}, {}), {Do("recv", q1, 0)})
WSendLate == On(<<t1, Idle>>, Prio(1, 1, 1),
  Menu({Do("send", q1, 3), Do("send", q1, 1)}, {}, {}), {Do("recv", q1, 0)})
Mutex(n) == {Do("take", m1, n), Do("give", m1, 0)}
Sleep == Do("delay", Null, 1)
WMutex == Load(Prio(1, 2, 3),
  Menu(Mutex(3), Mutex(3), Mutex(3) \cup {Sleep}), {})
WMutexTimed == On(<<t1, t3, Idle>>, Prio(1, 2, 3),
  Menu(Mutex(3) \cup {Sleep}, {}, Mutex(1) \cup {Sleep}), {})
WRecursive == On(<<t1, t2, Idle>>, Prio(1, 2, 2),
  Menu({Do("rtake", m1, 3), Do("rgive", m1, 0)}, {Do("rtake", m1, 1), Do("rgive", m1, 0), Sleep}, {}), {})
Tell(t, act, n) == [op |-> "notify", obj |-> t, n |-> n, act |-> act]
WNotify == Load(Prio(2, 1, 1),
  Menu({Do("ntake", Null, 2), Do("nwait", Null, 1)},
       {Do("lock", Null, 0), Tell(t1, "overwrite", 1)}, {Tell(t1, "no overwrite", 1)}),
  {Tell(t1, "increment", 0)})
Bits(op, B, clear, all, n) ==
  [op |-> op, obj |-> g1, n |-> n, bits |-> B, clear |-> clear, all |-> all]
WBits == Load(Prio(1, 2, 2),
  Menu({Bits("sbits", {1}, FALSE, FALSE, 0), Bits("sbits", {1, 2}, FALSE, FALSE, 0), Bits("cbits", {1, 2}, FALSE, FALSE, 0)},
       {Bits("wbits", {1, 2}, TRUE, TRUE, 2)},
       {Bits("wbits", {1, 2}, FALSE, FALSE, 3), Bits("wbits", {1}, TRUE, FALSE, 0), Bits("sbits", {2}, FALSE, FALSE, 0)}), {})
Meet(B, n) == [op |-> "sync", obj |-> g1, n |-> n, bits |-> B, rest |-> {1, 2, 3}]
WSync == Load(Prio(1, 2, 2), Menu({Meet({1}, 2)}, {Meet({2}, 3)}, {Meet({3}, 0), Meet({3}, 3)}), {})
WSlice == Load(Prio(0, 0, 1),
  Menu({Sleep}, {Do("lock", Null, 0)}, {Do("delay", Null, 2)}), {})
WPeriod == On(<<t1, t2, Idle>>, Prio(1, 1, 1),
  Menu({Do("until", Null, 2)}, {Do("until", Null, 1), Do("lock", Null, 0)}, {}), {})
WLife == On(<<t1, t2, Idle>>, Prio(1, 2, 3),
  Menu({Do("resumetask", t2, 0), Do("prio", t2, 1), Do("prio", t2, 3), Do("suspend", t2, 0)},
       {Sleep, Do("suspend", t2, 0)}, {}), {Do("resume", t2, 0)})
WDelete == [Load(Prio(1, 2, 2),
  Menu({Do("create", t2, 2), Sleep},
       {Do("recv", q1, 1)},
       {Do("delete", t3, 0), Do("delete", t2, 0)}), {}) EXCEPT !.mortal = {t2, t3}]
WTwo == Load(Prio(1, 2, 3),
  Menu({Do("take", m1, 3)},
       {Do("take", m1, 3), Do("take", m2, 3), Do("give", m1, 0), Do("give", m2, 0), Sleep},
       {Do("take", m2, 3), Sleep}), {})
WNested == Load(Prio(1, 2, 3),
  Menu({Do("take", m1, 3), Do("give", m1, 0)},
       {Do("take", m2, 3), Do("take", m1, 1), Do("give", m1, 0), Do("give", m2, 0), Sleep},
       {Do("take", m2, 3), Sleep}), {})

Put(s, n, len) == [op |-> "ssend", obj |-> s, n |-> n, len |-> len, val |-> 5 + len]
Get(s, n, len) == [op |-> "srecv", obj |-> s, n |-> n, len |-> len]
WMessageIsr == On(<<t1, Idle>>, Prio(1, 1, 1), Menu({Get(ms, 1, 2)}, {}, {}),
  {Put(ms, 0, 1), Put(ms, 0, 2)})
WMessage == On(<<t1, t2, Idle>>, Prio(1, 2, 2),
  Menu({Put(ms, 0, 1), Put(ms, 1, 3)}, {Get(ms, 3, 2), Sleep}, {}), {})
WMessageLate == On(<<t1, Idle>>, Prio(1, 1, 1), Menu({Put(ms, 1, 1)}, {}, {}), {Get(ms, 0, 2)})
WMessageLook == On(<<t1, t2, Idle>>, Prio(1, 2, 2),
  Menu({Put(ms, 0, 1), Do("sreset", ms, 0)},
       {Get(ms, 1, 0), Do("snext", ms, 0), Sleep}, {}), {})
WMessageBack == On(<<t1, t2, Idle>>, Prio(2, 1, 1),
  Menu({Put(ms, 3, 2)}, {Get(ms, 3, 2)}, {}), {})
WStream == On(<<t1, t2, Idle>>, Prio(1, 2, 2),
  Menu({Put(ss, 3, 1)}, {Get(ss, 1, 2), Get(ss, 0, 1)}, {}), {})
WStreamIsr == On(<<t1, Idle>>, Prio(1, 1, 1),
  Menu({Put(ss, 3, 2)}, {}, {}), {Get(ss, 0, 1)})
WStreamFill == On(<<t1, Idle>>, Prio(1, 1, 1),
  Menu({Get(ss, 1, 2)}, {}, {}), {Put(ss, 0, 1)})

\* A reader whose time runs out just before the writer notifies it.
MCStream == {WStream}

\* A look at a length, or a buffer that is too small, while an interrupt writes.
MCPeek == {On(<<t1, Idle>>, Prio(1, 1, 1), Menu({Do("snext", ms, 0), Get(ms, 1, 1)}, {}, {}),
  {Put(ms, 0, 1), Put(ms, 0, 2)})}

\* A look at the next length while the writer stands between length and data.
MCLook == {WMessageLook}

MCWorkloads == {WRecv, WRecvLate, WSend, WSendIsr, WSendLate, WMutex, WMutexTimed, WRecursive,
                WNotify, WBits, WSync, WSlice, WPeriod, WLife, WDelete,
                WMessageIsr, WMessage, WMessageLate, WMessageLook, WMessageBack,
                WStream, WStreamIsr, WStreamFill}

\* Two mutexes at a time: outside of what HighestRuns and ListsExact hold for.
MCTwo == {WTwo}
MCNested == {WNested}
=============================================================================
