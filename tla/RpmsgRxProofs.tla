--------------------------- MODULE RpmsgRxProofs ---------------------------
(***************************************************************************)
(* Proofs about RpmsgRx, for any number of buffers, of transmit buffers,   *)
(* of retries and of messages: every receive buffer has one owner, also    *)
(* when the interrupt handler runs the callback in the middle of the       *)
(* task's, and messages stay in order when one context receives them.      *)
(***************************************************************************)
EXTENDS RpmsgRx, FiniteSetTheorems, FunctionTheorems, SequenceTheorems, TLAPS

-----------------------------------------------------------------------------
(* Queues without repetition.                                              *)

Once(s) == \A i, j \in DOMAIN s : s[i] = s[j] => i = j

\* A buffer enters a ring that does not hold it.
LEMMA AppendOnce ==
  ASSUME NEW S, NEW s \in Seq(S), NEW x \in S
  PROVE  /\ Append(s, x) \in Seq(S)
         /\ Len(Append(s, x)) = Len(s) + 1
         /\ InSeq(Append(s, x)) = InSeq(s) \cup {x}
         /\ Once(s) /\ x \notin InSeq(s) => Once(Append(s, x))
<1> DEFINE t == Append(s, x)
           n == Len(s)
<1>1. /\ t \in Seq(S) /\ Len(t) = n + 1 /\ n \in Nat
      /\ DOMAIN s = 1..n /\ DOMAIN t = 1..(n + 1)
      /\ t[n + 1] = x /\ \A i \in 1..n : t[i] = s[i]
  OBVIOUS
<1>2. /\ \A i \in 1..(n + 1) : i \in 1..n \/ i = n + 1
      /\ \A i \in 1..n : i \in 1..(n + 1)
      /\ n + 1 \in 1..(n + 1)
  BY <1>1
<1> HIDE DEF t, n
<1>3. InSeq(t) = InSeq(s) \cup {x}
  BY <1>1, <1>2 DEF InSeq
<1>4. Once(s) /\ x \notin InSeq(s) => Once(t)
  BY <1>1, <1>2 DEF InSeq, Once
<1> QED
  BY <1>1, <1>3, <1>4 DEF t, n

\* The head of a ring leaves it.
LEMMA TailOnce ==
  ASSUME NEW S, NEW s \in Seq(S), s # <<>>
  PROVE  /\ Tail(s) \in Seq(S) /\ Head(s) \in S
         /\ Len(Tail(s)) = Len(s) - 1 /\ Len(s) >= 1
         /\ Head(s) \in InSeq(s)
         /\ Once(s) => /\ InSeq(Tail(s)) = InSeq(s) \ {Head(s)}
                       /\ Once(Tail(s))
<1> DEFINE t == Tail(s)
           h == Head(s)
           n == Len(s)
<1>1. /\ t \in Seq(S) /\ h \in S /\ n \in Nat /\ n >= 1 /\ Len(t) = n - 1
      /\ DOMAIN s = 1..n /\ DOMAIN t = 1..(n - 1)
      /\ s[1] = h /\ \A i \in 1..(n - 1) : t[i] = s[i + 1]
  OBVIOUS
<1>2. /\ 1 \in 1..n
      /\ \A i \in 1..(n - 1) : i + 1 \in 1..n /\ i + 1 # 1
      /\ \A i \in 1..n : i = 1 \/ (i - 1 \in 1..(n - 1) /\ (i - 1) + 1 = i)
      /\ \A i, j \in 1..(n - 1) : i + 1 = j + 1 => i = j
  BY <1>1
<1> HIDE DEF t, h, n
<1>3. h \in InSeq(s)
  BY <1>1, <1>2 DEF InSeq
<1>4. ASSUME Once(s) PROVE InSeq(t) = InSeq(s) \ {h}
  <2>1. \A i \in 1..(n - 1) : t[i] \in InSeq(s) /\ t[i] # h
    <3> SUFFICES ASSUME NEW i \in 1..(n - 1) PROVE t[i] \in InSeq(s) /\ t[i] # h
      OBVIOUS
    <3>1. i + 1 \in DOMAIN s /\ 1 \in DOMAIN s /\ i + 1 # 1
      BY <1>1, <1>2
    <3>2. s[i + 1] # s[1]
      BY <1>4, <3>1, Zenon DEF Once
    <3> QED
      BY <1>1, <3>1, <3>2 DEF InSeq
  <2>2. \A i \in 1..n : s[i] # h => s[i] \in InSeq(t)
    <3> SUFFICES ASSUME NEW i \in 1..n, s[i] # h PROVE s[i] \in InSeq(t)
      OBVIOUS
    <3>1. i - 1 \in 1..(n - 1) /\ (i - 1) + 1 = i
      BY <1>1, <1>2
    <3>2. t[i - 1] = s[i]
      BY <1>1, <3>1
    <3> QED
      BY <1>1, <3>1, <3>2 DEF InSeq
  <2>3. InSeq(t) \subseteq InSeq(s) \ {h}
    BY <1>1, <2>1 DEF InSeq
  <2>4. InSeq(s) \ {h} \subseteq InSeq(t)
    BY <1>1, <2>2 DEF InSeq
  <2> QED
    BY <2>3, <2>4
<1>5. ASSUME Once(s) PROVE Once(t)
  <2> SUFFICES ASSUME NEW i \in 1..(n - 1), NEW j \in 1..(n - 1), t[i] = t[j]
               PROVE  i = j
    BY <1>1 DEF Once
  <2>1. i + 1 \in DOMAIN s /\ j + 1 \in DOMAIN s /\ s[i + 1] = s[j + 1]
    BY <1>1, <1>2
  <2>2. i + 1 = j + 1
    BY <1>5, <2>1, Zenon DEF Once
  <2> QED
    BY <1>2, <2>2
<1> QED
  BY <1>1, <1>3, <1>4, <1>5 DEF t, h, n

\* A queue without repetition is as long as its set of members is large.
LEMMA OnceCount ==
  ASSUME NEW S, NEW s \in Seq(S), Once(s)
  PROVE  IsFiniteSet(InSeq(s)) /\ Cardinality(InSeq(s)) = Len(s)
<1>1. Len(s) \in Nat /\ DOMAIN s = 1..Len(s)
  OBVIOUS
<1>2. s \in [1..Len(s) -> InSeq(s)]
  BY <1>1 DEF InSeq
<1>3. \A x \in InSeq(s) : \E i \in 1..Len(s) : s[i] = x
  BY <1>1 DEF InSeq
<1>4. s \in Bijection(1..Len(s), InSeq(s))
  <2>1. s \in Injection(1..Len(s), InSeq(s))
    BY <1>1, <1>2, Zenon DEF Injection, IsInjective, Once
  <2>2. s \in Surjection(1..Len(s), InSeq(s))
    BY <1>2, <1>3, Zenon DEF Surjection
  <2> QED
    BY <2>1, <2>2 DEF Bijection
<1>5. ExistsBijection(1..Len(s), InSeq(s))
  BY <1>4, Zenon DEF ExistsBijection
<1>6. Len(s) \in Int /\ 1 \in Int
  BY <1>1
<1>7. /\ IsFiniteSet(1..Len(s))
      /\ Cardinality(1..Len(s)) = IF 1 > Len(s) THEN 0 ELSE Len(s) - 1 + 1
  BY <1>6, FS_Interval, Zenon
<1>8. Cardinality(1..Len(s)) = Len(s)
  BY <1>1, <1>7
<1> QED
  BY <1>5, <1>7, <1>8, FS_Bijection, Zenon

-----------------------------------------------------------------------------
(* Types, and the buffers of the transmit ring.                            *)

States == {"idle", "wantGet", "get", "wantFind", "find", "cb", "wantTx", "tx",
           "wantSend", "send", "wantRet", "ret"}

\* Where a context has no receive buffer.
Empty == {"idle", "wantGet", "get"}

\* The contexts that have a transmit buffer and have not sent it.
Sending == {c \in Contexts : pc[c] \in {"wantSend", "send"}}

RingType ==
  /\ avail \in Seq(Bufs) /\ used \in Seq(Bufs) /\ linux \subseteq Bufs
  /\ msg \in [Bufs -> 0..MaxMsgs] /\ posted \in 0..MaxMsgs

HeldType == held \in [Bufs -> BOOLEAN]

CtxType ==
  /\ pc \in [Contexts -> States]
  /\ cur \in [Contexts -> Bufs \cup {NULL}]
  /\ \A c \in Contexts : cur[c] = NULL <=> pc[c] \in Empty
  /\ lock \in Contexts \cup {"app", NULL}

KeepType == kept \subseteq Bufs /\ app \in Bufs \cup {NULL}

\* Transmit buffers are counted exactly enough for txFree to stay in range.
TxType ==
  /\ txFree \in Nat
  /\ delivered \in Seq(0..MaxMsgs) /\ txOut \in Seq(0..MaxMsgs)
  /\ echoed \in Seq(0..MaxMsgs)
  /\ txFree + Len(txOut) + Cardinality(Sending) <= TxBufs

TypeInv == RingType /\ HeldType /\ CtxType /\ KeepType /\ TxType

\* The program counters of TypeOK are States.
LEMMA StatesAre ==
  /\ DOMAIN Section = {"get", "find", "tx", "send", "ret"}
  /\ \A s \in DOMAIN Section :
       Section[s] \in {"wantGet", "wantFind", "wantTx", "wantSend", "wantRet"}
  /\ {"idle", "cb"} \cup DOMAIN Section \cup {Section[s] : s \in DOMAIN Section}
       = States
  /\ \A s \in DOMAIN Section :
       /\ s \in Empty <=> Section[s] \in Empty
       /\ s \in {"wantSend", "send"} <=> Section[s] \in {"wantSend", "send"}
BY DEF Section, States, Empty

\* There are at most two contexts.
LEMMA ContextsFinite == IsFiniteSet(Contexts)
<1>1. IsFiniteSet({"task", "isr"})
  <2>1. IsFiniteSet({"task"})
    BY FS_Singleton
  <2>2. IsFiniteSet({"task"} \cup {"isr"})
    BY <2>1, FS_AddElement
  <2>3. {"task"} \cup {"isr"} = {"task", "isr"}
    OBVIOUS
  <2> QED
    BY <2>2, <2>3
<1> QED
  BY <1>1, FS_Subset, RxAssumption

\* How the number of contexts that are sending changes.
LEMMA SendingStep ==
  ASSUME TypeInv, NEW c \in Contexts, NEW s \in States, pc' = [pc EXCEPT ![c] = s]
  PROVE  /\ Cardinality(Sending) \in Nat /\ Cardinality(Sending') \in Nat
         /\ (pc[c] \in {"wantSend", "send"} <=> s \in {"wantSend", "send"})
              => Cardinality(Sending') = Cardinality(Sending)
         /\ pc[c] \notin {"wantSend", "send"} /\ s \in {"wantSend", "send"}
              => Cardinality(Sending') = Cardinality(Sending) + 1
         /\ pc[c] \in {"wantSend", "send"} /\ s \notin {"wantSend", "send"}
              => Cardinality(Sending') = Cardinality(Sending) - 1
<1>1. IsFiniteSet(Sending) /\ IsFiniteSet(Sending')
  BY ContextsFinite, FS_Subset DEF Sending
<1>2. /\ pc \in [Contexts -> States] /\ pc'[c] = s
      /\ \A d \in Contexts \ {c} : pc'[d] = pc[d]
  BY DEF TypeInv, CtxType
<1>3. CASE pc[c] \in {"wantSend", "send"} <=> s \in {"wantSend", "send"}
  <2>1. Sending' = Sending
    BY <1>2, <1>3 DEF Sending
  <2> QED
    BY <1>1, <1>3, <2>1, FS_CardinalityType
<1>4. CASE pc[c] \notin {"wantSend", "send"} /\ s \in {"wantSend", "send"}
  <2>1. Sending' = Sending \cup {c} /\ c \notin Sending
    BY <1>2, <1>4 DEF Sending
  <2> QED
    BY <1>1, <1>4, <2>1, FS_CardinalityType, FS_AddElement
<1>5. CASE pc[c] \in {"wantSend", "send"} /\ s \notin {"wantSend", "send"}
  <2>1. Sending' = Sending \ {c} /\ c \in Sending
    BY <1>2, <1>5 DEF Sending
  <2> QED
    BY <1>1, <1>5, <2>1, FS_CardinalityType, FS_RemoveElement
<1> QED
  BY <1>3, <1>4, <1>5

\* TypeInv has the type of every variable.
LEMMA TypeInvTypes ==
  ASSUME TypeInv
  PROVE  TypeOK
<1>1. txFree \in 0..TxBufs
  <2>1. Len(txOut) \in Nat /\ txFree \in Nat /\ TxBufs \in Nat
    BY RxAssumption DEF TypeInv, TxType
  <2>2. Cardinality(Sending) \in Nat
    BY ContextsFinite, FS_Subset, FS_CardinalityType DEF Sending
  <2> QED
    BY <2>1, <2>2 DEF TypeInv, TxType
<1>2. \A c \in Contexts :
        pc[c] \in {"idle", "cb"} \cup DOMAIN Section
                   \cup {Section[s] : s \in DOMAIN Section}
  BY StatesAre DEF TypeInv, CtxType
<1> QED
  BY <1>1, <1>2 DEF TypeOK, TypeInv, RingType, HeldType, CtxType, KeepType

\* Moving one context keeps its types if its buffer and its state agree.
LEMMA CtxStep ==
  ASSUME TypeInv, NEW c \in Contexts, NEW s \in States, NEW b \in Bufs \cup {NULL},
         b = NULL <=> s \in Empty, lock' \in Contexts \cup {"app", NULL},
         pc' = [pc EXCEPT ![c] = s], cur' = [cur EXCEPT ![c] = b]
  PROVE  CtxType'
BY DEF TypeInv, CtxType

\* Likewise when the context keeps its buffer.
LEMMA CtxMove ==
  ASSUME TypeInv, NEW c \in Contexts, NEW s \in States,
         pc[c] \in Empty <=> s \in Empty, lock' \in Contexts \cup {"app", NULL},
         pc' = [pc EXCEPT ![c] = s], cur' = cur
  PROVE  CtxType'
BY DEF TypeInv, CtxType

\* A step that leaves the transmit ring and the deliveries alone, and nobody
\* begins or ends sending.
LEMMA TxSame ==
  ASSUME TypeInv, NEW c \in Contexts, NEW s \in States,
         pc[c] \in {"wantSend", "send"} <=> s \in {"wantSend", "send"},
         pc' = [pc EXCEPT ![c] = s], UNCHANGED <<tx, delivered>>
  PROVE  TxType'
BY SendingStep DEF TypeInv, TxType, tx

\* What rpmsg_virtio_get_rx_buffer may do.
LEMMA NextBufferStep ==
  ASSUME TypeInv, NEW c \in Contexts, NextBuffer(c), lock' = NULL
  PROVE  /\ CtxType' /\ avail' \in Seq(Bufs)
         /\ \E s \in {"idle", "wantFind"} : pc' = [pc EXCEPT ![c] = s]
         /\ cur'[c] \in Bufs \cup {NULL}
         /\ \A d \in Contexts \ {c} : cur'[d] = cur[d]
<1>1. cur \in [Contexts -> Bufs \cup {NULL}] /\ avail \in Seq(Bufs)
  BY DEF TypeInv, CtxType, RingType
<1>2. CASE avail = <<>>
  <2>1. /\ cur' = [cur EXCEPT ![c] = NULL] /\ pc' = [pc EXCEPT ![c] = "idle"]
        /\ avail' = avail
    BY <1>2 DEF NextBuffer
  <2>2. CtxType'
    BY <2>1, CtxStep DEF States, Empty
  <2> QED
    BY <1>1, <2>1, <2>2
<1>3. CASE avail # <<>>
  <2>1. /\ cur' = [cur EXCEPT ![c] = Head(avail)] /\ pc' = [pc EXCEPT ![c] = "wantFind"]
        /\ avail' = Tail(avail)
    BY <1>3 DEF NextBuffer
  <2>2. Head(avail) \in Bufs /\ Tail(avail) \in Seq(Bufs)
    BY <1>1, <1>3
  <2>3. Head(avail) # NULL
    BY <2>2, RxAssumption
  <2>4. CtxType'
    BY <2>1, <2>2, <2>3, CtxStep DEF States, Empty
  <2> QED
    BY <1>1, <2>1, <2>2, <2>4
<1> QED
  BY <1>2, <1>3

\* Linux' steps keep the types.
LEMMA LinuxTypes ==
  ASSUME TypeInv, (\E b \in Bufs : LinuxPost(b)) \/ LinuxReap \/ LinuxReadEcho
  PROVE  TypeInv'
<1>1. ASSUME NEW b \in Bufs, LinuxPost(b) PROVE TypeInv'
  <2>1. /\ posted < MaxMsgs /\ posted' = posted + 1
        /\ msg' = [msg EXCEPT ![b] = posted'] /\ linux' = linux \ {b}
        /\ avail' = Append(avail, b) /\ used' = used
        /\ held' = [held EXCEPT ![b] = FALSE]
        /\ UNCHANGED <<tx, lock, pc, cur, keep, delivered>>
    BY <1>1 DEF LinuxPost
  <2>2. posted' \in 0..MaxMsgs
    BY <2>1, RxAssumption DEF TypeInv, RingType
  <2>3. avail' \in Seq(Bufs)
    BY <2>1 DEF TypeInv, RingType
  <2>4. RingType'
    BY <2>1, <2>2, <2>3 DEF TypeInv, RingType
  <2>5. HeldType'
    BY <2>1 DEF TypeInv, HeldType
  <2> QED
    BY <2>1, <2>4, <2>5
    DEF TypeInv, CtxType, KeepType, TxType, Sending, tx, keep
<1>2. CASE LinuxReap
  <2>1. /\ used # <<>> /\ linux' = linux \cup {Head(used)} /\ used' = Tail(used)
        /\ UNCHANGED <<avail, msg, held, tx, posted, lock, pc, cur, keep, delivered>>
    BY <1>2 DEF LinuxReap
  <2>2. Head(used) \in Bufs /\ Tail(used) \in Seq(Bufs)
    BY <2>1 DEF TypeInv, RingType
  <2>3. RingType'
    BY <2>1, <2>2 DEF TypeInv, RingType
  <2> QED
    BY <2>1, <2>3
    DEF TypeInv, HeldType, CtxType, KeepType, TxType, Sending, tx, keep
<1>3. CASE LinuxReadEcho
  <2>1. /\ txOut # <<>> /\ echoed' = Append(echoed, Head(txOut))
        /\ txOut' = Tail(txOut) /\ txFree' = txFree + 1
        /\ UNCHANGED <<vring, posted, lock, pc, cur, keep, delivered>>
    BY <1>3 DEF LinuxReadEcho
  <2>2. txOut \in Seq(0..MaxMsgs) /\ echoed \in Seq(0..MaxMsgs) /\ txFree \in Nat
    BY DEF TypeInv, TxType
  <2>3. /\ Head(txOut) \in 0..MaxMsgs /\ Tail(txOut) \in Seq(0..MaxMsgs)
        /\ Len(Tail(txOut)) = Len(txOut) - 1 /\ Len(txOut) \in Nat
    <3>1. Len(txOut) \in Nat
      BY <2>2
    <3> QED
      BY <2>1, <2>2, <3>1, TailOnce
  <2>4. echoed' \in Seq(0..MaxMsgs)
    BY <2>1, <2>2, <2>3
  <2>5. Cardinality(Sending) \in Nat /\ Sending' = Sending
    BY <2>1, ContextsFinite, FS_Subset, FS_CardinalityType DEF Sending
  <2>6. txFree' + Len(txOut') + Cardinality(Sending') <= TxBufs
    <3>1. txFree + Len(txOut) + Cardinality(Sending) <= TxBufs
      BY DEF TypeInv, TxType
    <3>2. txFree' = txFree + 1 /\ Len(txOut') = Len(txOut) - 1
      BY <2>1, <2>3
    <3> QED
      BY <2>2, <2>3, <2>5, <3>1, <3>2, RxAssumption
  <2>7. TxType'
    BY <2>1, <2>2, <2>3, <2>4, <2>6 DEF TypeInv, TxType
  <2> QED
    BY <2>1, <2>7
    DEF TypeInv, RingType, HeldType, CtxType, KeepType, vring, keep
<1> QED
  BY <1>1, <1>2, <1>3

\* The steps of the receive callback keep the types.
LEMMA RxTypes ==
  ASSUME TypeInv, NEW c \in Contexts, Callback(c) \/ Rx(c)
  PROVE  TypeInv'
<1>0. /\ RingType /\ HeldType /\ CtxType /\ KeepType /\ TxType
      /\ NULL \in Contexts \cup {"app", NULL}
  BY DEF TypeInv
<1>1. CASE Callback(c)
  <2>1. /\ pc[c] = "idle" /\ pc' = [pc EXCEPT ![c] = "wantGet"]
        /\ UNCHANGED <<vring, tx, posted, lock, cur, keep, delivered>>
    BY <1>1 DEF Callback
  <2>2. CtxType'
    BY <1>0, <2>1, CtxMove DEF CtxType, States, Empty
  <2>3. TxType'
    BY <2>1, TxSame DEF States
  <2> QED
    BY <1>0, <2>1, <2>2, <2>3 DEF TypeInv, RingType, HeldType, KeepType, vring, keep
<1>2. CASE Acquire(c)
  <2>1. PICK s \in DOMAIN Section : pc[c] = Section[s] /\ pc' = [pc EXCEPT ![c] = s]
    BY <1>2 DEF Acquire
  <2>2. /\ lock' = c
        /\ UNCHANGED <<vring, tx, posted, cur, keep, delivered>>
    BY <1>2 DEF Acquire
  <2>3. /\ s \in States /\ (pc[c] \in Empty <=> s \in Empty)
        /\ (pc[c] \in {"wantSend", "send"} <=> s \in {"wantSend", "send"})
    BY <2>1, StatesAre DEF States
  <2>4. CtxType'
    BY <2>1, <2>2, <2>3, CtxMove
  <2>5. TxType'
    BY <2>1, <2>2, <2>3, TxSame
  <2> QED
    BY <1>0, <2>2, <2>4, <2>5 DEF TypeInv, RingType, HeldType, KeepType, vring, keep
<1>3. CASE Get(c)
  <2>1. /\ pc[c] = "get" /\ NextBuffer(c) /\ lock' = NULL
        /\ held' = [b \in Bufs |-> held[b] /\ b # cur'[c]]
        /\ UNCHANGED <<used, linux, msg, tx, posted, keep, delivered>>
    BY <1>3 DEF Get
  <2>2. CtxType' /\ avail' \in Seq(Bufs)
    BY <2>1, NextBufferStep
  <2>3. TxType'
    <3>1. PICK s \in {"idle", "wantFind"} : pc' = [pc EXCEPT ![c] = s]
      BY <2>1, NextBufferStep
    <3> QED
      BY <2>1, <3>1, TxSame DEF States
  <2>4. HeldType'
    BY <2>1 DEF HeldType
  <2> QED
    BY <1>0, <2>1, <2>2, <2>3, <2>4 DEF TypeInv, RingType, KeepType, keep
<1>4. CASE Find(c)
  <2>1. /\ pc[c] = "find" /\ pc' = [pc EXCEPT ![c] = "cb"] /\ lock' = NULL
        /\ UNCHANGED <<vring, tx, posted, cur, keep, delivered>>
    BY <1>4 DEF Find
  <2>2. CtxType'
    BY <1>0, <2>1, CtxMove DEF States, Empty
  <2>3. TxType'
    BY <2>1, TxSame DEF States
  <2> QED
    BY <1>0, <2>1, <2>2, <2>3 DEF TypeInv, RingType, HeldType, KeepType, vring, keep
<1>5. ASSUME NEW hold \in BOOLEAN, NEW ok \in BOOLEAN, EptCb(c, hold, ok)
      PROVE  TypeInv'
  <2>1. /\ pc[c] = "cb" /\ delivered' = Append(delivered, msg[cur[c]])
        /\ held' = [held EXCEPT ![cur[c]] = @ \/ hold]
        /\ kept' = IF hold THEN kept \cup {cur[c]} ELSE kept
        /\ UNCHANGED <<avail, used, linux, msg, tx, posted, lock, cur, app>>
    BY <1>5 DEF EptCb
  <2>2. PICK s \in {"wantTx", "wantRet"} : pc' = [pc EXCEPT ![c] = s]
    BY <1>5 DEF EptCb
  <2>3. cur[c] \in Bufs
    BY <1>0, <2>1 DEF CtxType, Empty
  <2>4. CtxType'
    BY <1>0, <2>1, <2>2, CtxMove DEF CtxType, States, Empty
  <2>5. msg[cur[c]] \in 0..MaxMsgs
    BY <1>0, <2>3 DEF RingType
  <2>6. delivered' \in Seq(0..MaxMsgs)
    BY <1>0, <2>1, <2>5 DEF TxType
  <2>7. Cardinality(Sending') = Cardinality(Sending)
    BY <2>1, <2>2, SendingStep DEF States
  <2>8. TxType'
    BY <1>0, <2>1, <2>6, <2>7 DEF TxType, tx
  <2>9. HeldType'
    BY <1>0, <2>1 DEF HeldType
  <2>10. KeepType'
    BY <1>0, <2>1, <2>3 DEF KeepType
  <2> QED
    BY <1>0, <2>1, <2>4, <2>8, <2>9, <2>10 DEF TypeInv, RingType
<1>6. CASE GetTx(c)
  <2>1. /\ pc[c] = "tx" /\ lock' = NULL
        /\ UNCHANGED <<vring, txOut, echoed, posted, cur, keep, delivered>>
    BY <1>6 DEF GetTx
  <2>2. \/ txFree > 0 /\ txFree' = txFree - 1 /\ pc' = [pc EXCEPT ![c] = "wantSend"]
        \/ txFree' = txFree /\ \E s \in {"wantTx", "wantRet"} : pc' = [pc EXCEPT ![c] = s]
    BY <1>6 DEF GetTx
  <2>3. CtxType'
    <3>1. PICK s \in {"wantTx", "wantRet", "wantSend"} : pc' = [pc EXCEPT ![c] = s]
      BY <2>2
    <3> QED
      BY <1>0, <2>1, <3>1, CtxMove DEF States, Empty
  <2>4. ASSUME txFree > 0, txFree' = txFree - 1, pc' = [pc EXCEPT ![c] = "wantSend"]
        PROVE  TxType'
    <3>1. /\ Cardinality(Sending') = Cardinality(Sending) + 1
          /\ Cardinality(Sending) \in Nat
      BY <2>1, <2>4, SendingStep DEF States
    <3>2. txFree \in Nat /\ Len(txOut) \in Nat
          /\ txFree + Len(txOut) + Cardinality(Sending) <= TxBufs
      BY <1>0 DEF TxType
    <3>3. /\ txFree' \in Nat
          /\ txFree' + Len(txOut) + Cardinality(Sending') <= TxBufs
      BY <2>4, <3>1, <3>2, RxAssumption
    <3> QED
      BY <1>0, <2>1, <3>3 DEF TxType
  <2>5. ASSUME txFree' = txFree,
               \E s \in {"wantTx", "wantRet"} : pc' = [pc EXCEPT ![c] = s]
        PROVE  TxType'
    <3>1. PICK s \in {"wantTx", "wantRet"} : pc' = [pc EXCEPT ![c] = s]
      BY <2>5
    <3> QED
      BY <2>1, <2>5, <3>1, TxSame DEF States, tx
  <2>6. TxType'
    BY <2>2, <2>4, <2>5
  <2> QED
    BY <1>0, <2>1, <2>3, <2>6 DEF TypeInv, RingType, HeldType, KeepType, vring, keep
<1>7. CASE Send(c)
  <2>1. /\ pc[c] = "send" /\ lock' = NULL
        /\ txOut' = Append(txOut, msg[cur[c]]) /\ pc' = [pc EXCEPT ![c] = "wantRet"]
        /\ UNCHANGED <<vring, txFree, echoed, posted, cur, keep, delivered>>
    BY <1>7 DEF Send
  <2>2. CtxType'
    BY <1>0, <2>1, CtxMove DEF States, Empty
  <2>3. cur[c] \in Bufs
    BY <1>0, <2>1 DEF CtxType, Empty
  <2>4. msg[cur[c]] \in 0..MaxMsgs
    BY <1>0, <2>3 DEF RingType
  <2>5. /\ txOut' \in Seq(0..MaxMsgs) /\ Len(txOut') = Len(txOut) + 1
        /\ Len(txOut) \in Nat
    BY <1>0, <2>1, <2>4 DEF TxType
  <2>6. Cardinality(Sending') = Cardinality(Sending) - 1 /\ Cardinality(Sending) \in Nat
    BY <2>1, SendingStep DEF States
  <2>7. txFree + Len(txOut') + Cardinality(Sending') <= TxBufs
    <3>1. txFree + Len(txOut) + Cardinality(Sending) <= TxBufs /\ txFree \in Nat
      BY <1>0 DEF TxType
    <3> QED
      BY <2>5, <2>6, <3>1, RxAssumption
  <2>8. TxType'
    BY <1>0, <2>1, <2>5, <2>7 DEF TxType
  <2> QED
    BY <1>0, <2>1, <2>2, <2>8 DEF TypeInv, RingType, HeldType, KeepType, vring, keep
<1>8. CASE Return(c)
  <2>1. /\ pc[c] = "ret" /\ NextBuffer(c) /\ lock' = NULL
        /\ used' = (IF held[cur[c]] THEN used ELSE Append(used, cur[c]))
        /\ held' = [b \in Bufs |-> held[b] /\ b # cur'[c]]
        /\ UNCHANGED <<linux, msg, tx, posted, keep, delivered>>
    BY <1>8 DEF Return
  <2>2. CtxType' /\ avail' \in Seq(Bufs)
    BY <2>1, NextBufferStep
  <2>3. TxType'
    <3>1. PICK s \in {"idle", "wantFind"} : pc' = [pc EXCEPT ![c] = s]
      BY <2>1, NextBufferStep
    <3> QED
      BY <2>1, <3>1, TxSame DEF States
  <2>4. HeldType'
    BY <2>1 DEF HeldType
  <2>5. used' \in Seq(Bufs)
    <3>1. cur[c] \in Bufs
      BY <1>0, <2>1 DEF CtxType, Empty
    <3>2. Append(used, cur[c]) \in Seq(Bufs) /\ used \in Seq(Bufs)
      BY <1>0, <3>1 DEF RingType
    <3> QED
      BY <2>1, <3>2, Zenon
  <2> QED
    BY <1>0, <2>1, <2>2, <2>3, <2>4, <2>5 DEF TypeInv, RingType, KeepType, keep
<1> QED
  BY <1>1, <1>2, <1>3, <1>4, <1>5, <1>6, <1>7, <1>8 DEF Rx

\* The application's steps keep the types.
LEMMA AppTypes ==
  ASSUME TypeInv, (\E b \in Bufs : AppAcquire(b)) \/ AppRelease
  PROVE  TypeInv'
<1>1. ASSUME NEW b \in Bufs, AppAcquire(b) PROVE TypeInv'
  BY <1>1
  DEF AppAcquire, TypeInv, RingType, HeldType, CtxType, KeepType, TxType, Sending,
      vring, tx
<1>2. CASE AppRelease
  <2>1. /\ app # NULL /\ used' = Append(used, app) /\ kept' = kept \ {app}
        /\ app' = NULL /\ lock' = NULL
        /\ UNCHANGED <<avail, linux, msg, held, tx, posted, pc, cur, delivered>>
    BY <1>2 DEF AppRelease
  <2>2. used' \in Seq(Bufs)
    BY <2>1 DEF TypeInv, RingType, KeepType
  <2> QED
    BY <2>1, <2>2
    DEF TypeInv, RingType, HeldType, CtxType, KeepType, TxType, Sending, tx
<1> QED
  BY <1>1, <1>2

-----------------------------------------------------------------------------
(* One owner.                                                              *)

\* The receive buffers are in four places: on the two rings, once each, at
\* Linux and at the firmware.
Places ==
  /\ Once(avail) /\ Once(used)
  /\ InSeq(avail) \cap InSeq(used) = {} /\ InSeq(avail) \cap linux = {}
  /\ InSeq(used) \cap linux = {}
  /\ AtFirmware \cap (InSeq(avail) \cup InSeq(used) \cup linux) = {}
  /\ InSeq(avail) \cup InSeq(used) \cup linux \cup AtFirmware = Bufs

\* At the firmware: no two contexts work on the same buffer, the header of a
\* buffer in work says that it is held exactly if the application keeps it, and
\* the application releases what it keeps and no context works on.
AtWork ==
  /\ \A c, d \in Contexts : cur[c] = cur[d] /\ cur[c] # NULL => c = d
  /\ \A c \in Contexts : cur[c] # NULL => (held[cur[c]] <=> cur[c] \in kept)
  /\ app # NULL => app \in kept /\ app \notin Busy

OwnerInv == Places /\ AtWork

\* A context takes the next buffer: from the ring to the firmware.  The buffer
\* it had is either kept by the application, or has gone onto the used ring.
LEMMA NextBufferOwner ==
  ASSUME TypeInv, OwnerInv, NEW c \in Contexts, NextBuffer(c), lock' = NULL,
         held' = [b \in Bufs |-> held[b] /\ b # cur'[c]],
         UNCHANGED <<linux, keep>>,
         \/ cur[c] = NULL /\ used' = used
         \/ cur[c] \in kept /\ used' = used
         \/ cur[c] # NULL /\ cur[c] \notin kept /\ used' = Append(used, cur[c])
  PROVE  OwnerInv'
<1>1. /\ cur \in [Contexts -> Bufs \cup {NULL}] /\ avail \in Seq(Bufs)
      /\ used \in Seq(Bufs) /\ NULL \notin Bufs
      /\ kept \subseteq Bufs
  BY RxAssumption DEF TypeInv, CtxType, RingType, KeepType
<1>2. /\ kept' = kept /\ app' = app /\ linux' = linux
  BY DEF keep
<1> DEFINE h == cur'[c]
           b == cur[c]
           A == InSeq(avail)
           U == InSeq(used)
           F == AtFirmware
<1>3. /\ \A d \in Contexts \ {c} : cur'[d] = cur[d]
      /\ b \in Bufs \cup {NULL}
  BY <1>1, NextBufferStep
<1>4. /\ h \in Bufs \cup {NULL} /\ Once(avail')
      /\ h = NULL => InSeq(avail') = A
      /\ h # NULL => h \in A /\ InSeq(avail') = A \ {h}
  <2>1. CASE avail = <<>>
    BY <1>1, <2>1 DEF NextBuffer, OwnerInv, Places
  <2>2. CASE avail # <<>>
    <3>1. h = Head(avail) /\ avail' = Tail(avail)
      BY <1>1, <2>2 DEF NextBuffer
    <3>2. /\ h \in Bufs /\ h \in A /\ Once(avail')
          /\ InSeq(avail') = A \ {h}
      BY <1>1, <2>2, <3>1, TailOnce DEF OwnerInv, Places
    <3> QED
      BY <1>1, <3>2
  <2> QED
    BY <2>1, <2>2
<1>5. \A x : x \in F <=> x # NULL /\ (x \in kept \/ \E d \in Contexts : cur[d] = x)
  BY DEF AtFirmware, Busy
<1>6. \A x : x \in F' <=> x # NULL /\ (x \in kept \/ \E d \in Contexts : cur'[d] = x)
  BY <1>2 DEF AtFirmware, Busy
<1>7. h # NULL => h \notin F /\ h # b
  BY <1>4, <1>5, <1>3 DEF OwnerInv, Places
<1> HIDE DEF h
<1>8. \A d \in Contexts : d # c => cur[d] # b \/ b = NULL
  BY DEF OwnerInv, AtWork
<1>9. \A x : x \in F' <=> (x = h /\ h # NULL) \/ (x \in F /\ (x # b \/ b \in kept))
  <2>1. ASSUME NEW x, x \in F' PROVE (x = h /\ h # NULL) \/ (x \in F /\ (x # b \/ b \in kept))
    BY <1>3, <1>5, <1>6, <1>8, <2>1 DEF h
  <2>2. ASSUME NEW x, x = h /\ h # NULL PROVE x \in F'
    BY <1>6, <2>2 DEF h
  <2>3. ASSUME NEW x, x \in F, x # b \/ b \in kept PROVE x \in F'
    BY <1>3, <1>5, <1>6, <2>3
  <2> QED
    BY <2>1, <2>2, <2>3
<1>10. /\ Once(used')
       /\ b = NULL \/ b \in kept => InSeq(used') = U
       /\ b # NULL /\ b \notin kept => InSeq(used') = U \cup {b} /\ b \in F
  <2>1. b # NULL => b \in F /\ b \in Bufs
    BY <1>3, <1>5
  <2>2. b # NULL => b \notin U
    BY <2>1 DEF OwnerInv, Places
  <2>3. b # NULL => InSeq(Append(used, b)) = U \cup {b} /\ Once(Append(used, b))
    BY <1>1, <2>1, <2>2, AppendOnce DEF OwnerInv, Places
  <2>4. NULL \notin kept
    BY <1>1
  <2> QED
    BY <2>1, <2>3, <2>4 DEF OwnerInv, Places
<1> HIDE DEF A, U, F, b
<1>11. /\ A \cap U = {} /\ A \cap linux = {} /\ U \cap linux = {}
       /\ F \cap (A \cup U \cup linux) = {} /\ A \cup U \cup linux \cup F = Bufs
  BY DEF OwnerInv, Places, A, U, F
<1>12. Places'
  <2>1. CASE b # NULL /\ b \notin kept
    <3>1. InSeq(used') = U \cup {b} /\ b \in F
      BY <1>10, <2>1
    <3>2. \A x : x \in F' <=> (x = h /\ h # NULL) \/ (x \in F /\ x # b)
      BY <1>9, <2>1
    <3> QED
      BY <1>2, <1>4, <1>7, <1>10, <1>11, <3>1, <3>2 DEF Places, F
  <2>2. CASE b = NULL \/ b \in kept
    <3>1. InSeq(used') = U
      BY <1>10, <2>2
    <3>2. NULL \notin F
      BY <1>5 DEF F
    <3>3. \A x : x \in F' <=> (x = h /\ h # NULL) \/ x \in F
      BY <1>9, <2>2, <3>2
    <3> QED
      BY <1>2, <1>4, <1>7, <1>10, <1>11, <3>1, <3>3 DEF Places, F
  <2> QED
    BY <2>1, <2>2
<1>13. AtWork'
  <2>1. \A d, e \in Contexts : cur'[d] = cur'[e] /\ cur'[d] # NULL => d = e
    <3>1. \A d \in Contexts \ {c} : cur[d] # h \/ h = NULL
      BY <1>5, <1>7 DEF F
    <3> QED
      BY <1>3, <3>1 DEF OwnerInv, AtWork, h
  <2>2. ASSUME NEW d \in Contexts, cur'[d] # NULL
        PROVE  held'[cur'[d]] <=> cur'[d] \in kept'
    <3>1. CASE d = c
      <4>1. h \in Bufs /\ h \notin kept
        BY <1>4, <1>5, <1>7, <2>2, <3>1 DEF F, h
      <4>2. ~held'[h]
        BY <4>1, Zenon DEF h
      <4> QED
        BY <1>2, <3>1, <4>1, <4>2 DEF h
    <3>2. CASE d # c
      <4>1. cur'[d] = cur[d] /\ cur[d] \in Bufs /\ cur[d] # NULL
        BY <1>1, <1>3, <2>2, <3>2
      <4>2. cur[d] # h
        BY <1>5, <1>7, <2>2, <4>1 DEF F
      <4>3. held'[cur[d]] <=> held[cur[d]]
        BY <4>1, <4>2, Zenon DEF h
      <4>4. held[cur[d]] <=> cur[d] \in kept
        BY <4>1 DEF OwnerInv, AtWork
      <4> QED
        BY <1>2, <4>1, <4>3, <4>4
    <3> QED
      BY <3>1, <3>2
  <2>3. app' # NULL => app' \in kept' /\ app' \notin Busy'
    <3> SUFFICES ASSUME app # NULL PROVE app \in kept /\ app \notin Busy'
      BY <1>2
    <3>1. app \in kept /\ app \notin Busy
      BY DEF OwnerInv, AtWork
    <3>2. app \in F
      BY <1>5, <3>1 DEF F
    <3>3. app # h
      BY <1>7, <3>2
    <3> QED
      BY <1>3, <3>1, <3>3 DEF Busy, h
  <2> QED
    BY <2>1, <2>2, <2>3 DEF AtWork
<1> QED
  BY <1>12, <1>13 DEF OwnerInv

\* What is at the firmware depends on the contexts and the application.
LEMMA FirmwareSame ==
  ASSUME UNCHANGED <<cur, kept>>
  PROVE  AtFirmware' = AtFirmware /\ Busy' = Busy
BY DEF AtFirmware, Busy

\* Linux posts a buffer of its own, or takes one from the used ring.
LEMMA LinuxOwner ==
  ASSUME TypeInv, OwnerInv, (\E b \in Bufs : LinuxPost(b)) \/ LinuxReap
  PROVE  OwnerInv'
<1>1. avail \in Seq(Bufs) /\ used \in Seq(Bufs) /\ held \in [Bufs -> BOOLEAN]
  BY DEF TypeInv, RingType, HeldType
<1>2. ASSUME NEW b \in Bufs, LinuxPost(b) PROVE OwnerInv'
  <2>1. /\ b \in linux /\ linux' = linux \ {b} /\ avail' = Append(avail, b)
        /\ held' = [held EXCEPT ![b] = FALSE] /\ used' = used
        /\ cur' = cur /\ kept' = kept /\ app' = app
    BY <1>2 DEF LinuxPost, keep
  <2>2. AtFirmware' = AtFirmware /\ Busy' = Busy
    BY <2>1, FirmwareSame
  <2>3. InSeq(avail') = InSeq(avail) \cup {b} /\ Once(avail')
    BY <1>1, <2>1, AppendOnce DEF OwnerInv, Places
  <2>4. Places'
    BY <2>1, <2>2, <2>3 DEF OwnerInv, Places
  <2>5. ASSUME NEW c \in Contexts, cur[c] # NULL
        PROVE  held'[cur[c]] <=> cur[c] \in kept
    <3>1. cur[c] \in AtFirmware
      BY <2>5 DEF AtFirmware, Busy
    <3>2. cur[c] # b /\ cur[c] \in Bufs
      BY <2>1, <3>1 DEF OwnerInv, Places
    <3>3. held'[cur[c]] = held[cur[c]]
      BY <1>1, <2>1, <3>2
    <3> QED
      BY <2>5, <3>3 DEF OwnerInv, AtWork
  <2>6. AtWork'
    BY <2>1, <2>2, <2>5 DEF OwnerInv, AtWork
  <2> QED
    BY <2>4, <2>6 DEF OwnerInv
<1>3. CASE LinuxReap
  <2>1. /\ used # <<>> /\ linux' = linux \cup {Head(used)} /\ used' = Tail(used)
        /\ UNCHANGED <<avail, held, cur, kept, app>>
    BY <1>3 DEF LinuxReap, keep
  <2>2. AtFirmware' = AtFirmware /\ Busy' = Busy
    BY <2>1, FirmwareSame
  <2>3. /\ InSeq(used') = InSeq(used) \ {Head(used)} /\ Once(used')
        /\ Head(used) \in InSeq(used)
    BY <1>1, <2>1, TailOnce DEF OwnerInv, Places
  <2>4. Places'
    BY <2>1, <2>2, <2>3 DEF OwnerInv, Places
  <2>5. AtWork'
    BY <2>1, <2>2 DEF OwnerInv, AtWork
  <2> QED
    BY <2>4, <2>5 DEF OwnerInv
<1> QED
  BY <1>2, <1>3

\* A callback that holds its buffer: the application keeps it from then on.
LEMMA EptCbOwner ==
  ASSUME TypeInv, OwnerInv, NEW c \in Contexts, NEW hold \in BOOLEAN,
         NEW ok \in BOOLEAN, EptCb(c, hold, ok)
  PROVE  OwnerInv'
<1> DEFINE b == cur[c]
<1>1. /\ pc[c] = "cb" /\ held' = [held EXCEPT ![b] = @ \/ hold]
      /\ kept' = IF hold THEN kept \cup {b} ELSE kept
      /\ UNCHANGED <<avail, used, linux, cur, app>>
  BY DEF EptCb
<1>2. /\ b \in Bufs /\ b # NULL /\ held \in [Bufs -> BOOLEAN]
      /\ cur \in [Contexts -> Bufs \cup {NULL}]
  BY <1>1 DEF TypeInv, CtxType, Empty, HeldType
<1>3. b \in Busy
  BY DEF Busy
<1>4. AtFirmware' = AtFirmware /\ Busy' = Busy
  <2>1. Busy' = Busy
    BY <1>1 DEF Busy
  <2> QED
    BY <1>1, <1>3, <2>1 DEF AtFirmware
<1>5. Places'
  BY <1>1, <1>4 DEF OwnerInv, Places
<1>6. ASSUME NEW d \in Contexts, cur[d] # NULL
      PROVE  held'[cur[d]] <=> cur[d] \in kept'
  <2>1. held[cur[d]] <=> cur[d] \in kept
    BY <1>6 DEF OwnerInv, AtWork
  <2>2. cur[d] \in Bufs
    BY <1>2, <1>6
  <2>3. CASE cur[d] = b
    <3>1. held'[b] <=> held[b] \/ hold
      BY <1>1, <1>2, Zenon
    <3> QED
      BY <1>1, <2>1, <2>3, <3>1
  <2>4. CASE cur[d] # b
    <3>1. held'[cur[d]] = held[cur[d]]
      BY <1>1, <1>2, <2>2, <2>4
    <3> QED
      BY <1>1, <2>1, <2>4, <3>1
  <2> QED
    BY <2>3, <2>4
<1>7. AtWork'
  BY <1>1, <1>4, <1>6 DEF OwnerInv, AtWork
<1> QED
  BY <1>5, <1>7 DEF OwnerInv

\* The application returns a buffer that no context works on.
LEMMA AppReleaseOwner ==
  ASSUME TypeInv, OwnerInv, AppRelease
  PROVE  OwnerInv'
<1>1. /\ app # NULL /\ used' = Append(used, app) /\ kept' = kept \ {app}
      /\ app' = NULL /\ UNCHANGED <<avail, linux, held, cur>>
  BY DEF AppRelease
<1>2. app \in kept /\ app \notin Busy /\ used \in Seq(Bufs) /\ app \in Bufs
  BY <1>1 DEF OwnerInv, AtWork, TypeInv, RingType, KeepType
<1>3. Busy' = Busy
  BY <1>1 DEF Busy
<1>4. AtFirmware' = AtFirmware \ {app} /\ app \in AtFirmware
  BY <1>1, <1>2, <1>3 DEF AtFirmware
<1>5. InSeq(used') = InSeq(used) \cup {app} /\ Once(used')
  BY <1>1, <1>2, <1>4, AppendOnce DEF OwnerInv, Places
<1>6. Places'
  BY <1>1, <1>2, <1>4, <1>5 DEF OwnerInv, Places
<1>7. ASSUME NEW c \in Contexts, cur[c] # NULL
      PROVE  held[cur[c]] <=> cur[c] \in kept \ {app}
  <2>1. cur[c] # app
    BY <1>2 DEF Busy
  <2> QED
    BY <1>7, <2>1 DEF OwnerInv, AtWork
<1>8. AtWork'
  BY <1>1, <1>7 DEF OwnerInv, AtWork
<1> QED
  BY <1>6, <1>8 DEF OwnerInv

\* Every step keeps types and owners, if a held buffer is not released while
\* the callback that held it is still on its way out.
LEMMA OwnerStep ==
  ASSUME ~EarlyRelease, TypeInv, OwnerInv, [Next]_vars
  PROVE  TypeInv' /\ OwnerInv'
<1>1. CASE (\E b \in Bufs : LinuxPost(b)) \/ LinuxReap
  BY <1>1, LinuxTypes, LinuxOwner
<1>2. ASSUME UNCHANGED <<avail, used, linux, held, cur, keep>>
      PROVE  OwnerInv'
  <2>1. AtFirmware' = AtFirmware /\ Busy' = Busy /\ kept' = kept /\ app' = app
    BY <1>2, FirmwareSame DEF keep
  <2>2. Places'
    BY <1>2, <2>1 DEF OwnerInv, Places
  <2>3. AtWork'
    BY <1>2, <2>1 DEF OwnerInv, AtWork
  <2> QED
    BY <2>2, <2>3 DEF OwnerInv
<1>3. CASE LinuxReadEcho
  BY <1>2, <1>3, LinuxTypes DEF LinuxReadEcho, vring
<1>4. ASSUME NEW c \in Contexts, Callback(c) \/ Rx(c)
      PROVE  TypeInv' /\ OwnerInv'
  <2>1. TypeInv'
    BY <1>4, RxTypes
  <2>2. CASE Get(c)
    <3>1. cur[c] = NULL
      BY <2>2 DEF Get, TypeInv, CtxType, Empty
    <3> QED
      BY <2>1, <2>2, <3>1, NextBufferOwner DEF Get
  <2>3. CASE Return(c)
    <3>1. cur[c] # NULL
      BY <2>3 DEF Return, TypeInv, CtxType, Empty
    <3>2. held[cur[c]] <=> cur[c] \in kept
      BY <3>1 DEF OwnerInv, AtWork
    <3>3. used' = IF held[cur[c]] THEN used ELSE Append(used, cur[c])
      BY <2>3 DEF Return
    <3>4. \/ cur[c] \in kept /\ used' = used
          \/ cur[c] # NULL /\ cur[c] \notin kept /\ used' = Append(used, cur[c])
      BY <3>1, <3>2, <3>3, Zenon
    <3> QED
      BY <2>1, <2>3, <3>4, NextBufferOwner DEF Return
  <2>4. CASE \E hold, ok \in BOOLEAN : EptCb(c, hold, ok)
    BY <2>1, <2>4, EptCbOwner
  <2>5. CASE Callback(c) \/ Acquire(c) \/ Find(c) \/ GetTx(c) \/ Send(c)
    BY <1>2, <2>1, <2>5 DEF Callback, Acquire, Find, GetTx, Send, vring
  <2> QED
    BY <1>4, <2>2, <2>3, <2>4, <2>5 DEF Rx
<1>5. ASSUME NEW b \in Bufs, AppAcquire(b) PROVE TypeInv' /\ OwnerInv'
  <2>1. TypeInv'
    BY <1>5, AppTypes
  <2>2. /\ b \in kept /\ b \notin Busy /\ app' = b
        /\ UNCHANGED <<avail, used, linux, held, cur, kept>>
    BY <1>5 DEF AppAcquire, vring
  <2>3. AtFirmware' = AtFirmware /\ Busy' = Busy
    BY <2>2, FirmwareSame
  <2>4. Places'
    BY <2>2, <2>3 DEF OwnerInv, Places
  <2>5. AtWork'
    BY <2>2, <2>3 DEF OwnerInv, AtWork
  <2> QED
    BY <2>1, <2>4, <2>5 DEF OwnerInv
<1>6. CASE AppRelease
  BY <1>6, AppTypes, AppReleaseOwner
<1>7. CASE UNCHANGED vars
  <2>1. OwnerInv'
    BY <1>2, <1>7 DEF vars, vring
  <2>2. TypeInv'
    BY <1>7
    DEF vars, vring, tx, keep, TypeInv, RingType, HeldType, CtxType, KeepType,
        TxType, Sending
  <2> QED
    BY <2>1, <2>2
<1> QED
  BY <1>1, <1>3, <1>4, <1>5, <1>6, <1>7 DEF Next

\* Before anything happens every buffer is at Linux.
LEMMA OwnerInit ==
  ASSUME Init
  PROVE  TypeInv /\ OwnerInv
<1>1. /\ avail = <<>> /\ used = <<>> /\ linux = Bufs /\ txOut = <<>>
      /\ delivered = <<>> /\ echoed = <<>> /\ txFree = TxBufs
      /\ pc = [c \in Contexts |-> "idle"] /\ cur = [c \in Contexts |-> NULL]
      /\ kept = {} /\ app = NULL /\ posted = 0 /\ lock = NULL
      /\ msg = [b \in Bufs |-> 0] /\ held = [b \in Bufs |-> FALSE]
  BY DEF Init
<1>2. Sending = {}
  BY <1>1 DEF Sending
<1>3. TxType
  <2>1. Cardinality(Sending) = 0
    BY <1>2, FS_EmptySet
  <2> QED
    BY <1>1, <2>1, RxAssumption DEF TxType
<1>4. RingType /\ CtxType /\ KeepType
  BY <1>1, RxAssumption DEF RingType, CtxType, KeepType, States, Empty
<1>5. HeldType
  BY <1>1 DEF HeldType
<1>6. InSeq(<<>>) = {} /\ Once(<<>>)
  BY DEF InSeq, Once
<1>7. AtFirmware = {}
  BY <1>1 DEF AtFirmware, Busy
<1>8. Places
  BY <1>1, <1>6, <1>7 DEF Places
<1>9. AtWork
  BY <1>1 DEF AtWork
<1> QED
  BY <1>3, <1>4, <1>5, <1>8, <1>9 DEF TypeInv, OwnerInv

\* The owners of the buffers, an inductive invariant.
LEMMA OwnerInvariant == ~EarlyRelease => (Spec => [](TypeInv /\ OwnerInv))
<1> SUFFICES ASSUME ~EarlyRelease PROVE Spec => [](TypeInv /\ OwnerInv)
  OBVIOUS
<1>1. Init => TypeInv /\ OwnerInv
  BY OwnerInit
<1>2. TypeInv /\ OwnerInv /\ [Next]_vars => (TypeInv /\ OwnerInv)'
  BY OwnerStep
<1> QED
  BY <1>1, <1>2, PTL DEF Spec

\* A receive buffer has one owner in every reachable state, whichever contexts
\* run the callback and however they interleave, if the application does not
\* release a buffer before the callback that held it has returned.
THEOREM BufferHasOneOwner == ~EarlyRelease => (Spec => []OneOwner)
<1> SUFFICES ASSUME ~EarlyRelease PROVE Spec => []OneOwner
  OBVIOUS
<1>1. TypeInv /\ OwnerInv => OneOwner
  <2> SUFFICES ASSUME TypeInv, OwnerInv PROVE OneOwner
    OBVIOUS
  <2> DEFINE A == InSeq(avail)
             U == InSeq(used)
             F == AtFirmware
  <2>1. /\ avail \in Seq(Bufs) /\ used \in Seq(Bufs) /\ linux \subseteq Bufs
        /\ Once(avail) /\ Once(used)
        /\ A \cap U = {} /\ A \cap linux = {} /\ U \cap linux = {}
        /\ F \cap (A \cup U \cup linux) = {} /\ A \cup U \cup linux \cup F = Bufs
    BY DEF TypeInv, RingType, OwnerInv, Places
  <2>2. /\ IsFiniteSet(A) /\ Cardinality(A) = Len(avail)
        /\ IsFiniteSet(U) /\ Cardinality(U) = Len(used)
    BY <2>1, OnceCount
  <2>3. IsFiniteSet(linux) /\ IsFiniteSet(F)
    <3>1. IsFiniteSet(Bufs) /\ F \subseteq Bufs
      BY <2>1, RxAssumption
    <3> QED
      BY <2>1, <3>1, FS_Subset
  <2> HIDE DEF A, U, F
  <2>4. Len(avail) \in Nat /\ Len(used) \in Nat
    BY <2>1
  <2>5. Cardinality(linux) \in Nat /\ Cardinality(F) \in Nat
    BY <2>3, FS_CardinalityType
  <2>6. /\ IsFiniteSet(A \cup U)
        /\ Cardinality(A \cup U) = Cardinality(A) + Cardinality(U) - Cardinality(A \cap U)
    BY <2>2, FS_Union
  <2>7. /\ IsFiniteSet(A \cup U \cup linux)
        /\ Cardinality(A \cup U \cup linux) =
             Cardinality(A \cup U) + Cardinality(linux) - Cardinality((A \cup U) \cap linux)
    BY <2>3, <2>6, FS_Union
  <2>8. Cardinality(A \cup U \cup linux \cup F) =
          Cardinality(A \cup U \cup linux) + Cardinality(F)
            - Cardinality((A \cup U \cup linux) \cap F)
    BY <2>3, <2>7, FS_Union
  <2>9. A \cap U = {} /\ (A \cup U) \cap linux = {} /\ (A \cup U \cup linux) \cap F = {}
    BY <2>1
  <2>10. /\ Cardinality(A \cap U) = 0 /\ Cardinality((A \cup U) \cap linux) = 0
         /\ Cardinality((A \cup U \cup linux) \cap F) = 0
    BY <2>9, FS_EmptySet, Zenon
  <2>11. Len(avail) + Len(used) + Cardinality(linux) + Cardinality(F) = Cardinality(Bufs)
    <3>1. Cardinality(A \cup U) = Len(avail) + Len(used)
      BY <2>2, <2>4, <2>6, <2>10
    <3>2. Cardinality(A \cup U \cup linux) = Len(avail) + Len(used) + Cardinality(linux)
      BY <2>4, <2>5, <2>7, <2>10, <3>1
    <3>3. Cardinality(A \cup U \cup linux \cup F)
            = Len(avail) + Len(used) + Cardinality(linux) + Cardinality(F)
      BY <2>4, <2>5, <2>8, <2>10, <3>2
    <3> QED
      BY <2>1, <3>3
  <2>12. \A c, d \in Contexts : cur[c] = cur[d] /\ cur[c] # NULL => c = d
    BY DEF OwnerInv, AtWork
  <2> QED
    BY <2>1, <2>11, <2>12, TypeInvTypes DEF OneOwner, A, U, F
<1> QED
  BY <1>1, OwnerInvariant, PTL

-----------------------------------------------------------------------------
(* Order, when only the task runs the callback.                            *)

\* The task has a message that the endpoint has not got yet.
Fresh == pc["task"] \in {"wantFind", "find", "cb"}

\* The endpoint has the message and its echo is not sent yet.
Answering == pc["task"] \in {"wantTx", "tx", "wantSend", "send"}

\* The messages on the receive ring are the last ones posted, in order; all
\* others but the one at hand have been delivered.
RxOrder ==
  /\ \A i \in DOMAIN delivered : delivered[i] = i
  /\ posted = Len(delivered) + Len(avail) + (IF Fresh THEN 1 ELSE 0)
  /\ \A i \in DOMAIN avail : msg[avail[i]] = posted - Len(avail) + i
  /\ Fresh => msg[cur["task"]] = Len(delivered) + 1
  /\ Answering => msg[cur["task"]] = Len(delivered)

Increasing(s) == \A i, j \in DOMAIN s : i < j => s[i] < s[j]

\* Echoes are in the order of delivery, and the one at hand is not among them.
TxOrder ==
  /\ Increasing(echoed) /\ Increasing(txOut)
  /\ \A i \in DOMAIN echoed, j \in DOMAIN txOut : echoed[i] < txOut[j]
  /\ \A i \in DOMAIN txOut :
       txOut[i] <= Len(delivered) /\ (Answering => txOut[i] < Len(delivered))
  /\ \A i \in DOMAIN echoed :
       echoed[i] <= Len(delivered) /\ (Answering => echoed[i] < Len(delivered))

\* The messages on a ring are numbers.
LEMMA MessagesNat ==
  ASSUME NEW s \in Seq(0..MaxMsgs)
  PROVE  Len(s) \in Nat /\ \A i \in DOMAIN s : s[i] \in Nat
<1>1. MaxMsgs \in Nat
  BY RxAssumption
<1>2. \A i \in DOMAIN s : s[i] \in 0..MaxMsgs
  BY LenProperties, ElementOfSeq
<1>3. \A x \in 0..MaxMsgs : x \in Nat
  BY <1>1
<1> QED
  BY <1>2, <1>3

\* Linux posts the next message, in a buffer that is nowhere else.
LEMMA PostOrder ==
  ASSUME Contexts = {"task"}, TypeInv, OwnerInv, RxOrder, NEW b \in Bufs, LinuxPost(b)
  PROVE  RxOrder'
<1>1. /\ b \in linux /\ posted' = posted + 1 /\ msg' = [msg EXCEPT ![b] = posted + 1]
      /\ avail' = Append(avail, b) /\ UNCHANGED <<pc, cur, delivered>>
  BY DEF LinuxPost
<1>2. /\ avail \in Seq(Bufs) /\ msg \in [Bufs -> 0..MaxMsgs] /\ posted \in Nat
      /\ delivered \in Seq(0..MaxMsgs) /\ cur \in [Contexts -> Bufs \cup {NULL}]
      /\ \A c \in Contexts : cur[c] = NULL <=> pc[c] \in Empty
  BY DEF TypeInv, RingType, TxType, CtxType
<1> DEFINE n == Len(avail)
           d == Len(delivered)
<1>3. /\ n \in Nat /\ d \in Nat /\ DOMAIN avail = 1..n /\ DOMAIN avail' = 1..(n + 1)
      /\ Len(avail') = n + 1 /\ avail'[n + 1] = b
      /\ \A i \in 1..n : avail'[i] = avail[i] /\ avail[i] \in Bufs
  BY <1>1, <1>2
<1>4. \A i \in 1..n : avail[i] # b
  BY <1>1, <1>3 DEF OwnerInv, Places, InSeq
<1>5. \A x \in Bufs : x # b => msg'[x] = msg[x]
  BY <1>1, <1>2
<1>6. msg'[b] = posted + 1
  BY <1>1, <1>2
<1> HIDE DEF n, d
<1>7. \A i \in 1..(n + 1) : msg'[avail'[i]] = posted' - (n + 1) + i
  <2> SUFFICES ASSUME NEW i \in 1..(n + 1) PROVE msg'[avail'[i]] = posted' - (n + 1) + i
    OBVIOUS
  <2>1. CASE i \in 1..n
    <3>1. msg'[avail'[i]] = msg[avail[i]]
      BY <1>3, <1>4, <1>5, <2>1
    <3>2. msg[avail[i]] = posted - n + i
      BY <1>3, <2>1 DEF RxOrder, n
    <3> QED
      BY <1>1, <1>2, <1>3, <2>1, <3>1, <3>2
  <2>2. CASE i = n + 1
    BY <1>1, <1>2, <1>3, <1>6, <2>2
  <2> QED
    BY <1>3, <2>1, <2>2
<1>8. pc["task"] \notin Empty => cur["task"] \in Bufs /\ cur["task"] # b
  <2> SUFFICES ASSUME pc["task"] \notin Empty PROVE cur["task"] \in Bufs /\ cur["task"] # b
    OBVIOUS
  <2>1. cur["task"] # NULL /\ cur["task"] \in Bufs
    BY <1>2
  <2>2. cur["task"] \in AtFirmware
    BY <2>1 DEF AtFirmware, Busy
  <2> QED
    BY <1>1, <2>1, <2>2 DEF OwnerInv, Places
<1>9. Fresh \/ Answering => msg'[cur["task"]] = msg[cur["task"]]
  BY <1>5, <1>8 DEF Fresh, Answering, Empty
<1>10. Fresh' = Fresh /\ Answering' = Answering
  BY <1>1 DEF Fresh, Answering
<1>11. posted' = d + (n + 1) + (IF Fresh THEN 1 ELSE 0)
  <2>1. posted = d + n + (IF Fresh THEN 1 ELSE 0)
    BY DEF RxOrder, d, n
  <2> QED
    BY <1>1, <1>2, <1>3, <2>1
<1> QED
  BY <1>1, <1>3, <1>7, <1>9, <1>10, <1>11 DEF RxOrder, n, d

\* The task takes the oldest message posted.
LEMMA TakeOrder ==
  ASSUME Contexts = {"task"}, TypeInv, RxOrder, ~Fresh, NextBuffer("task"),
         UNCHANGED <<msg, posted, delivered>>
  PROVE  RxOrder'
<1>1. /\ avail \in Seq(Bufs) /\ posted \in Nat /\ "task" \in Contexts
      /\ delivered \in Seq(0..MaxMsgs) /\ cur \in [Contexts -> Bufs \cup {NULL}]
      /\ pc \in [Contexts -> States]
  BY DEF TypeInv, RingType, TxType, CtxType
<1> DEFINE n == Len(avail)
           d == Len(delivered)
<1>2. n \in Nat /\ d \in Nat /\ posted = d + n
  BY <1>1 DEF RxOrder
<1>3. CASE avail = <<>>
  <2>1. avail' = avail /\ pc'["task"] = "idle"
    BY <1>1, <1>3 DEF NextBuffer
  <2>2. ~Fresh' /\ ~Answering'
    BY <2>1 DEF Fresh, Answering
  <2> QED
    BY <1>2, <2>1, <2>2 DEF RxOrder
<1>4. CASE avail # <<>>
  <2>1. avail' = Tail(avail) /\ pc'["task"] = "wantFind" /\ cur'["task"] = Head(avail)
    BY <1>1, <1>4 DEF NextBuffer
  <2>2. /\ n >= 1 /\ Len(avail') = n - 1 /\ DOMAIN avail = 1..n
        /\ DOMAIN avail' = 1..(n - 1) /\ Head(avail) = avail[1]
        /\ \A i \in 1..(n - 1) : avail'[i] = avail[i + 1]
    BY <1>1, <1>4, <2>1
  <2>3. Fresh' /\ ~Answering'
    BY <2>1 DEF Fresh, Answering
  <2> HIDE DEF n, d
  <2>4. \A i \in 1..n : msg[avail[i]] = posted - n + i
    BY <2>2 DEF RxOrder, n
  <2>5. msg[avail[1]] = d + 1
    BY <1>2, <2>2, <2>4
  <2>6. \A i \in 1..(n - 1) : msg[avail'[i]] = posted - (n - 1) + i
    <3> SUFFICES ASSUME NEW i \in 1..(n - 1)
                 PROVE  msg[avail'[i]] = posted - (n - 1) + i
      OBVIOUS
    <3>1. i + 1 \in 1..n
      BY <1>2
    <3>2. msg[avail[i + 1]] = posted - n + (i + 1)
      BY <2>4, <3>1
    <3> QED
      BY <1>1, <1>2, <2>2, <3>2
  <2>7. posted = d + (n - 1) + 1
    BY <1>2
  <2> QED
    BY <2>1, <2>2, <2>3, <2>5, <2>6, <2>7 DEF RxOrder, d
<1> QED
  BY <1>3, <1>4

\* The endpoint gets the message after the ones it had.
LEMMA DeliverOrder ==
  ASSUME Contexts = {"task"}, TypeInv, RxOrder, TxOrder, NEW hold, NEW ok,
         EptCb("task", hold, ok)
  PROVE  RxOrder' /\ TxOrder'
<1>1. /\ pc["task"] = "cb" /\ delivered' = Append(delivered, msg[cur["task"]])
      /\ UNCHANGED <<avail, msg, tx, posted, cur>>
  BY DEF EptCb
<1>2. PICK s \in {"wantTx", "wantRet"} : pc' = [pc EXCEPT !["task"] = s]
  BY DEF EptCb
<1>3. pc \in [Contexts -> States] /\ delivered \in Seq(0..MaxMsgs)
      /\ "task" \in Contexts /\ posted \in Nat /\ avail \in Seq(Bufs)
      /\ txOut \in Seq(0..MaxMsgs) /\ echoed \in Seq(0..MaxMsgs)
  BY DEF TypeInv, CtxType, TxType, RingType
<1> DEFINE d == Len(delivered)
<1>4. Fresh /\ msg[cur["task"]] = d + 1
  BY <1>1 DEF RxOrder, Fresh
<1>5. ~Fresh'
  BY <1>2, <1>3 DEF Fresh
<1>6. /\ Len(delivered') = d + 1 /\ d \in Nat
      /\ DOMAIN delivered = 1..d /\ DOMAIN delivered' = 1..(d + 1)
      /\ delivered'[d + 1] = msg[cur["task"]]
      /\ \A i \in 1..d : delivered'[i] = delivered[i]
  BY <1>1, <1>3
<1> HIDE DEF d
<1>7. \A i \in 1..(d + 1) : delivered'[i] = i
  <2>1. \A i \in 1..(d + 1) : i \in 1..d \/ i = d + 1
    BY <1>6
  <2> QED
    BY <1>4, <1>6, <2>1 DEF RxOrder
<1>8. posted = (d + 1) + Len(avail) + 0
  <2>1. Len(avail) \in Nat
    BY <1>3
  <2>2. posted = d + Len(avail) + 1
    BY <1>4 DEF RxOrder, d
  <2> QED
    BY <1>6, <2>1, <2>2
<1>9. RxOrder'
  BY <1>1, <1>4, <1>5, <1>6, <1>7, <1>8 DEF RxOrder
<1>10. \A i \in DOMAIN txOut : txOut[i] <= d + 1 /\ txOut[i] < d + 1
  <2>1. \A i \in DOMAIN txOut : txOut[i] \in Nat
    BY <1>3, MessagesNat
  <2>2. \A i \in DOMAIN txOut : txOut[i] <= d
    BY DEF TxOrder, d
  <2> QED
    BY <1>6, <2>1, <2>2
<1>11. \A i \in DOMAIN echoed : echoed[i] <= d + 1 /\ echoed[i] < d + 1
  <2>1. \A i \in DOMAIN echoed : echoed[i] \in Nat
    BY <1>3, MessagesNat
  <2>2. \A i \in DOMAIN echoed : echoed[i] <= d
    BY DEF TxOrder, d
  <2> QED
    BY <1>6, <2>1, <2>2
<1>12. TxOrder'
  BY <1>1, <1>6, <1>10, <1>11 DEF TxOrder, Increasing, tx
<1> QED
  BY <1>9, <1>12

\* The echo goes behind all that were sent.
LEMMA SendOrder ==
  ASSUME Contexts = {"task"}, TypeInv, RxOrder, TxOrder, Send("task")
  PROVE  RxOrder' /\ TxOrder'
<1>1. /\ pc["task"] = "send" /\ txOut' = Append(txOut, msg[cur["task"]])
      /\ pc' = [pc EXCEPT !["task"] = "wantRet"]
      /\ UNCHANGED <<avail, msg, echoed, posted, cur, delivered>>
  BY DEF Send, vring
<1>2. /\ pc \in [Contexts -> States] /\ "task" \in Contexts
      /\ txOut \in Seq(0..MaxMsgs) /\ echoed \in Seq(0..MaxMsgs)
      /\ delivered \in Seq(0..MaxMsgs)
  BY DEF TypeInv, CtxType, TxType
<1> DEFINE d == Len(delivered)
           n == Len(txOut)
           m == msg[cur["task"]]
<1>3. ~Fresh /\ ~Fresh' /\ Answering /\ ~Answering' /\ m = d
  BY <1>1, <1>2 DEF RxOrder, Fresh, Answering
<1>4. /\ d \in Nat /\ n \in Nat /\ DOMAIN txOut = 1..n /\ DOMAIN txOut' = 1..(n + 1)
      /\ txOut'[n + 1] = m /\ \A i \in 1..n : txOut'[i] = txOut[i]
      /\ \A i \in 1..n : txOut[i] \in Nat
      /\ \A i \in DOMAIN echoed : echoed[i] \in Nat
  <2>1. cur["task"] \in Bufs /\ msg \in [Bufs -> 0..MaxMsgs]
    BY <1>1, <1>2 DEF TypeInv, CtxType, RingType, Empty
  <2>2. m \in 0..MaxMsgs
    BY <2>1
  <2> HIDE DEF m
  <2>3. txOut' = Append(txOut, m)
    BY <1>1 DEF m
  <2>4. /\ n \in Nat /\ DOMAIN txOut = 1..n /\ DOMAIN txOut' = 1..(n + 1)
        /\ txOut'[n + 1] = m /\ \A i \in 1..n : txOut'[i] = txOut[i]
    BY <1>2, <2>2, <2>3
  <2>5. \A i \in 1..n : txOut[i] \in Nat
    BY <1>2, <2>4, MessagesNat
  <2>6. d \in Nat /\ \A i \in DOMAIN echoed : echoed[i] \in Nat
    BY <1>2, MessagesNat
  <2> QED
    BY <2>4, <2>5, <2>6
<1>5. RxOrder'
  BY <1>1, <1>3 DEF RxOrder
<1> HIDE DEF d, n, m
<1>6. /\ \A i \in 1..(n + 1) : i \in 1..n \/ i = n + 1
      /\ \A i \in 1..n : i < n + 1 /\ ~(n + 1 < i)
      /\ ~(n + 1 < n + 1)
  BY <1>4
<1>7. \A i \in 1..n : txOut[i] < d /\ txOut[i] <= d
  BY <1>3, <1>4 DEF TxOrder, d
<1>8. \A i \in DOMAIN echoed : echoed[i] < d /\ echoed[i] <= d
  BY <1>3, <1>4 DEF TxOrder, d
<1>9. \A i, j \in 1..(n + 1) : i < j => txOut'[i] < txOut'[j]
  BY <1>3, <1>4, <1>6, <1>7 DEF TxOrder, Increasing
<1>10. \A i \in DOMAIN echoed, j \in 1..(n + 1) : echoed[i] < txOut'[j]
  BY <1>3, <1>4, <1>6, <1>8 DEF TxOrder
<1>11. \A i \in 1..(n + 1) : txOut'[i] <= d
  BY <1>3, <1>4, <1>6, <1>7
<1>12. TxOrder'
  BY <1>1, <1>3, <1>4, <1>8, <1>9, <1>10, <1>11 DEF TxOrder, Increasing, d
<1> QED
  BY <1>5, <1>12

\* Linux reads the oldest echo.
LEMMA EchoOrder ==
  ASSUME TypeInv, RxOrder, TxOrder, LinuxReadEcho
  PROVE  RxOrder' /\ TxOrder'
<1>1. /\ txOut # <<>> /\ echoed' = Append(echoed, Head(txOut)) /\ txOut' = Tail(txOut)
      /\ UNCHANGED <<avail, msg, posted, pc, cur, delivered>>
  BY DEF LinuxReadEcho, vring
<1>2. /\ txOut \in Seq(0..MaxMsgs) /\ echoed \in Seq(0..MaxMsgs)
      /\ delivered \in Seq(0..MaxMsgs)
  BY DEF TypeInv, TxType
<1>3. RxOrder'
  BY <1>1 DEF RxOrder, Fresh, Answering
<1> DEFINE n == Len(txOut)
           k == Len(echoed)
           h == Head(txOut)
           d == Len(delivered)
<1>4. /\ n \in Nat /\ n >= 1 /\ k \in Nat /\ d \in Nat /\ h = txOut[1]
      /\ DOMAIN txOut = 1..n /\ DOMAIN txOut' = 1..(n - 1)
      /\ DOMAIN echoed = 1..k /\ DOMAIN echoed' = 1..(k + 1)
      /\ \A i \in 1..(n - 1) : txOut'[i] = txOut[i + 1]
      /\ echoed'[k + 1] = h /\ \A i \in 1..k : echoed'[i] = echoed[i]
  <2>1. h \in 0..MaxMsgs
    BY <1>1, <1>2, TailOnce
  <2>2. /\ n \in Nat /\ n >= 1 /\ h = txOut[1] /\ DOMAIN txOut = 1..n
        /\ DOMAIN txOut' = 1..(n - 1)
        /\ \A i \in 1..(n - 1) : txOut'[i] = txOut[i + 1]
    BY <1>1, <1>2
  <2>3. /\ k \in Nat /\ d \in Nat /\ DOMAIN echoed = 1..k /\ DOMAIN echoed' = 1..(k + 1)
        /\ echoed'[k + 1] = h /\ \A i \in 1..k : echoed'[i] = echoed[i]
    BY <1>1, <1>2, <2>1
  <2> QED
    BY <2>2, <2>3
<1> HIDE DEF n, k, h, d
<1>5. /\ \A i \in 1..(n - 1) : i + 1 \in 1..n /\ 1 < i + 1
      /\ \A i, j \in 1..(n - 1) : i < j => i + 1 < j + 1
      /\ 1 \in 1..n
      /\ \A i \in 1..(k + 1) : i \in 1..k \/ i = k + 1
      /\ \A i \in 1..k : ~(k + 1 < i)
      /\ ~(k + 1 < k + 1)
  BY <1>4
<1>6. \A i, j \in 1..(n - 1) : i < j => txOut'[i] < txOut'[j]
  BY <1>4, <1>5 DEF TxOrder, Increasing
<1>7. \A i, j \in 1..(k + 1) : i < j => echoed'[i] < echoed'[j]
  <2>1. \A i \in 1..k : echoed[i] < h
    <3>1. 1 \in DOMAIN txOut
      BY <1>4, <1>5
    <3>2. \A i \in DOMAIN echoed : echoed[i] < txOut[1]
      BY <3>1, Zenon DEF TxOrder
    <3> QED
      BY <1>4, <3>2
  <2>2. \A i, j \in 1..k : i < j => echoed[i] < echoed[j]
    BY <1>4 DEF TxOrder, Increasing
  <2> SUFFICES ASSUME NEW i \in 1..(k + 1), NEW j \in 1..(k + 1), i < j
               PROVE  echoed'[i] < echoed'[j]
    OBVIOUS
  <2>3. i \in 1..k
    BY <1>4
  <2>4. CASE j \in 1..k
    BY <1>4, <2>2, <2>3, <2>4
  <2>5. CASE j = k + 1
    BY <1>4, <2>1, <2>3, <2>5
  <2> QED
    BY <1>5, <2>4, <2>5
<1>8. \A i \in 1..(k + 1), j \in 1..(n - 1) : echoed'[i] < txOut'[j]
  <2>1. \A j \in 1..(n - 1) : h < txOut'[j]
    BY <1>4, <1>5 DEF TxOrder, Increasing
  <2>2. \A i \in 1..k, j \in 1..(n - 1) : echoed[i] < txOut'[j]
    BY <1>4, <1>5 DEF TxOrder
  <2> QED
    BY <1>4, <1>5, <2>1, <2>2
<1>9. \A i \in 1..(n - 1) : txOut'[i] <= d /\ (Answering => txOut'[i] < d)
  BY <1>4, <1>5 DEF TxOrder, d
<1>10. \A i \in 1..(k + 1) : echoed'[i] <= d /\ (Answering => echoed'[i] < d)
  BY <1>4, <1>5 DEF TxOrder, d
<1>11. Answering' = Answering
  BY <1>1 DEF Answering
<1>12. TxOrder'
  BY <1>1, <1>4, <1>6, <1>7, <1>8, <1>9, <1>10, <1>11 DEF TxOrder, Increasing, d
<1> QED
  BY <1>3, <1>12

\* A step that leaves the messages alone, and the task at hand with the same
\* one, or done with it.
LEMMA IdleOrder ==
  ASSUME RxOrder, TxOrder,
         UNCHANGED <<avail, msg, posted, cur, delivered, txOut, echoed>>,
         Fresh' = Fresh, Answering' => Answering
  PROVE  RxOrder' /\ TxOrder'
<1>1. RxOrder'
  BY DEF RxOrder
<1>2. TxOrder'
  BY DEF TxOrder, Increasing
<1> QED
  BY <1>1, <1>2

\* A step of the task.
LEMMA TaskOrder ==
  ASSUME Contexts = {"task"}, TypeInv, RxOrder, TxOrder, Callback("task") \/ Rx("task")
  PROVE  RxOrder' /\ TxOrder'
<1>1. "task" \in Contexts /\ pc \in [Contexts -> States]
  BY DEF TypeInv, CtxType
<1>2. CASE Callback("task")
  <2>1. /\ pc["task"] = "idle" /\ pc'["task"] = "wantGet"
        /\ UNCHANGED <<avail, msg, posted, cur, delivered, txOut, echoed>>
    BY <1>1, <1>2 DEF Callback, vring, tx
  <2>2. Fresh' = Fresh /\ (Answering' => Answering)
    BY <2>1 DEF Fresh, Answering
  <2> QED
    BY <2>1, <2>2, IdleOrder
<1>3. CASE Acquire("task")
  <2>1. PICK s \in DOMAIN Section : pc["task"] = Section[s] /\ pc' = [pc EXCEPT !["task"] = s]
    BY <1>3 DEF Acquire
  <2>2. UNCHANGED <<avail, msg, posted, cur, delivered, txOut, echoed>>
    BY <1>3 DEF Acquire, vring, tx
  <2>3. pc'["task"] = s
    BY <1>1, <2>1
  <2>4. Fresh' = Fresh /\ (Answering' => Answering)
    BY <2>1, <2>3 DEF Fresh, Answering, Section
  <2> QED
    BY <2>2, <2>4, IdleOrder
<1>4. CASE Get("task") \/ Return("task")
  <2>1. /\ pc["task"] \in {"get", "ret"} /\ NextBuffer("task")
        /\ UNCHANGED <<msg, posted, delivered, txOut, echoed>>
    BY <1>4 DEF Get, Return, tx
  <2>2. ~Fresh
    BY <2>1 DEF Fresh
  <2>3. RxOrder'
    BY <2>1, <2>2, TakeOrder
  <2>4. pc'["task"] \in {"idle", "wantFind"}
    BY <1>1, <2>1 DEF NextBuffer
  <2>5. ~Answering'
    BY <2>4 DEF Answering
  <2>6. TxOrder'
    BY <2>1, <2>5 DEF TxOrder, Increasing
  <2> QED
    BY <2>3, <2>6
<1>5. CASE Find("task")
  <2>1. /\ pc["task"] = "find" /\ pc'["task"] = "cb"
        /\ UNCHANGED <<avail, msg, posted, cur, delivered, txOut, echoed>>
    BY <1>1, <1>5 DEF Find, vring, tx
  <2>2. Fresh' = Fresh /\ (Answering' => Answering)
    BY <2>1 DEF Fresh, Answering
  <2> QED
    BY <2>1, <2>2, IdleOrder
<1>6. CASE \E hold, ok \in BOOLEAN : EptCb("task", hold, ok)
  BY <1>6, DeliverOrder
<1>7. CASE GetTx("task")
  <2>1. /\ pc["task"] = "tx"
        /\ UNCHANGED <<avail, msg, posted, cur, delivered, txOut, echoed>>
    BY <1>7 DEF GetTx, vring
  <2>2. pc'["task"] \in {"wantSend", "wantTx", "wantRet"}
    BY <1>1, <1>7 DEF GetTx
  <2>3. Fresh' = Fresh /\ (Answering' => Answering)
    BY <2>1, <2>2 DEF Fresh, Answering
  <2> QED
    BY <2>1, <2>3, IdleOrder
<1>8. CASE Send("task")
  BY <1>8, SendOrder
<1> QED
  BY <1>2, <1>3, <1>4, <1>5, <1>6, <1>7, <1>8 DEF Rx

\* Every step keeps the order.
LEMMA OrderStep ==
  ASSUME Contexts = {"task"}, TypeInv, OwnerInv, RxOrder, TxOrder, [Next]_vars
  PROVE  RxOrder' /\ TxOrder'
<1>1. CASE \E b \in Bufs : LinuxPost(b)
  <2>1. RxOrder'
    BY <1>1, PostOrder
  <2>2. UNCHANGED <<pc, delivered, txOut, echoed>>
    BY <1>1 DEF LinuxPost, tx
  <2>3. TxOrder'
    BY <2>2 DEF TxOrder, Increasing, Answering
  <2> QED
    BY <2>1, <2>3
<1>2. ASSUME UNCHANGED <<avail, msg, posted, pc, cur, delivered, txOut, echoed>>
      PROVE  RxOrder' /\ TxOrder'
  <2>1. Fresh' = Fresh /\ Answering' = Answering
    BY <1>2 DEF Fresh, Answering
  <2> QED
    BY <1>2, <2>1, IdleOrder
<1>3. CASE LinuxReap
  BY <1>2, <1>3 DEF LinuxReap, tx
<1>4. CASE LinuxReadEcho
  BY <1>4, EchoOrder
<1>5. CASE \E c \in Contexts : Callback(c) \/ Rx(c)
  BY <1>5, TaskOrder
<1>6. CASE \E b \in Bufs : AppAcquire(b)
  BY <1>2, <1>6 DEF AppAcquire, vring, tx
<1>7. CASE AppRelease
  BY <1>2, <1>7 DEF AppRelease, tx
<1>8. CASE UNCHANGED vars
  BY <1>2, <1>8 DEF vars, vring, tx
<1> QED
  BY <1>1, <1>3, <1>4, <1>5, <1>6, <1>7, <1>8 DEF Next

\* Nothing is posted yet.
LEMMA OrderInit ==
  ASSUME Contexts = {"task"}, Init
  PROVE  RxOrder /\ TxOrder
<1>1. /\ avail = <<>> /\ delivered = <<>> /\ txOut = <<>> /\ echoed = <<>>
      /\ posted = 0 /\ pc["task"] = "idle"
  BY DEF Init
<1>2. ~Fresh /\ ~Answering
  BY <1>1 DEF Fresh, Answering
<1>3. RxOrder
  BY <1>1, <1>2 DEF RxOrder
<1>4. TxOrder
  BY <1>1, <1>2 DEF TxOrder, Increasing
<1> QED
  BY <1>3, <1>4

\* With the task alone in rpmsg_virtio_rx_callback, the endpoint gets every
\* message once, in the order in which Linux posted them, and the echoes go out
\* and are read in that order, whichever of them were dropped for want of a
\* buffer and whichever buffers were held.  With the handler as a second
\* context a message would overtake the one the task is about to deliver.
THEOREM MessagesInOrder ==
  ~EarlyRelease /\ Contexts = {"task"} => (Spec => []InOrder)
<1> SUFFICES ASSUME ~EarlyRelease, Contexts = {"task"} PROVE Spec => []InOrder
  OBVIOUS
<1>1. Init => RxOrder /\ TxOrder
  BY OrderInit
<1>2. TypeInv /\ OwnerInv /\ RxOrder /\ TxOrder /\ [Next]_vars
        => RxOrder' /\ TxOrder'
  BY OrderStep
<1>3. RxOrder /\ TxOrder => InOrder
  BY DEF RxOrder, TxOrder, Increasing, InOrder
<1>4. Spec => [](TypeInv /\ OwnerInv)
  BY OwnerInvariant
<1> QED
  BY <1>1, <1>2, <1>3, <1>4, PTL DEF Spec

=============================================================================
