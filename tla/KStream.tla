------------------------------ MODULE KStream -------------------------------
(***************************************************************************)
(* Stream buffers and message buffers of stream_buffer.c, for one writer   *)
(* and one reader, each a task or an interrupt.  They take no lock: the    *)
(* writer moves xHead and the reader xTail, and who has to wait leaves its *)
(* handle in the buffer and waits for a notification.                      *)
(*                                                                         *)
(* A cell holds a byte, or the length in front of a message (a size_t,     *)
(* written and read in one piece).  A step goes from one access to the     *)
(* buffer that the other side can see to the next.                         *)
(***************************************************************************)
EXTENDS KEvents

\* The buffer, and as a ghost the cells written and not yet read.
SInit ==
  sb = [s \in Streams |->
         [head |-> 0, tail |-> 0, buf |-> [i \in 0 .. xLength[s] - 1 |-> 0],
          rx |-> Null, tx |-> Null, log |-> <<>>]]

\* sbBYTES_TO_STORE_MESSAGE_LENGTH, in cells.
Header(s) == IF s \in Messages THEN 1 ELSE 0

Wrap(s, n) == IF n >= xLength[s] THEN n - xLength[s] ELSE n

\* Mutant of xStreamBufferSpacesAvailable: the cell that is never used counts.
EveryCell(s) == 1 + Wrap(s, xLength[s] + sb[s].tail - sb[s].head - 1)

xStreamBufferSpacesAvailable(s) == Wrap(s, xLength[s] + sb[s].tail - sb[s].head - 1)
prvBytesInBuffer(s) == Wrap(s, xLength[s] + sb[s].head - sb[s].tail)

prvWriteBytesToBuffer(s, b, cells) ==
  [b EXCEPT
     !.buf = [i \in DOMAIN @ |->
                LET k == (i - b.head) % xLength[s]
                IN IF k < Len(cells) THEN cells[k + 1] ELSE @[i]],
     !.head = Wrap(s, @ + Len(cells)),
     !.log = @ \o cells]

prvReadBytesFromBuffer(s, b, n) ==
  [b EXCEPT !.tail = Wrap(s, @ + n), !.log = SubSeq(@, n + 1, Len(@))]

Data(c, n) == [i \in 1 .. n |-> c.val]
Least(x, y) == IF x < y THEN x ELSE y

Store(s, b) == sb' = [sb EXCEPT ![s] = b]

\* The cells a send needs, and those it writes if space of them are free.
Required(c) ==
  IF c.obj \in Messages THEN c.len + 1 ELSE Least(c.len, xLength[c.obj] - 1)
Writes(c, space) ==
  IF c.obj \in Messages THEN IF space >= Required(c) THEN c.len ELSE 0
  ELSE Least(c.len, space)

\* Mutant of Triggered: one more than the trigger level.
TriggeredAbove(s, b) == Wrap(s, xLength[s] + b.head - b.tail) > xTriggerLevelBytes[s]

Triggered(s, b) == Wrap(s, xLength[s] + b.head - b.tail) >= xTriggerLevelBytes[s]

\* xTaskNotifyStateClear.
StateClear(t) == [K EXCEPT !.nstate[t] = IF @ = "received" THEN "not" ELSE @]

(* ------------------------------- sending ------------------------------ *)

StreamVars == <<wl, queueVars, bits>>

\* A message that never fits is not waited for.
StreamSend(t) ==
  LET c    == L[t].call
      wait == IF c.obj \in Messages /\ Required(c) > xLength[c.obj] - 1 THEN 0 ELSE c.n
  IN /\ At(t, "ssend")
     /\ L' = [L EXCEPT ![t].pc = IF wait = 0 THEN "swrite" ELSE "sspace",
                       ![t].wait = wait, ![t].set = wait # 0, ![t].tmo = Now(t)]
     /\ UNCHANGED <<StreamVars, K, age, sb>>

\* The critical section of the loop: enough space, or register as waiting.
SendLook(t) ==
  LET c     == L[t].call
      space == xStreamBufferSpacesAvailable(c.obj)
  IN /\ At(t, "sspace")
     /\ L' = [L EXCEPT ![t].pc = IF space >= Required(c) THEN "swrite" ELSE "swait",
                       ![t].num = space]
     /\ \/ space >= Required(c) /\ UNCHANGED <<K, sb>>
        \/ /\ space < Required(c)
           /\ K' = StateClear(t)
           /\ Store(c.obj, [sb[c.obj] EXCEPT !.tx = t])
     /\ UNCHANGED <<StreamVars, age>>

\* xTaskNotifyWait of either side, its two critical sections.
StreamWait(t) ==
  /\ L[t].pc \in {"swait", "rwait"} /\ At(t, L[t].pc)
  /\ K' = NotifyBlock(K, K.nstate[t] # "received", L[t].wait)
  /\ Goto(t, IF L[t].pc = "swait" THEN "swait2" ELSE "rwait2")
  /\ UNCHANGED <<StreamVars, sb>>

StreamWoken(t) ==
  /\ L[t].pc \in {"swait2", "rwait2"} /\ At(t, L[t].pc)
  /\ K' = [K EXCEPT !.nstate[t] = "not"]
  /\ Goto(t, IF L[t].pc = "swait2" THEN "sclear" ELSE "rclear")
  /\ UNCHANGED <<StreamVars, sb>>

\* Not waiting any more; and round again unless the time is up.
SendClear(t) ==
  LET late == TimedOut(L[t].tmo, L[t].wait)
  IN /\ At(t, "sclear")
     /\ Store(L[t].call.obj, [sb[L[t].call.obj] EXCEPT !.tx = Null])
     /\ L' = [L EXCEPT ![t] = [xTaskCheckForTimeOut(t) EXCEPT
                                 !.pc = IF late THEN "swrite" ELSE "sspace"]]
     /\ UNCHANGED <<StreamVars, K, age>>

\* prvWriteMessageToBuffer: nothing, or the length of a message, before the
\* data.  The space is the one seen last, which may have grown.
SendStart(t) ==
  LET c     == L[t].call
      s     == c.obj
      space == IF L[t].num = 0 THEN xStreamBufferSpacesAvailable(s) ELSE L[t].num
      n     == Writes(c, space)
  IN /\ At(t, "swrite")
     /\ \/ /\ n = 0
           /\ IF L[t].set THEN Expire(t) ELSE Return(t)
           /\ UNCHANGED sb
        \/ /\ n # 0
           /\ L' = [L EXCEPT ![t].pc = "sdata", ![t].len = n] /\ UNCHANGED age
           /\ IF s \in Messages THEN Store(s, prvWriteBytesToBuffer(s, sb[s], <<n>>))
              ELSE UNCHANGED sb
     /\ UNCHANGED <<StreamVars, K>>

SendData(t) ==
  LET c == L[t].call
  IN /\ At(t, "sdata")
     /\ Store(c.obj, prvWriteBytesToBuffer(c.obj, sb[c.obj], Data(c, L[t].len)))
     /\ Goto(t, "strig")
     /\ UNCHANGED <<StreamVars, K>>

SendTrigger(t) ==
  LET s == L[t].call.obj
  IN /\ At(t, "strig")
     /\ IF Triggered(s, sb[s]) THEN Goto(t, "ssusp") ELSE Return(t)
     /\ UNCHANGED <<StreamVars, K, sb>>

\* sbSEND_COMPLETED and sbRECEIVE_COMPLETED: suspend the scheduler, notify who
\* waits at the other end, resume.
Completed(t) ==
  /\ At(t, "ssusp")
  /\ K' = vTaskSuspendAll(K)
  /\ Goto(t, "snotify")
  /\ UNCHANGED <<StreamVars, sb>>

CompletedNotify(t) ==
  LET c    == L[t].call
      b    == sb[c.obj]
      peer == IF c.op = "ssend" THEN b.rx ELSE b.tx
  IN /\ At(t, "snotify")
     /\ K' = IF peer = Null THEN K ELSE xTaskGenericNotify(K, peer, "none", 0)
     /\ Store(c.obj, IF c.op = "ssend" THEN [b EXCEPT !.rx = Null] ELSE [b EXCEPT !.tx = Null])
     /\ Goto(t, "resume")
     /\ UNCHANGED StreamVars

(* ------------------------------ receiving ----------------------------- *)

\* Mutant of Something: a length alone is taken for a message.
AnyCell(s, n) == n > 0

\* A byte, or more than the length of a message.
Something(s, n) == n > Header(s)

StreamReceive(t) ==
  LET c == L[t].call
      n == prvBytesInBuffer(c.obj)
  IN /\ At(t, "srecv")
     /\ \/ /\ c.n = 0 \/ Something(c.obj, n)
           /\ L' = [L EXCEPT ![t].pc = "sread", ![t].num = n]
           /\ UNCHANGED <<K, sb>>
        \/ /\ c.n # 0 /\ ~Something(c.obj, n)
           /\ K' = StateClear(t)
           /\ Store(c.obj, [sb[c.obj] EXCEPT !.rx = t])
           /\ L' = [L EXCEPT ![t].pc = "rwait"]
     /\ UNCHANGED <<StreamVars, age>>

ReceiveClear(t) ==
  LET s == L[t].call.obj
  IN /\ At(t, "rclear")
     /\ Store(s, [sb[s] EXCEPT !.rx = Null])
     /\ Goto(t, "ravail")
     /\ UNCHANGED <<StreamVars, K>>

ReceiveLook(t) ==
  /\ At(t, "ravail")
  /\ L' = [L EXCEPT ![t].pc = "sread", ![t].num = prvBytesInBuffer(L[t].call.obj)]
  /\ UNCHANGED <<StreamVars, K, age, sb>>

\* prvReadMessageFromBuffer: nothing there; or the length of the message is
\* read, and put back if the message does not fit.
ReceiveStart(t) ==
  LET c == L[t].call
      s == c.obj
      b == sb[s]
      n == IF s \in Messages THEN b.buf[b.tail] ELSE Least(L[t].num, c.len)
  IN /\ At(t, "sread")
     /\ \/ ~Something(s, L[t].num) /\ Return(t) /\ UNCHANGED sb
        \/ /\ Something(s, L[t].num)
           /\ Store(s, prvReadBytesFromBuffer(s, b, Header(s)))
           /\ L' = [L EXCEPT ![t].pc = IF n > c.len THEN "srestore" ELSE "sdrain",
                             ![t].len = n, ![t].num = @ - Header(s)]
           /\ UNCHANGED age
     /\ UNCHANGED <<StreamVars, K>>

ReceiveData(t) ==
  LET s == L[t].call.obj
  IN /\ At(t, "sdrain")
     /\ Store(s, prvReadBytesFromBuffer(s, sb[s], Least(L[t].len, L[t].num)))
     /\ Goto(t, "ssusp")
     /\ UNCHANGED <<StreamVars, K>>

\* xStreamBufferNextMessageLengthBytes reads the length and puts it back.
NextLength(t) ==
  LET s == L[t].call.obj
      b == sb[s]
  IN /\ At(t, "snext")
     /\ IF s \in Messages /\ Something(s, prvBytesInBuffer(s))
        THEN /\ Store(s, prvReadBytesFromBuffer(s, b, 1))
             /\ L' = [L EXCEPT ![t].pc = "srestore", ![t].len = b.buf[b.tail]]
             /\ UNCHANGED age
        ELSE Return(t) /\ UNCHANGED sb
     /\ UNCHANGED <<StreamVars, K>>

PutBack(t) ==
  LET s == L[t].call.obj
  IN /\ At(t, "srestore")
     /\ Store(s, [sb[s] EXCEPT !.tail = (@ - 1) % xLength[s], !.log = <<L[t].len>> \o @])
     /\ Return(t)
     /\ UNCHANGED <<StreamVars, K>>

\* xStreamBufferReset, unless a task waits.
StreamReset(t) ==
  LET s == L[t].call.obj
  IN /\ At(t, "sreset")
     /\ IF sb[s].rx = Null /\ sb[s].tx = Null
        THEN Store(s, [sb[s] EXCEPT !.head = 0, !.tail = 0, !.log = <<>>])
        ELSE UNCHANGED sb
     /\ Return(t)
     /\ UNCHANGED <<StreamVars, K>>

(* ----------------------------- interrupts ----------------------------- *)

\* Who waits is notified and taken out, as the macros _FROM_ISR do.
Told(t) ==
  IF t = Null THEN [k |-> K, higher |-> FALSE] ELSE xTaskGenericNotifyFromISR(K, t, "none", 0)

IsrStreamSend(c) ==
  LET s     == c.obj
      n     == Writes(c, xStreamBufferSpacesAvailable(s))
      cells == IF s \in Messages THEN <<n>> \o Data(c, n) ELSE Data(c, n)
      b     == prvWriteBytesToBuffer(s, sb[s], cells)
  IN /\ c \in wl.isr /\ c.op = "ssend" /\ n # 0
     /\ IF Triggered(s, b) THEN FromISR(Told(b.rx)) /\ Store(s, [b EXCEPT !.rx = Null])
        ELSE UNCHANGED K /\ Store(s, b)
     /\ UNCHANGED <<StreamVars, L, age>>

IsrStreamReceive(c) ==
  LET s     == c.obj
      b     == sb[s]
      avail == prvBytesInBuffer(s)
      n     == IF s \in Messages THEN b.buf[b.tail] ELSE Least(avail, c.len)
  IN /\ c \in wl.isr /\ c.op = "srecv" /\ Something(s, avail) /\ n <= c.len
     /\ FromISR(Told(b.tx))
     /\ Store(s, [prvReadBytesFromBuffer(s, b, Header(s) + Least(n, avail - Header(s))) EXCEPT !.tx = Null])
     /\ UNCHANGED <<StreamVars, L, age>>

StreamStep(t) ==
  \/ StreamSend(t) \/ SendLook(t) \/ StreamWait(t) \/ StreamWoken(t) \/ SendClear(t)
  \/ SendStart(t) \/ SendData(t) \/ SendTrigger(t) \/ Completed(t) \/ CompletedNotify(t)
  \/ StreamReceive(t) \/ ReceiveClear(t) \/ ReceiveLook(t) \/ ReceiveStart(t)
  \/ ReceiveData(t) \/ NextLength(t) \/ PutBack(t) \/ StreamReset(t)
=============================================================================
