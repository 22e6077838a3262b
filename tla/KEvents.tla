------------------------------ MODULE KEvents -------------------------------
(***************************************************************************)
(* Event groups of event_groups.c.  The bits are a set.  What a waiter     *)
(* waits for, and later why it was woken, is the value of its event item.  *)
(* No interrupt touches a group: the scheduler is suspended instead of     *)
(* interrupts being masked, so a stretch with it suspended is one step.    *)
(***************************************************************************)
EXTENDS KQueue

EInit == bits = [g \in Groups |-> {}]

prvTestWaitCondition(now, wanted, all) ==
  IF all THEN wanted \subseteq now ELSE wanted \cap now # {}

Wanted(t) == K.evbits[t]
Met(t, now) == prvTestWaitCondition(now, Wanted(t).bits, Wanted(t).all)

\* Mutant of Satisfied: the walk over the list ends at the first.
FirstSatisfied(l, now) ==
  LET met == SelectSeq(K.ev[l], LAMBDA t : Met(t, now)) 
  IN IF met = <<>> THEN met ELSE <<Head(met)>>

Satisfied(l, now) == SelectSeq(K.ev[l], LAMBDA t : Met(t, now))

\* xEventGroupSetBits: every waiter whose condition holds is woken; the bits
\* they clear are cleared after all of them were looked at.
xEventGroupSetBits(g, b) ==
  LET l   == <<g, "bits">>
      now == bits[g] \cup b
      met == Satisfied(l, now)
      Wake(k, t) == vTaskRemoveFromUnorderedEventList(
                      k, t, [NotInUse EXCEPT !.bits = now, !.set = TRUE])
      gone == UNION { Wanted(met[i]).bits : i \in { j \in DOMAIN met : Wanted(met[j]).clear } }
  IN [k |-> FoldLeft(Wake, K, met), bits |-> now \ gone]

SetBits(t) ==
  LET c == L[t].call
      r == xEventGroupSetBits(c.obj, c.bits)
  IN /\ At(t, "sbits")
     /\ K' = r.k /\ bits' = [bits EXCEPT ![c.obj] = r.bits]
     /\ Goto(t, "resume")
     /\ UNCHANGED <<wl, queueVars, sb>>

ClearBits(t) ==
  LET c == L[t].call
  IN /\ At(t, "cbits")
     /\ bits' = [bits EXCEPT ![c.obj] = @ \ c.bits]
     /\ Return(t)
     /\ UNCHANGED <<wl, K, queueVars, sb>>

Block(t, k, wanted, clear, all) ==
  /\ K' = vTaskPlaceOnUnorderedEventList(
            k, <<L[t].call.obj, "bits">>,
            [NotInUse EXCEPT !.bits = wanted, !.clear = clear, !.all = all], L[t].wait)
  /\ L' = [L EXCEPT ![t].pc = "resume", ![t].out = "waited"]

\* xEventGroupWaitBits, up to xTaskResumeAll.
WaitBits(t) ==
  LET c   == L[t].call
      met == prvTestWaitCondition(bits[c.obj], c.bits, c.all)
  IN /\ At(t, "wbits")
     /\ \/ /\ met
           /\ bits' = [bits EXCEPT ![c.obj] = IF c.clear THEN @ \ c.bits ELSE @]
           /\ L' = [L EXCEPT ![t].pc = "resume"] /\ UNCHANGED K
        \/ /\ ~met /\ c.n = 0
           /\ L' = [L EXCEPT ![t].pc = "resume", ![t].out = "expired"]
           /\ UNCHANGED <<K, bits>>
        \/ /\ ~met /\ c.n # 0
           /\ Block(t, K, c.bits, c.clear, c.all) /\ UNCHANGED bits
     /\ UNCHANGED <<wl, age, queueVars, sb>>

\* xEventGroupSync, up to xTaskResumeAll: sets its own bits, then waits for all.
Sync(t) ==
  LET c    == L[t].call
      r    == xEventGroupSetBits(c.obj, c.bits)
      here == bits[c.obj] \cup c.bits
  IN /\ At(t, "sync")
     /\ \/ /\ c.rest \subseteq here
           /\ bits' = [bits EXCEPT ![c.obj] = r.bits \ c.rest]
           /\ K' = r.k
           /\ L' = [L EXCEPT ![t].pc = "resume"]
        \/ /\ ~(c.rest \subseteq here)
           /\ bits' = [bits EXCEPT ![c.obj] = r.bits]
           /\ IF c.n = 0
              THEN K' = r.k /\ L' = [L EXCEPT ![t].pc = "resume", ![t].out = "expired"]
              ELSE Block(t, r.k, c.rest, TRUE, TRUE)
     /\ UNCHANGED <<wl, age, queueVars, sb>>

\* After the wait: uxTaskResetEventItemValue says why the task was woken.
WokenUp(t) ==
  /\ At(t, "woken")
  /\ K' = uxTaskResetEventItemValue(K, t)
  /\ IF Wanted(t).set THEN Return(t) ELSE Goto(t, "wcheck")
  /\ UNCHANGED <<wl, queueVars, bits, sb>>

\* Not by the bits: the condition may have come true since the time was up.
LastLook(t) ==
  LET c      == L[t].call
      wanted == IF c.op = "sync" THEN c.rest ELSE c.bits
      all    == c.op = "sync" \/ c.all
      clear  == c.op = "sync" \/ c.clear
      met    == prvTestWaitCondition(bits[c.obj], wanted, all)
  IN /\ At(t, "wcheck")
     /\ bits' = [bits EXCEPT ![c.obj] = IF met /\ clear THEN @ \ wanted ELSE @]
     /\ IF met THEN Return(t) ELSE Expire(t)
     /\ UNCHANGED <<wl, K, queueVars, sb>>

EventStep(t) ==
  SetBits(t) \/ ClearBits(t) \/ WaitBits(t) \/ Sync(t) \/ WokenUp(t) \/ LastLook(t)
=============================================================================
