-------------------------- MODULE RprocLoadProofs --------------------------
(***************************************************************************)
(* Proofs about RprocLoad, for every set of images, whatever their program *)
(* headers, up to the number that the next-segment field of the load state *)
(* can count, and wherever their headers lie: the segments are loaded once *)
(* each and in order, the resource table is found, and every way out gives *)
(* back what the call took.                                                *)
(***************************************************************************)
EXTENDS RprocLoad, WellFoundedInduction, SequenceTheorems, TLAPS

-----------------------------------------------------------------------------
(* The functions of the ELF loader.                                        *)

WaitSet == {"ehdr", "phdrs", "shdrs", "shstrtab"}
LoadState == [hdr : 1..5, loader : States, seg : 0..SEGMENTS - 1]

\* The headers and stages as sets.
LEMMA StagesAre ==
  /\ DOMAIN Stages = 1..5 /\ DOMAIN Waits = 1..4
  /\ {Waits[i] : i \in DOMAIN Waits} = WaitSet
  /\ \A i \in 1..4 : Waits[i] \in WaitSet
BY DEF Stages, Waits, WaitSet

\* The program headers of an image are counted by the next-segment field.
LEMMA ImageIs ==
  ASSUME NEW im \in Images
  PROVE  /\ SEGMENTS \in Nat /\ Len(im.ph) \in Nat /\ Len(im.ph) >= 1
         /\ Len(im.ph) < SEGMENTS
         /\ DOMAIN im.ph = 1..Len(im.ph)
<1>1. /\ SEGMENTS \in Nat /\ im.ph \in Seq({"load", "bss", "other"})
      /\ Len(im.ph) \in 1..SEGMENTS - 1
  BY RprocLoadAssumption
<1> QED
  BY <1>1, LenProperties

\* elf_load_header stops at the first header it lacks: the stage never goes
\* back, no header is asked for when all are there, the next segment stays, and
\* only a loader that was not ready becomes so.
LEMMA HeaderStep ==
  ASSUME NEW im, NEW s \in LoadState, NEW w
  PROVE  LET h == ElfLoadHeader(im, s, w)
         IN /\ h.state \in LoadState
            /\ h.state.seg = s.seg /\ h.state.hdr >= s.hdr
            /\ \/ h.state.loader = s.loader
               \/ s.loader = "not_ready" /\ h.state.loader = "ready"
            /\ h.taken \subseteq WaitSet
            /\ h.wants \in WaitSet \cup {"none"}
            /\ h.wants = "none" => h.state.hdr = 5
<1> DEFINE Stop(i) == /\ i = Complete \/ ~Passes(im, w, i)
                      /\ \A j \in s.hdr..i - 1 : Passes(im, w, j)
           stop == CHOOSE i \in s.hdr..Complete : Stop(i)
           h == ElfLoadHeader(im, s, w)
<1>1. s.hdr \in 1..5 /\ s.loader \in States /\ s.seg \in 0..SEGMENTS - 1
  BY DEF LoadState
<1>2. \E i \in s.hdr..Complete : Stop(i)
  <2> DEFINE P(i) == Passes(im, w, i)
  <2> HIDE DEF P
  <2>1. \E i \in s.hdr..5 : /\ i = 5 \/ ~P(i)
                            /\ \A j \in s.hdr..i - 1 : P(j)
    <3>1. CASE s.hdr = 5
      <4>1. 5 \in s.hdr..5 /\ \A j \in s.hdr..5 - 1 : P(j)
        BY <3>1
      <4> QED
        BY <4>1
    <3>2. CASE s.hdr = 4
      <4>1. /\ 4 \in s.hdr..5 /\ 5 \in s.hdr..5 /\ ~(\E j \in s.hdr..4 - 1 : TRUE)
            /\ \A j \in s.hdr..5 - 1 : j = 4
        BY <3>2
      <4> QED
        BY <4>1
    <3>3. CASE s.hdr = 3
      <4>1. /\ 3 \in s.hdr..5 /\ 4 \in s.hdr..5 /\ 5 \in s.hdr..5
            /\ ~(\E j \in s.hdr..3 - 1 : TRUE)
            /\ \A j \in s.hdr..4 - 1 : j = 3
            /\ \A j \in s.hdr..5 - 1 : j = 3 \/ j = 4
        BY <3>3
      <4> QED
        BY <4>1
    <3>4. CASE s.hdr = 2
      <4>1. /\ 2 \in s.hdr..5 /\ 3 \in s.hdr..5 /\ 4 \in s.hdr..5 /\ 5 \in s.hdr..5
            /\ ~(\E j \in s.hdr..2 - 1 : TRUE)
            /\ \A j \in s.hdr..3 - 1 : j = 2
            /\ \A j \in s.hdr..4 - 1 : j = 2 \/ j = 3
            /\ \A j \in s.hdr..5 - 1 : j = 2 \/ j = 3 \/ j = 4
        BY <3>4
      <4> QED
        BY <4>1
    <3>5. CASE s.hdr = 1
      <4>1. /\ 1 \in s.hdr..5 /\ 2 \in s.hdr..5 /\ 3 \in s.hdr..5 /\ 4 \in s.hdr..5
            /\ 5 \in s.hdr..5
            /\ ~(\E j \in s.hdr..1 - 1 : TRUE)
            /\ \A j \in s.hdr..2 - 1 : j = 1
            /\ \A j \in s.hdr..3 - 1 : j = 1 \/ j = 2
            /\ \A j \in s.hdr..4 - 1 : j = 1 \/ j = 2 \/ j = 3
            /\ \A j \in s.hdr..5 - 1 : j = 1 \/ j = 2 \/ j = 3 \/ j = 4
        BY <3>5
      <4> QED
        BY <4>1
    <3> QED
      BY <1>1, <3>1, <3>2, <3>3, <3>4, <3>5
  <2> QED
    BY <2>1 DEF P, Complete
<1>3. stop \in s.hdr..5
  BY <1>2, Zenon DEF Complete
<1>4. /\ h.state = [s EXCEPT !.hdr = stop,
                             !.loader = IF @ = "not_ready" /\ stop >= 3 THEN "ready" ELSE @]
      /\ h.taken = {Waits[i] : i \in {j \in s.hdr..stop - 1 : j < 3 \/ im.sections}}
      /\ h.wants = IF stop = Complete THEN "none" ELSE Waits[stop]
  BY DEF ElfLoadHeader
<1> HIDE DEF stop, h
<1>5. /\ h.state.hdr = stop /\ h.state.seg = s.seg
      /\ h.state.loader = IF s.loader = "not_ready" /\ stop >= 3 THEN "ready" ELSE s.loader
      /\ h.state = [hdr |-> stop, loader |-> h.state.loader, seg |-> s.seg]
  BY <1>4 DEF LoadState
<1>6. \/ h.state.loader = s.loader
      \/ s.loader = "not_ready" /\ h.state.loader = "ready"
  BY <1>5
<1>7. h.state.loader \in States
  BY <1>1, <1>6 DEF States
<1>8. stop \in 1..5 /\ stop >= s.hdr
  BY <1>1, <1>3
<1>9. h.state \in LoadState
  BY <1>1, <1>5, <1>7, <1>8 DEF LoadState
<1>10. h.taken \subseteq WaitSet
  <2>1. \A i \in s.hdr..stop - 1 : i \in 1..4
    BY <1>1, <1>3
  <2> QED
    BY <1>4, <2>1, StagesAre
<1>11. h.wants \in WaitSet \cup {"none"} /\ (h.wants = "none" => stop = 5)
  <2>1. CASE stop = 5
    BY <1>4, <2>1 DEF Complete
  <2>2. CASE stop # 5
    <3>1. stop \in 1..4
      BY <1>8, <2>2
    <3>2. h.wants = Waits[stop]
      BY <1>4, <2>2 DEF Complete
    <3> QED
      BY <3>1, <3>2, StagesAre DEF WaitSet
  <2> QED
    BY <2>1, <2>2
<1> QED
  BY <1>5, <1>6, <1>8, <1>9, <1>10, <1>11 DEF h

\* elf_load finds the next PT_LOAD header, or none up to the last header; the
\* next-segment field counts them without wrapping.
LEMMA SegmentStep ==
  ASSUME NEW im \in Images, NEW s \in LoadState, s.seg <= Len(im.ph)
  PROVE  LET d == ElfLoadSegment(im, s)
             n == Len(im.ph)
         IN \/ /\ d.segment = 0 /\ d.da = (s.seg < n)
               /\ d.state = [s EXCEPT !.seg = n]
               /\ \A k \in s.seg + 1..n : im.ph[k] = "other"
            \/ /\ d.segment \in s.seg + 1..n /\ d.da = TRUE
               /\ d.state = [s EXCEPT !.seg = d.segment,
                                      !.loader = IF d.segment = n THEN "post" ELSE @]
               /\ im.ph[d.segment] # "other"
               /\ \A k \in s.seg + 1..d.segment - 1 : im.ph[k] = "other"
<1> DEFINE d == ElfLoadSegment(im, s)
           n == Len(im.ph)
           next == NextSegments(im, s)
           least == CHOOSE k \in next : \A l \in next : k <= l
<1>1. n \in Nat /\ n < SEGMENTS /\ SEGMENTS \in Nat
  BY ImageIs
<1>2. s.seg \in 0..n
  BY <1>1 DEF LoadState
<1>3. \A k \in 0..n : k % SEGMENTS = k
  BY <1>1
<1>4. \A k \in s.seg + 1..n : k \in next <=> im.ph[k] # "other"
  BY DEF NextSegments
<1>5. next \subseteq s.seg + 1..n
  BY DEF NextSegments
<1>6. CASE next = {}
  <2>1. /\ d.segment = 0 /\ d.da = (s.seg < n)
        /\ d.state = [s EXCEPT !.seg = n % SEGMENTS]
    BY <1>6 DEF ElfLoadSegment
  <2>2. n % SEGMENTS = n
    <3> HIDE DEF n
    <3>1. n \in 0..n
      BY <1>1
    <3> QED
      BY <1>3, <3>1
  <2> QED
    BY <1>4, <1>6, <2>1, <2>2
<1>7. CASE next # {}
  <2>1. /\ d.segment = least /\ d.da = TRUE
        /\ d.state = [s EXCEPT !.seg = least % SEGMENTS,
                               !.loader = IF least = n THEN "post" ELSE @]
    BY <1>7 DEF ElfLoadSegment
  <2>2. least \in next /\ \A l \in next : least <= l
    <3> HIDE DEF next
    <3>1. next \subseteq Nat
      BY <1>2, <1>5
    <3>2. PICK x \in next : \A y \in next : ~(<<y, x>> \in OpToRel(<, Nat))
      BY <1>7, <3>1, NatLessThanWellFounded, WFMin
    <3>3. \A y \in next : ~(y < x)
      BY <3>1, <3>2 DEF OpToRel
    <3>4. \A y \in next : x <= y
      BY <3>1, <3>3
    <3> QED
      BY <3>4
  <2> HIDE DEF least, next, d, n
  <2>3. least \in s.seg + 1..n /\ least \in 0..n
    BY <1>1, <1>2, <1>5, <2>2
  <2>4. least % SEGMENTS = least
    BY <1>3, <2>3
  <2>5. im.ph[least] # "other"
    BY <1>4, <2>2, <2>3
  <2>6. \A k \in s.seg + 1..least - 1 : im.ph[k] = "other"
    <3> SUFFICES ASSUME NEW k \in s.seg + 1..least - 1 PROVE im.ph[k] = "other"
      OBVIOUS
    <3>1. k \in s.seg + 1..n /\ ~(least <= k)
      BY <1>1, <1>2, <2>3
    <3> QED
      BY <1>4, <2>2, <3>1
  <2>7. d.state = [s EXCEPT !.seg = least, !.loader = IF least = n THEN "post" ELSE @]
    BY <2>1, <2>4
  <2> QED
    BY <2>1, <2>3, <2>5, <2>6, <2>7 DEF d, n
<1> QED
  BY <1>6, <1>7

\* What a call of elf_load_header, or of elf_load after the segments, may do to
\* the load state.
HeaderMove(s, t) ==
  /\ t \in LoadState /\ t.seg = s.seg /\ t.hdr >= s.hdr
  /\ \/ t.loader = s.loader
     \/ s.loader = "not_ready" /\ t.loader = "ready"
     \/ s.loader = "post" /\ t.loader = "complete"

\* It does so for every header at hand, with memory for it or without.
LEMMA HeaderMoves ==
  ASSUME NEW im, NEW s \in LoadState, NEW w
  PROVE  /\ HeaderMove(s, s)
         /\ HeaderMove(s, ElfLoadHeader(im, s, w).state)
         /\ \A h \in ElfLoadHeaderNoMemory(im, s, w) :
              HeaderMove(s, h.state) /\ h.taken \subseteq WaitSet
         /\ s.loader = "post" =>
              LET h == ElfLoadPost(im, s, w)
              IN /\ HeaderMove(s, h.state) /\ h.taken \subseteq WaitSet
                 /\ h.wants \in WaitSet \cup {"none"}
                 /\ h.wants = "none" => h.state.hdr = 5
<1>1. s.hdr \in 1..5 /\ s.loader \in States /\ s.seg \in 0..SEGMENTS - 1
  BY DEF LoadState
<1>2. HeaderMove(s, s)
  BY <1>1 DEF HeaderMove
<1>3. HeaderMove(s, ElfLoadHeader(im, s, w).state)
  BY HeaderStep DEF HeaderMove
<1>4. ASSUME NEW h \in ElfLoadHeaderNoMemory(im, s, w)
      PROVE  HeaderMove(s, h.state) /\ h.taken \subseteq WaitSet
  <2> DEFINE T == {j \in s.hdr..4 : Waits[j] \in ElfLoadHeader(im, s, w).taken}
             With(i) == [state |-> [s EXCEPT !.hdr = i,
                                             !.loader = IF @ = "not_ready" /\ i >= 3
                                                        THEN "ready" ELSE @],
                         taken |-> {Waits[j] : j \in s.hdr..i - 1}]
  <2>1. ElfLoadHeaderNoMemory(im, s, w) = {With(i) : i \in T}
    BY Zenon DEF ElfLoadHeaderNoMemory
  <2>2. PICK i \in T : h = With(i)
    <3> HIDE DEF T, With
    <3> QED
      BY <1>4, <2>1
  <2>3. i \in s.hdr..4
        /\ h.state = [s EXCEPT !.hdr = i,
                               !.loader = IF @ = "not_ready" /\ i >= 3 THEN "ready" ELSE @]
        /\ h.taken = {Waits[j] : j \in s.hdr..i - 1}
    BY <2>2
  <2> HIDE DEF T, With
  <2>4. i \in 1..5 /\ i >= s.hdr
    BY <1>1, <2>3
  <2>5. /\ h.state = [hdr |-> i, loader |-> h.state.loader, seg |-> s.seg]
        /\ h.state.hdr = i /\ h.state.seg = s.seg
        /\ \/ h.state.loader = s.loader
           \/ s.loader = "not_ready" /\ h.state.loader = "ready"
    BY <2>3 DEF LoadState
  <2>6. h.state.loader \in States
    BY <1>1, <2>5 DEF States
  <2>7. h.state \in LoadState
    BY <1>1, <2>4, <2>5, <2>6 DEF LoadState
  <2>8. \A j \in s.hdr..i - 1 : Waits[j] \in WaitSet
    <3>1. \A j \in s.hdr..i - 1 : j \in 1..4
      BY <1>1, <2>3
    <3> QED
      BY <3>1, StagesAre
  <2> QED
    BY <2>3, <2>4, <2>5, <2>7, <2>8 DEF HeaderMove
<1>5. ASSUME s.loader = "post"
      PROVE  LET h == ElfLoadPost(im, s, w)
             IN /\ HeaderMove(s, h.state) /\ h.taken \subseteq WaitSet
                /\ h.wants \in WaitSet \cup {"none"}
                /\ h.wants = "none" => h.state.hdr = 5
  <2> DEFINE h == ElfLoadHeader(im, s, w)
             p == ElfLoadPost(im, s, w)
  <2>1. CASE s.hdr = 5
    <3>1. p = [state |-> [s EXCEPT !.loader = "complete"], taken |-> {}, wants |-> "none"]
      BY <2>1 DEF ElfLoadPost, Complete
    <3>2. /\ p.state.hdr = 5 /\ p.state.loader = "complete" /\ p.state.seg = s.seg
          /\ p.state \in LoadState
      BY <2>1, <3>1 DEF LoadState, States
    <3> QED
      BY <1>5, <2>1, <3>1, <3>2 DEF HeaderMove
  <2>2. CASE s.hdr # 5 /\ h.wants = "none"
    <3>1. p = [h EXCEPT !.state.loader = "complete"]
      BY <2>2 DEF ElfLoadPost, Complete
    <3>2. h = [state |-> h.state, taken |-> h.taken, wants |-> h.wants]
      BY DEF ElfLoadHeader
    <3>3. /\ h.state \in LoadState /\ h.state.seg = s.seg /\ h.state.hdr >= s.hdr
          /\ h.taken \subseteq WaitSet /\ h.state.hdr = 5
      BY <2>2, HeaderStep
    <3> HIDE DEF h, p
    <3>4. /\ p.state = [h.state EXCEPT !.loader = "complete"] /\ p.taken = h.taken
          /\ p.wants = "none"
      BY <2>2, <3>1, <3>2
    <3>5. /\ p.state.hdr = 5 /\ p.state.loader = "complete" /\ p.state.seg = s.seg
          /\ p.state \in LoadState
      BY <3>3, <3>4 DEF LoadState, States
    <3> QED
      BY <1>1, <1>5, <3>3, <3>4, <3>5 DEF HeaderMove, p
  <2>3. CASE s.hdr # 5 /\ h.wants # "none"
    <3>1. p = h
      BY <2>3 DEF ElfLoadPost, Complete
    <3> QED
      BY <1>3, <3>1, HeaderStep
  <2> QED
    BY <2>1, <2>2, <2>3
<1> QED
  BY <1>2, <1>3, <1>4, <1>5

-----------------------------------------------------------------------------
(* Types and control.                                                      *)

Types ==
  /\ img \in Images
  /\ pc \in {"open", "header", "fetch", "locate", "data", "locate2", "update",
            "error3", "error2", "error1", "done", "first", "call"}
  /\ wants \in WaitSet \cup {"none"}
  /\ load_state \in LoadState
  /\ taken \subseteq WaitSet
  /\ loaded \in Seq(1..Len(img.ph))
  /\ rsc_table \in {"null", "table", "err"}
  /\ ret \in {"none", "zero", "negative", "positive"}
  /\ atBreak \in States \cup {"none"}

Booleans ==
  {seek, stream, rsc_size, rsc_memory, rproc_table, opened, locked, unread, freed,
   stray, badFree} \subseteq BOOLEAN

\* The labels that errors lead to, and the end.
Ends == {"error3", "error2", "error1", "done"}

\* remoteproc_load and remoteproc_load_noblock keep to their own steps, and have
\* no result before an error or the end; the position in the list of segments is in it.
Control ==
  /\ stream => ~seek /\ pc \in {"first", "call", "done"}
  /\ ~stream => pc \notin {"first", "call"}
  /\ pc \notin Ends => ret = "none"
  /\ load_state.seg <= Len(img.ph)

\* The type invariant follows.
LEMMA TypesAre == Types /\ Booleans => TypeOK
<1> SUFFICES ASSUME Types, Booleans PROVE TypeOK
  OBVIOUS
<1>1. DOMAIN img.ph = 1..Len(img.ph)
  BY ImageIs DEF Types
<1>2. load_state \in [hdr : DOMAIN Stages, loader : States, seg : 0..SEGMENTS - 1]
  BY StagesAre DEF Types, LoadState
<1> QED
  BY <1>1, <1>2, StagesAre, Zenon DEF Types, Booleans, TypeOK

\* A step that appends a segment, if there is one, to those in the target's
\* memory, from load state s.
Appends(s) ==
  LET d == ElfLoadSegment(img, s)
  IN /\ d.da
     /\ load_state' = d.state
     /\ pc' = pc
     /\ loaded' = IF d.segment = 0 THEN loaded ELSE Append(loaded, d.segment)

\* A step that fails to.
Misses(s) ==
  /\ ElfLoadSegment(img, s).da
  /\ load_state' = ElfLoadSegment(img, s).state
  /\ loaded' = loaded
  /\ pc' \in Ends /\ ret' = "negative"

\* The headers that a call of remoteproc_load_noblock takes.
LEMMA HeadersMove ==
  ASSUME Types
  PROVE  /\ HeaderMove(load_state, Headers.state)
         /\ Headers.taken \subseteq WaitSet /\ Headers.wants \in WaitSet \cup {"none"}
         /\ load_state.loader \in {"not_ready", "post"} /\ Headers.wants = "none"
              => Headers.state.hdr = 5
<1>1. load_state \in LoadState
  BY DEF Types
<1>2. CASE load_state.loader \in {"not_ready", "post"}
  BY <1>1, <1>2, HeaderStep, HeaderMoves DEF Headers
<1>3. CASE load_state.loader \notin {"not_ready", "post"}
  <2>1. Headers.state = load_state /\ Headers.taken = {} /\ Headers.wants = "none"
    BY <1>3 DEF Headers
  <2> QED
    BY <1>1, <1>3, <2>1, HeaderMoves
<1> QED
  BY <1>2, <1>3

\* Every step is of one of three kinds, as far as the loader is concerned.
LEMMA Moves ==
  ASSUME Types, [Next]_vars
  PROVE  /\ img' = img /\ seek' = seek /\ stream' = stream
         /\ \/ HeaderMove(load_state, load_state') /\ loaded' = loaded
            \/ \E s : /\ HeaderMove(load_state, s) /\ s.loader = "ready"
                      /\ pc \in {"data", "call"}
                      /\ \/ Appends(s) /\ ret' = ret
                         \/ Misses(s)
<1>1. load_state \in LoadState
  BY DEF Types
<1>2. HeaderMove(load_state, load_state)
  BY <1>1, HeaderMoves
<1>3. CASE \/ \E n \in Windows : Open(n) \/ FirstCall(n)
           \/ OpenFails \/ FormatUnknown \/ Fetch \/ FetchFails \/ Locate \/ Break
           \/ LocateLate \/ Update \/ Error3 \/ Error2 \/ Error1 \/ Done \/ CallBreak
           \/ UNCHANGED vars
  <2>1. UNCHANGED <<img, seek, stream, load_state, loaded>>
    BY <1>3 DEF Open, FirstCall, OpenFails, FormatUnknown, Fetch, FetchFails, Locate,
                Break, LocateLate, Update, Error3, Error2, Error1, Done, CallBreak, vars,
                header
  <2> QED
    BY <1>2, <2>1
<1>4. CASE LoadHeader
  <2>1. /\ UNCHANGED <<img, seek, stream, loaded>>
        /\ load_state' = ElfLoadHeader(img, load_state, win).state
    BY <1>4 DEF LoadHeader
  <2> QED
    BY <1>1, <2>1, HeaderMoves
<1>5. CASE HeaderNoMemory \/ PostNoMemory \/ CallNoMemory
  <2>1. /\ UNCHANGED <<img, seek, stream, loaded>>
        /\ \E h \in ElfLoadHeaderNoMemory(img, load_state, win) : load_state' = h.state
    BY <1>5 DEF HeaderNoMemory, PostNoMemory, CallNoMemory
  <2> QED
    BY <1>1, <2>1, HeaderMoves
<1>6. CASE LoadPost
  <2>1. /\ UNCHANGED <<img, seek, stream, loaded>> /\ load_state.loader = "post"
        /\ load_state' = ElfLoadPost(img, load_state, win).state
    BY <1>6 DEF LoadPost
  <2> QED
    BY <1>1, <2>1, HeaderMoves
<1>7. CASE CallHeader
  <2>1. UNCHANGED <<img, seek, stream, loaded>> /\ load_state' = Headers.state
    BY <1>7 DEF CallHeader
  <2> QED
    BY <2>1, HeadersMove
<1>8. CASE CallComplete
  <2>1. /\ UNCHANGED <<img, seek, stream, loaded>> /\ Headers.state.loader = "post"
        /\ load_state' = [Headers.state EXCEPT !.loader = "complete"]
    BY <1>8 DEF CallComplete
  <2>2. HeaderMove(load_state, Headers.state)
    BY HeadersMove
  <2>3. HeaderMove(load_state, load_state')
    <3> DEFINE t == Headers.state
    <3>1. /\ t \in LoadState /\ t.seg = load_state.seg /\ t.hdr >= load_state.hdr
          /\ t.loader = "post" /\ load_state.loader = "post"
      BY <2>1, <2>2 DEF HeaderMove
    <3> HIDE DEF t
    <3>2. /\ load_state'.seg = t.seg /\ load_state'.hdr = t.hdr
          /\ load_state'.loader = "complete" /\ load_state' \in LoadState
      BY <2>1, <3>1 DEF LoadState, States, t
    <3> QED
      BY <3>1, <3>2 DEF HeaderMove
  <2> QED
    BY <2>1, <2>3
<1>9. CASE LoadSegment
  <2>1. /\ UNCHANGED <<img, seek, stream>> /\ load_state.loader = "ready"
        /\ pc = "data" /\ ret' = ret /\ Appends(load_state)
    BY <1>9 DEF LoadSegment, Appends, result
  <2> QED
    BY <1>2, <2>1
<1>10. CASE SegmentFails
  <2>1. /\ UNCHANGED <<img, seek, stream>> /\ load_state.loader = "ready"
        /\ pc = "data" /\ Misses(load_state)
    BY <1>10 DEF SegmentFails, Misses, Ends
  <2> QED
    BY <1>2, <2>1
<1>11. CASE CallSegment
  <2>1. /\ UNCHANGED <<img, seek, stream>> /\ Headers.state.loader = "ready"
        /\ pc = "call" /\ ret' = ret /\ Appends(Headers.state)
    BY <1>11 DEF CallSegment, Appends, result
  <2> QED
    BY <2>1, HeadersMove
<1>12. CASE CallSegmentFails
  <2>1. /\ UNCHANGED <<img, seek, stream>> /\ Headers.state.loader = "ready"
        /\ pc = "call" /\ Misses(Headers.state)
    BY <1>12 DEF CallSegmentFails, CallError, Misses, Ends
  <2> QED
    BY <2>1, HeadersMove
<1> QED
  BY <1>3, <1>4, <1>5, <1>6, <1>7, <1>8, <1>9, <1>10, <1>11, <1>12 DEF Next

\* The PT_LOAD headers up to the next segment.
Reached(n) == {k \in 1..n : img.ph[k] # "other"}

\* A step of the loader in the state READY_TO_LOAD: it passes one PT_LOAD header
\* and no other, or none and is at the end.
LEMMA SegmentMoves ==
  ASSUME Types, Control, NEW s, HeaderMove(load_state, s), s.loader = "ready",
         Appends(s) \/ Misses(s)
  PROVE  LET i == ElfLoadSegment(img, s).segment
             n == Len(img.ph)
         IN /\ load_state' \in LoadState
            /\ load_state'.hdr >= load_state.hdr
            /\ load_state'.seg >= load_state.seg /\ load_state'.seg <= n
            /\ \/ load_state'.loader = "ready" /\ (load_state'.seg = n => img.ph[n] = "other")
               \/ load_state'.loader = "post" /\ load_state'.seg = n
            /\ \/ i = 0 /\ Reached(load_state'.seg) = Reached(load_state.seg)
               \/ /\ i \in 1..n /\ i > load_state.seg
                  /\ load_state'.seg = i
                  /\ Reached(i) = Reached(load_state.seg) \cup {i}
<1> DEFINE d == ElfLoadSegment(img, s)
           n == Len(img.ph)
           m == load_state.seg
           t == load_state'
<1>1. /\ img \in Images /\ load_state \in LoadState /\ m <= n
      /\ s \in LoadState /\ s.seg = m /\ s.hdr >= load_state.hdr
  BY DEF Types, Control, HeaderMove
<1>2. t = d.state /\ d.da
  BY DEF Appends, Misses
<1>3. /\ n \in Nat /\ n >= 1 /\ n < SEGMENTS /\ SEGMENTS \in Nat /\ m \in Nat
      /\ s.hdr \in 1..5
  BY <1>1, ImageIs DEF LoadState
<1>4. \/ /\ d.segment = 0 /\ d.da = (m < n) /\ d.state = [s EXCEPT !.seg = n]
         /\ \A k \in m + 1..n : img.ph[k] = "other"
      \/ /\ d.segment \in m + 1..n
         /\ d.state = [s EXCEPT !.seg = d.segment,
                                !.loader = IF d.segment = n THEN "post" ELSE @]
         /\ img.ph[d.segment] # "other"
         /\ \A k \in m + 1..d.segment - 1 : img.ph[k] = "other"
  <2>1. s.seg <= Len(img.ph)
    BY <1>1
  <2>2. \/ /\ d.segment = 0 /\ d.da = (s.seg < n)
           /\ d.state = [s EXCEPT !.seg = n]
           /\ \A k \in s.seg + 1..n : img.ph[k] = "other"
        \/ /\ d.segment \in s.seg + 1..n /\ d.da = TRUE
           /\ d.state = [s EXCEPT !.seg = d.segment,
                                  !.loader = IF d.segment = n THEN "post" ELSE @]
           /\ img.ph[d.segment] # "other"
           /\ \A k \in s.seg + 1..d.segment - 1 : img.ph[k] = "other"
    BY <1>1, <2>1, SegmentStep, Zenon
  <2>3. s.seg = m
    BY <1>1
  <2> HIDE DEF d, n, m
  <2> QED
    BY <2>2, <2>3
<1> HIDE DEF d, n, m, t
<1>5. CASE /\ d.segment = 0 /\ d.da = (m < n) /\ d.state = [s EXCEPT !.seg = n]
           /\ \A k \in m + 1..n : img.ph[k] = "other"
  <2>1. m < n
    BY <1>2, <1>5
  <2>2. t.seg = n /\ t.loader = "ready" /\ t.hdr = s.hdr /\ t \in LoadState
    BY <1>1, <1>2, <1>3, <1>5 DEF LoadState
  <2>3. img.ph[n] = "other"
    BY <1>3, <1>5, <2>1
  <2>4. Reached(n) = Reached(m)
    <3>1. \A k \in 1..n : k \in 1..m \/ k \in m + 1..n
      BY <1>3
    <3>2. \A k \in 1..m : k \in 1..n
      BY <1>3, <2>1
    <3> QED
      BY <1>5, <3>1, <3>2 DEF Reached
  <2> QED
    BY <1>1, <1>3, <1>5, <2>1, <2>2, <2>3, <2>4 DEF d, n, m, t
<1>6. CASE /\ d.segment \in m + 1..n
           /\ d.state = [s EXCEPT !.seg = d.segment,
                                  !.loader = IF d.segment = n THEN "post" ELSE @]
           /\ img.ph[d.segment] # "other"
           /\ \A k \in m + 1..d.segment - 1 : img.ph[k] = "other"
  <2> DEFINE i == d.segment
  <2>1. i \in 1..n /\ i > m /\ i \in 0..SEGMENTS - 1
    BY <1>3, <1>6
  <2>2. /\ t.seg = i /\ t.hdr = s.hdr /\ t \in LoadState
        /\ t.loader = IF i = n THEN "post" ELSE "ready"
    BY <1>1, <1>2, <1>6, <2>1 DEF LoadState, States
  <2> HIDE DEF i
  <2>3. Reached(i) = Reached(m) \cup {i}
    <3>1. \A k \in 1..i : k \in 1..m \/ k \in m + 1..i - 1 \/ k = i
      BY <1>3, <2>1
    <3>2. (\A k \in 1..m : k \in 1..i) /\ i \in 1..i
      BY <1>3, <2>1
    <3> QED
      BY <1>6, <3>1, <3>2 DEF Reached, i
  <2>4. t.seg >= m /\ t.seg <= n
    BY <1>3, <2>1, <2>2
  <2> QED
    BY <1>1, <2>1, <2>2, <2>3, <2>4 DEF d, n, m, t, i
<1> QED
  BY <1>4, <1>5, <1>6

\* The types of the loader's part of the state, and the position.
LEMMA LoaderTypes ==
  ASSUME Types, Control, [Next]_vars
  PROVE  /\ img' \in Images /\ load_state' \in LoadState
         /\ loaded' \in Seq(1..Len(img'.ph))
         /\ load_state'.seg <= Len(img'.ph)
<1>1. img' = img /\ img \in Images /\ loaded \in Seq(1..Len(img.ph))
  BY Moves DEF Types
<1>2. CASE HeaderMove(load_state, load_state') /\ loaded' = loaded
  BY <1>1, <1>2 DEF HeaderMove, Control
<1>3. ASSUME NEW s, HeaderMove(load_state, s), s.loader = "ready", Appends(s) \/ Misses(s)
      PROVE  /\ load_state' \in LoadState /\ loaded' \in Seq(1..Len(img.ph))
             /\ load_state'.seg <= Len(img.ph)
  <2> DEFINE i == ElfLoadSegment(img, s).segment
  <2>1. /\ load_state' \in LoadState /\ load_state'.seg <= Len(img.ph)
        /\ i = 0 \/ i \in 1..Len(img.ph)
    BY <1>3, SegmentMoves
  <2>2. loaded' = loaded \/ (i # 0 /\ loaded' = Append(loaded, i))
    BY <1>3 DEF Appends, Misses
  <2> HIDE DEF i
  <2>3. loaded' \in Seq(1..Len(img.ph))
    BY <1>1, <2>1, <2>2, AppendProperties
  <2> QED
    BY <2>1, <2>3
<1> QED
  BY <1>1, <1>2, <1>3, Moves

\* The rest of Types and of Control.
Rest ==
  /\ pc \in {"open", "header", "fetch", "locate", "data", "locate2", "update",
            "error3", "error2", "error1", "done", "first", "call"}
  /\ wants \in WaitSet \cup {"none"}
  /\ taken \subseteq WaitSet
  /\ rsc_table \in {"null", "table", "err"}
  /\ ret \in {"none", "zero", "negative", "positive"}
  /\ atBreak \in States \cup {"none"}
  /\ stream => ~seek /\ pc \in {"first", "call", "done"}
  /\ ~stream => pc \notin {"first", "call"}
  /\ pc \notin Ends => ret = "none"

\* Every step keeps it.
LEMMA RestStep ==
  ASSUME Types, Control, [Next]_vars
  PROVE  Rest'
<1> USE DEF Types, Control, Ends
<1>1. load_state \in LoadState /\ load_state.loader \in States
  BY DEF LoadState
<1>2. CASE \E n \in Windows : Open(n)
  BY <1>2 DEF Open, table, result, Rest
<1>3. CASE OpenFails \/ FormatUnknown
  BY <1>3 DEF OpenFails, FormatUnknown, header, table, Rest
<1>4. CASE LoadHeader
  <2> DEFINE h == ElfLoadHeader(img, load_state, win)
  <2>1. h.wants \in WaitSet \cup {"none"} /\ h.taken \subseteq WaitSet
    BY <1>1, HeaderStep
  <2>2. /\ pc = "header" /\ pc' \in {"locate", "fetch"} /\ wants' = h.wants
        /\ taken' = taken \cup h.taken
        /\ UNCHANGED <<seek, stream, rsc_table, ret, atBreak>>
    BY <1>4 DEF LoadHeader, table, result
  <2> HIDE DEF h
  <2> QED
    BY <2>1, <2>2 DEF Rest
<1>5. CASE HeaderNoMemory
  <2>1. PICK h \in ElfLoadHeaderNoMemory(img, load_state, win) :
          taken' = taken \cup h.taken
    BY <1>5 DEF HeaderNoMemory
  <2>2. h.taken \subseteq WaitSet
    BY <1>1, HeaderMoves
  <2> QED
    BY <1>5, <2>1, <2>2 DEF HeaderNoMemory, table, Rest
<1>6. CASE Fetch
  BY <1>6 DEF Fetch, table, result, Rest
<1>7. CASE FetchFails
  BY <1>7 DEF FetchFails, header, table, Rest
<1>8. CASE Locate
  BY <1>8 DEF Locate, GetRscTable, result, Rest
<1>9. CASE LocateLate
  BY <1>9 DEF LocateLate, GetRscTable, header, result, Rest
<1>10. CASE LoadSegment
  BY <1>10 DEF LoadSegment, table, result, Rest
<1>11. CASE SegmentFails
  BY <1>11 DEF SegmentFails, table, Rest
<1>12. CASE LoadPost
  <2> DEFINE h == ElfLoadPost(img, load_state, win)
  <2>1. /\ pc = "data" /\ pc' \in {"data", "locate2"} /\ wants' = h.wants
        /\ taken' = taken \cup h.taken /\ load_state.loader = "post"
        /\ atBreak' = atBreak \/ atBreak' = h.state.loader
        /\ UNCHANGED <<seek, stream, rsc_table, ret>>
    BY <1>12 DEF LoadPost, table
  <2>2. /\ h.wants \in WaitSet \cup {"none"} /\ h.taken \subseteq WaitSet
        /\ HeaderMove(load_state, h.state)
    BY <1>1, <2>1, HeaderMoves
  <2> HIDE DEF h
  <2>3. h.state.loader \in States
    BY <2>2 DEF HeaderMove, LoadState
  <2> QED
    BY <2>1, <2>2, <2>3 DEF Rest
<1>13. CASE PostNoMemory
  <2>1. PICK h \in ElfLoadHeaderNoMemory(img, load_state, win) :
          taken' = taken \cup h.taken
    BY <1>13 DEF PostNoMemory
  <2>2. h.taken \subseteq WaitSet
    BY <1>1, HeaderMoves
  <2> QED
    BY <1>13, <2>1, <2>2 DEF PostNoMemory, table, Rest
<1>14. CASE Break
  BY <1>1, <1>14 DEF Break, header, table, Rest
<1>15. CASE Update
  BY <1>15 DEF Update, ElfRelease, Rest
<1>16. CASE \E n \in Windows : FirstCall(n)
  BY <1>16 DEF FirstCall, table, Rest
<1>17. CASE CallHeader
  <2>1. /\ pc = "call" /\ wants' = Headers.wants /\ taken' = taken \cup Headers.taken
        /\ UNCHANGED <<seek, stream, pc, rsc_table, ret, atBreak>>
    BY <1>17 DEF CallHeader, table, result
  <2> QED
    BY <2>1, HeadersMove DEF Rest
<1>18. CASE CallNoMemory
  BY <1>18 DEF CallNoMemory, CallError, ElfRelease, table, Rest
<1>19. CASE CallSegment
  <2>1. /\ pc = "call" /\ wants' = "none" /\ taken' = taken \cup Headers.taken
        /\ UNCHANGED <<seek, stream, pc, rsc_table, ret, atBreak>>
    BY <1>19 DEF CallSegment, table, result
  <2> QED
    BY <2>1, HeadersMove DEF Rest
<1>20. CASE CallSegmentFails
  BY <1>20 DEF CallSegmentFails, CallError, ElfRelease, table, Rest
<1>21. CASE CallBreak
  BY <1>1, <1>21 DEF CallBreak, header, table, Rest
<1>22. CASE CallComplete
  <2>1. /\ pc = "call" /\ pc' = "done"
        /\ taken' = {} \/ taken' = taken \cup Headers.taken
        /\ ret' \in {"zero", "positive", "negative"}
        /\ UNCHANGED <<seek, stream, wants, rsc_table, atBreak>>
    BY <1>22 DEF CallComplete, CallError, ElfRelease
  <2> QED
    BY <2>1, HeadersMove DEF Rest
<1>23. CASE Done \/ UNCHANGED vars
  BY <1>23 DEF Done, vars, header, table, result, Rest
<1>24. CASE Error3 \/ Error2 \/ Error1
  BY <1>24 DEF Error3, Error2, Error1, ElfRelease, FreeTable, header, table, result, Rest
<1> QED
  BY <1>2, <1>3, <1>4, <1>5, <1>6, <1>7, <1>8, <1>9, <1>10, <1>11, <1>12, <1>13, <1>14,
     <1>15, <1>16, <1>17, <1>18, <1>19, <1>20, <1>21, <1>22, <1>23,
     <1>24 DEF Next

\* The flags are Boolean.
LEMMA BooleansStep ==
  ASSUME Booleans, [Next]_vars
  PROVE  Booleans'
<1> USE DEF Booleans
<1>1. CASE \E n \in Windows : Open(n) \/ FirstCall(n)
  BY <1>1 DEF Open, FirstCall, table, held, result
<1>2. CASE OpenFails \/ FormatUnknown \/ HeaderNoMemory \/ FetchFails
  BY <1>2 DEF OpenFails, FormatUnknown, HeaderNoMemory, FetchFails, table, held
<1>3. CASE LoadHeader \/ Fetch \/ LoadSegment \/ CallHeader \/ CallSegment
  BY <1>3 DEF LoadHeader, Fetch, LoadSegment, CallHeader, CallSegment, table, held, result
<1>4. CASE Locate \/ LocateLate
  BY <1>4 DEF Locate, LocateLate, GetRscTable, result
<1>5. CASE SegmentFails \/ PostNoMemory
  BY <1>5 DEF SegmentFails, PostNoMemory, table, held
<1>6. CASE LoadPost
  BY <1>6 DEF LoadPost, table, held
<1>7. CASE Break \/ CallBreak
  BY <1>7 DEF Break, CallBreak, table, held
<1>8. CASE Update
  BY <1>8 DEF Update, FreeTable, ElfRelease
<1>9. CASE CallComplete
  BY <1>9 DEF CallComplete, CallError, ElfRelease
<1>10. CASE Done \/ UNCHANGED vars
  BY <1>10 DEF Done, vars, table, held, result
<1>11. CASE CallNoMemory \/ CallSegmentFails
  BY <1>11 DEF CallNoMemory, CallSegmentFails, CallError, ElfRelease, table
<1>12. CASE Error3 \/ Error2 \/ Error1
  BY <1>12 DEF Error3, Error2, Error1, FreeTable, ElfRelease, table, result
<1> QED
  BY <1>1, <1>2, <1>3, <1>4, <1>5, <1>6, <1>7, <1>8, <1>9, <1>10, <1>11, <1>12 DEF Next

Base == Types /\ Booleans /\ Control

\* The call begins before the first header.
LEMMA InitBase == Init => Base
<1> SUFFICES ASSUME Init PROVE Base
  OBVIOUS
<1>1. img \in Images /\ SEGMENTS \in Nat /\ Len(img.ph) \in Nat /\ Len(img.ph) < SEGMENTS
  BY ImageIs DEF Init
<1>2. load_state = [hdr |-> 1, loader |-> "not_ready", seg |-> 0]
  BY DEF Init, InitState
<1>3. load_state \in LoadState /\ load_state.seg <= Len(img.ph)
  BY <1>1, <1>2 DEF LoadState, States
<1>4. loaded \in Seq(1..Len(img.ph))
  BY DEF Init
<1>5. Types
  BY <1>1, <1>3, <1>4 DEF Init, Types
<1>6. Booleans
  BY DEF Init, Booleans
<1>7. Control
  BY <1>3 DEF Init, Control
<1> QED
  BY <1>5, <1>6, <1>7 DEF Base

\* Types and control hold throughout.
LEMMA BaseStep == Base /\ [Next]_vars => Base'
<1> SUFFICES ASSUME Base, [Next]_vars PROVE Base'
  OBVIOUS
<1>1. Rest' /\ Booleans'
  BY RestStep, BooleansStep DEF Base
<1>2. /\ img' \in Images /\ load_state' \in LoadState
      /\ loaded' \in Seq(1..Len(img'.ph)) /\ load_state'.seg <= Len(img'.ph)
  BY LoaderTypes DEF Base
<1>3. Types'
  BY <1>1, <1>2 DEF Rest, Types
<1>4. Control'
  BY <1>1, <1>2 DEF Rest, Control
<1> QED
  BY <1>1, <1>3, <1>4 DEF Base

-----------------------------------------------------------------------------
(* The segments.                                                           *)

\* The position of the loader: before the headers it is at the first segment,
\* when it is through it is at the last, and without having reached the state
\* POST_DATA_LOAD only if the last program header is not PT_LOAD.
Position ==
  LET n == Len(img.ph)
  IN /\ load_state.loader = "not_ready" => load_state.seg = 0
     /\ load_state.loader = "ready" /\ load_state.seg = n => img.ph[n] = "other"
     /\ load_state.loader \in {"post", "complete"} => load_state.seg = n
     /\ (pc \in {"locate2", "update"} \/ StreamEnds) => load_state.seg = n

\* What is in the target's memory: the PT_LOAD headers passed, in order; on an
\* error perhaps not the last of them.
Copied ==
  /\ \A i, j \in DOMAIN loaded : i < j => loaded[i] < loaded[j]
  /\ \A i \in DOMAIN loaded : loaded[i] <= load_state.seg
  /\ pc \notin Ends \/ StreamEnds
       => {loaded[i] : i \in DOMAIN loaded} = Reached(load_state.seg)

\* A header move keeps the position's part that is about the load state.
LEMMA PositionMove ==
  ASSUME Base, Position, HeaderMove(load_state, load_state'), img' = img,
         (pc' \in {"locate2", "update"} \/ StreamEnds') => load_state.seg = Len(img.ph)
  PROVE  Position'
<1>1. Len(img.ph) >= 1 /\ Len(img.ph) \in Nat
  BY ImageIs DEF Base, Types
<1> QED
  BY <1>1 DEF Position, HeaderMove

\* The loops are left, and the calls come to their end, only at the last
\* segment.
LEMMA EndsAtLast ==
  ASSUME Base, Position, [Next]_vars, pc' \in {"locate2", "update"} \/ StreamEnds'
  PROVE  load_state.seg = Len(img.ph)
<1>1. \/ pc \in {"locate2", "update"} \/ StreamEnds
      \/ pc = "data" /\ pc' = "locate2" /\ load_state.loader = "post"
      \/ Break \/ CallBreak
      \/ pc = "call" /\ Headers.state.loader = "post"
  <2> USE DEF Base, Control, StreamEnds, Ends
  <2>1. stream' = stream
    BY Moves
  <2>2. CASE \E n \in Windows : Open(n) \/ FirstCall(n)
    BY <2>1, <2>2 DEF Open, FirstCall, result
  <2>3. CASE \/ OpenFails \/ FormatUnknown \/ HeaderNoMemory \/ FetchFails
             \/ CallNoMemory \/ CallSegmentFails
    BY <2>1, <2>3 DEF OpenFails, FormatUnknown, HeaderNoMemory, FetchFails, CallNoMemory,
                      CallSegmentFails, CallError
  <2>4. CASE LoadHeader \/ Fetch \/ LoadSegment \/ CallHeader \/ CallSegment
    BY <2>1, <2>4 DEF LoadHeader, Fetch, LoadSegment, CallHeader, CallSegment, result
  <2>5. CASE Locate \/ LocateLate
    BY <2>1, <2>5 DEF Locate, LocateLate, result
  <2>6. CASE SegmentFails \/ PostNoMemory
    BY <2>1, <2>6 DEF SegmentFails, PostNoMemory
  <2>7. CASE LoadPost
    <3>1. /\ pc = "data" /\ pc' \in {"data", "locate2"} /\ load_state.loader = "post"
          /\ ret' = ret
      BY <2>7 DEF LoadPost
    <3> QED
      BY <2>1, <3>1
  <2>8. CASE Break \/ CallBreak
    BY <2>8
  <2>9. CASE Update
    BY <2>9 DEF Update
  <2>10. CASE CallComplete
    BY <2>10 DEF CallComplete
  <2>11. CASE Done \/ UNCHANGED vars
    BY <2>11 DEF Done, vars, result
  <2>12. CASE Error3 \/ Error2 \/ Error1
    BY <2>1, <2>12 DEF Error3, Error2, Error1, result
  <2> QED
    BY <2>2, <2>3, <2>4, <2>5, <2>6, <2>7, <2>8, <2>9, <2>10, <2>11, <2>12 DEF Next
<1>2. CASE pc \in {"locate2", "update"} \/ StreamEnds \/ load_state.loader = "post"
  BY <1>2 DEF Position
<1>3. CASE Break \/ CallBreak
  <2>1. ~ElfLoadSegment(img, load_state).da
    BY <1>3 DEF Break, CallBreak
  <2>2. /\ load_state \in LoadState /\ img \in Images /\ load_state.seg <= Len(img.ph)
        /\ load_state.seg \in Nat /\ Len(img.ph) \in Nat
    BY ImageIs DEF Base, Types, Control, LoadState
  <2>3. ~(load_state.seg < Len(img.ph))
    BY <2>1, <2>2, SegmentStep
  <2> QED
    BY <2>2, <2>3
<1>4. CASE Headers.state.loader = "post"
  <2>1. load_state.loader = "post"
    BY <1>4, HeadersMove DEF Base, HeaderMove
  <2> QED
    BY <2>1 DEF Position
<1> QED
  BY <1>1, <1>2, <1>3, <1>4

\* After an error the loader takes no step, and the result stays.
LEMMA EndsStay ==
  ASSUME Base, [Next]_vars, pc \in Ends
  PROVE  pc' \in Ends /\ ret' = ret
<1> USE DEF Ends
<1>1. CASE Error3 \/ Error2 \/ Error1
  BY <1>1 DEF Error3, Error2, Error1, result
<1>2. CASE Done \/ UNCHANGED vars
  BY <1>2 DEF Done, vars, result
<1> QED
  BY <1>1, <1>2 DEF Next, Open, OpenFails, FormatUnknown, LoadHeader, HeaderNoMemory, Fetch,
       FetchFails, Locate, LoadSegment, SegmentFails, LoadPost, PostNoMemory, Break,
       LocateLate, Update, FirstCall, CallHeader, CallNoMemory, CallSegment,
       CallSegmentFails, CallBreak, CallComplete

\* The segments copied, after a step that appends one.
LEMMA AppendCopied ==
  ASSUME Base, Copied, NEW i \in 1..Len(img.ph), i > load_state.seg,
         loaded' = Append(loaded, i), load_state'.seg = i, img' = img,
         Reached(i) = Reached(load_state.seg) \cup {i}, pc \notin Ends
  PROVE  Copied'
<1> DEFINE n == Len(loaded)
           m == load_state.seg
<1>1. /\ loaded \in Seq(1..Len(img.ph)) /\ Len(img.ph) \in Nat /\ m \in Nat
  BY ImageIs DEF Base, Types, LoadState
<1>2. /\ n \in Nat /\ DOMAIN loaded = 1..n /\ DOMAIN loaded' = 1..(n + 1)
      /\ loaded'[n + 1] = i /\ \A k \in 1..n : loaded'[k] = loaded[k]
  BY <1>1, AppendProperties
<1>3. \A k \in 1..n : loaded[k] \in Nat
  <2>1. \A k \in 1..n : loaded[k] \in 1..Len(img.ph)
    BY <1>1, ElementOfSeq
  <2> QED
    BY <1>1, <2>1
<1>4. i \in Nat
  BY <1>1
<1> HIDE DEF n, m
<1>5. \A k \in 1..n : loaded[k] <= m /\ loaded[k] < i /\ loaded[k] <= i
  <2>1. \A k \in 1..n : loaded[k] <= m
    BY <1>2 DEF Copied, m
  <2>2. i > m
    BY DEF m
  <2> QED
    BY <1>1, <1>3, <1>4, <2>1, <2>2
<1>6. \A k \in 1..(n + 1) : k \in 1..n \/ k = n + 1
  BY <1>2
<1>7. \A k, j \in 1..(n + 1) : k < j => loaded'[k] < loaded'[j]
  <2> SUFFICES ASSUME NEW k \in 1..(n + 1), NEW j \in 1..(n + 1), k < j
               PROVE  loaded'[k] < loaded'[j]
    OBVIOUS
  <2>1. k \in 1..n
    BY <1>2
  <2>2. CASE j \in 1..n
    BY <1>2, <2>1, <2>2 DEF Copied
  <2>3. CASE j = n + 1
    BY <1>2, <1>5, <2>1, <2>3
  <2> QED
    BY <1>6, <2>2, <2>3
<1>8. \A k \in 1..(n + 1) : loaded'[k] <= i
  BY <1>2, <1>4, <1>5, <1>6
<1>9. {loaded'[k] : k \in 1..(n + 1)} = {loaded[k] : k \in 1..n} \cup {i}
  <2>1. \A k \in 1..n : k \in 1..(n + 1)
    BY <1>2
  <2>2. n + 1 \in 1..(n + 1)
    BY <1>2
  <2> QED
    BY <1>2, <1>6, <2>1, <2>2
<1>10. {loaded[k] : k \in 1..n} = Reached(m)
  BY <1>2 DEF Copied, m
<1>11. Reached(i)' = Reached(i)
  BY DEF Reached
<1> QED
  BY <1>2, <1>7, <1>8, <1>9, <1>10, <1>11 DEF Copied, m

\* What is copied stays behind the position.
LEMMA StillBelow ==
  ASSUME Base, Copied, [Next]_vars, load_state'.seg >= load_state.seg
  PROVE  \A k \in DOMAIN loaded : loaded[k] <= load_state'.seg
<1>1. /\ loaded \in Seq(1..Len(img.ph)) /\ Len(img.ph) \in Nat
      /\ load_state.seg \in Nat
  BY ImageIs DEF Base, Types, LoadState
<1>2. load_state'.seg \in Nat
  BY BaseStep DEF Base, Types, LoadState
<1>3. \A k \in DOMAIN loaded : loaded[k] \in 1..Len(img.ph)
  BY <1>1, LenProperties, ElementOfSeq
<1>4. \A k \in DOMAIN loaded : loaded[k] \in Nat /\ loaded[k] <= load_state.seg
  BY <1>1, <1>3 DEF Copied
<1> QED
  BY <1>1, <1>2, <1>4

\* A step of the loader keeps position and order.
LEMMA CopiedStep ==
  ASSUME Base, Position, Copied, [Next]_vars
  PROVE  Position' /\ Copied'
<1>1. img' = img /\ stream' = stream
  BY Moves DEF Base
<1>2. pc \notin Ends => ret = "none"
  BY DEF Base, Control
<1>3. CASE HeaderMove(load_state, load_state') /\ loaded' = loaded
  <2>1. Position'
    BY <1>1, <1>3, EndsAtLast, PositionMove
  <2>2. pc' \notin Ends \/ StreamEnds' => pc \notin Ends \/ StreamEnds
    <3>1. CASE pc \in Ends
      <4>1. pc' \in Ends /\ ret' = ret
        BY <3>1, EndsStay
      <4> QED
        BY <1>1, <3>1, <4>1 DEF StreamEnds
    <3> QED
      BY <3>1
  <2>3. load_state'.seg = load_state.seg
    BY <1>3 DEF HeaderMove
  <2>4. Reached(load_state.seg)' = Reached(load_state.seg)
    BY <1>1, <2>3 DEF Reached
  <2>5. Copied'
    BY <1>3, <2>2, <2>3, <2>4 DEF Copied
  <2> QED
    BY <2>1, <2>5
<1>4. ASSUME NEW s, HeaderMove(load_state, s), s.loader = "ready",
             pc \in {"data", "call"}, Appends(s), ret' = ret
      PROVE  Position' /\ Copied'
  <2> DEFINE i == ElfLoadSegment(img, s).segment
  <2>1. /\ \/ load_state'.loader = "ready"
                /\ (load_state'.seg = Len(img.ph) => img.ph[Len(img.ph)] = "other")
           \/ load_state'.loader = "post" /\ load_state'.seg = Len(img.ph)
        /\ \/ i = 0 /\ Reached(load_state'.seg) = Reached(load_state.seg)
           \/ /\ i \in 1..Len(img.ph) /\ i > load_state.seg
              /\ load_state'.seg = i
              /\ Reached(i) = Reached(load_state.seg) \cup {i}
        /\ load_state'.seg >= load_state.seg
    BY <1>4, SegmentMoves DEF Base
  <2>2. pc' = pc /\ loaded' = IF i = 0 THEN loaded ELSE Append(loaded, i)
    BY <1>4 DEF Appends
  <2> HIDE DEF i
  <2>3. ~StreamEnds' /\ pc \notin Ends
    BY <1>2, <1>4, <2>2 DEF StreamEnds, Ends
  <2>4. Position'
    BY <1>1, <1>4, <2>1, <2>2, <2>3 DEF Position
  <2>5. CASE i # 0
    <3>1. Copied'
      BY <1>1, <2>1, <2>2, <2>3, <2>5, AppendCopied
    <3> QED
      BY <2>4, <3>1
  <2>6. CASE i = 0
    <3>1. loaded' = loaded /\ Reached(load_state'.seg) = Reached(load_state.seg)
      BY <2>1, <2>2, <2>6
    <3>2. \A k \in DOMAIN loaded : loaded[k] <= load_state'.seg
      BY <2>1, StillBelow
    <3>3. Reached(load_state.seg)' = Reached(load_state'.seg)
      BY <1>1 DEF Reached
    <3>4. Copied'
      BY <2>3, <3>1, <3>2, <3>3 DEF Copied
    <3> QED
      BY <2>4, <3>4
  <2> QED
    BY <2>5, <2>6
<1>5. ASSUME NEW s, HeaderMove(load_state, s), s.loader = "ready", Misses(s)
      PROVE  Position' /\ Copied'
  <2>1. /\ \/ load_state'.loader = "ready"
                /\ (load_state'.seg = Len(img.ph) => img.ph[Len(img.ph)] = "other")
           \/ load_state'.loader = "post" /\ load_state'.seg = Len(img.ph)
        /\ load_state'.seg >= load_state.seg
    BY <1>5, SegmentMoves DEF Base
  <2>2. pc' \in Ends /\ ~StreamEnds' /\ loaded' = loaded
    BY <1>5 DEF Misses, StreamEnds
  <2>3. Position'
    BY <1>1, <2>1, <2>2 DEF Position, Ends
  <2>4. \A k \in DOMAIN loaded : loaded[k] <= load_state'.seg
    BY <2>1, StillBelow
  <2>5. Copied'
    BY <2>2, <2>4 DEF Copied
  <2> QED
    BY <2>3, <2>5
<1> QED
  BY <1>3, <1>4, <1>5, Moves DEF Base

\* Position and order hold throughout.
LEMMA LoadInvariant == Spec => [](Base /\ Position /\ Copied)
<1>1. Init => Base /\ Position /\ Copied
  <2> SUFFICES ASSUME Init PROVE Base /\ Position /\ Copied
    OBVIOUS
  <2>1. Base
    BY InitBase
  <2>2. /\ load_state.seg = 0 /\ load_state.loader = "not_ready" /\ loaded = <<>>
        /\ pc \in {"open", "first"} /\ ret = "none"
    BY DEF Init, InitState
  <2>3. Position
    BY <2>2 DEF Position, StreamEnds
  <2>4. Reached(load_state.seg) = {}
    BY <2>2 DEF Reached
  <2>5. Copied
    BY <2>2, <2>4 DEF Copied
  <2> QED
    BY <2>1, <2>3, <2>5
<1>2. Base /\ Position /\ Copied /\ [Next]_vars => (Base /\ Position /\ Copied)'
  BY BaseStep, CopiedStep
<1> QED
  BY <1>1, <1>2, PTL DEF Spec

\* For every image with fewer program headers than the next-segment field can
\* count, the segments are loaded in the order of the file, once each, and all
\* of them when the loops of remoteproc_load are through, or the calls of
\* remoteproc_load_noblock: whatever the first window held, whether the store
\* can seek or not, and wherever an error ends the load.
THEOREM SegmentsLoadedOnce == Spec => []SegmentsOnce
<1>1. Base /\ Position /\ Copied => SegmentsOnce
  <2> SUFFICES ASSUME Base, Position, Copied PROVE SegmentsOnce
    OBVIOUS
  <2>1. TypeOK
    BY TypesAre DEF Base
  <2>2. Loadable(img) = Reached(Len(img.ph))
    BY ImageIs DEF Base, Types, Loadable, Reached
  <2> QED
    BY <2>1, <2>2 DEF Position, Copied, SegmentsOnce, StreamEnds, Ends
<1> QED
  BY <1>1, LoadInvariant, PTL

-----------------------------------------------------------------------------
(* The resource table.                                                     *)

\* When the table is looked for after the segments, its headers are read, or
\* could not be, or lie behind segments that end with something else.
Headed ==
  /\ pc \in {"locate", "data", "locate2", "update"} /\ seek => load_state.hdr = 5
  /\ pc = "locate2" =>
       \/ load_state.hdr = 5
       \/ unread
       \/ ~seek /\ img.ph[Len(img.ph)] = "other"

\* Every step keeps that, and the table is found.
LEMMA TableStep ==
  ASSUME Base, Position, Headed, TableFound, [Next]_vars
  PROVE  Headed' /\ TableFound'
<1> USE DEF Ends
<1>1. /\ img' = img /\ seek' = seek /\ stream' = stream
      /\ load_state \in LoadState /\ load_state' \in LoadState
  BY Moves, BaseStep DEF Base, Types
<1>2. /\ stream => ~seek /\ pc \in {"first", "call", "done"}
      /\ ~stream => pc \notin {"first", "call"}
      /\ pc \notin Ends => ret = "none"
  BY DEF Base, Control
<1>3. load_state.hdr = 5 => load_state'.hdr = 5
  <2>1. load_state.hdr \in 1..5 /\ load_state'.hdr \in 1..5
    BY <1>1 DEF LoadState
  <2>2. load_state'.hdr >= load_state.hdr
    BY Moves, SegmentMoves DEF Base, HeaderMove
  <2> QED
    BY <2>1, <2>2
<1>4. CASE \/ \E n \in Windows : Open(n) \/ FirstCall(n)
           \/ OpenFails \/ FormatUnknown \/ HeaderNoMemory \/ FetchFails \/ CallNoMemory
           \/ CallSegmentFails \/ SegmentFails \/ PostNoMemory \/ Fetch \/ CallHeader
           \/ CallSegment
  <2>1. /\ pc' \notin {"locate", "data", "locate2", "update"}
        /\ ~(stream /\ ret' = "zero")
    BY <1>2, <1>4 DEF Open, FirstCall, OpenFails, FormatUnknown, HeaderNoMemory, FetchFails,
         CallNoMemory, CallSegmentFails, SegmentFails, PostNoMemory, Fetch, CallHeader,
         CallSegment, CallError, result
  <2> QED
    BY <1>1, <2>1 DEF Headed, TableFound, StreamEnds
<1>5. CASE LoadHeader
  <2> DEFINE h == ElfLoadHeader(img, load_state, win)
  <2>1. /\ pc = "header" /\ load_state' = h.state /\ ret' = ret
        /\ pc' \in {"locate", "fetch"}
        /\ pc' = "locate" => h.wants = "none" \/ ~seek
    BY <1>5 DEF LoadHeader, result
  <2>2. h.wants = "none" => h.state.hdr = 5
    BY <1>1, HeaderStep
  <2> HIDE DEF h
  <2> QED
    BY <1>1, <1>2, <2>1, <2>2 DEF Headed, TableFound, StreamEnds
<1>6. CASE Locate
  <2>1. pc = "locate" /\ pc' = "data" /\ ret' = ret /\ load_state' = load_state
    BY <1>6 DEF Locate, result
  <2> QED
    BY <1>1, <1>2, <2>1 DEF Headed, TableFound, StreamEnds
<1>7. CASE LoadSegment
  <2>1. pc = "data" /\ pc' = "data" /\ ret' = ret
    BY <1>7 DEF LoadSegment, result
  <2> QED
    BY <1>1, <1>2, <1>3, <2>1 DEF Headed, TableFound, StreamEnds
<1>8. CASE LoadPost
  <2> DEFINE h == ElfLoadPost(img, load_state, win)
  <2>1. /\ pc = "data" /\ load_state.loader = "post" /\ load_state' = h.state
        /\ ret' = ret /\ pc' \in {"data", "locate2"}
        /\ pc' = "locate2" => h.wants = "none" \/ unread'
    BY <1>8 DEF LoadPost
  <2>2. h.wants = "none" => h.state.hdr = 5
    BY <1>1, <2>1, HeaderMoves
  <2> HIDE DEF h
  <2> QED
    BY <1>1, <1>2, <1>3, <2>1, <2>2 DEF Headed, TableFound, StreamEnds
<1>9. ASSUME Break \/ CallBreak PROVE img.ph[Len(img.ph)] = "other"
  <2>1. ~ElfLoadSegment(img, load_state).da /\ load_state.loader = "ready"
    BY <1>9 DEF Break, CallBreak
  <2>2. /\ img \in Images /\ load_state.seg <= Len(img.ph)
        /\ load_state.seg \in Nat /\ Len(img.ph) \in Nat
    BY <1>1, ImageIs DEF Base, Types, Control, LoadState
  <2>3. ~(load_state.seg < Len(img.ph))
    BY <1>1, <2>1, <2>2, SegmentStep
  <2>4. load_state.seg = Len(img.ph)
    BY <2>2, <2>3
  <2> QED
    BY <2>1, <2>4 DEF Position
<1>10. CASE Break
  <2>1. pc = "data" /\ pc' = "locate2" /\ ret' = ret /\ load_state' = load_state
    BY <1>10 DEF Break, header
  <2> QED
    BY <1>1, <1>2, <1>9, <1>10, <2>1 DEF Headed, TableFound, StreamEnds
<1>11. CASE LocateLate
  <2>1. /\ pc = "locate2" /\ pc' = "update" /\ ret' = ret /\ load_state' = load_state
        /\ unread' = unread
        /\ rsc_size' \/ ~LocateRscTable(img, load_state)
    BY <1>11 DEF LocateLate, GetRscTable, header, result
  <2> QED
    BY <1>1, <1>2, <2>1 DEF Headed, TableFound, StreamEnds, LocateRscTable, Complete
<1>12. CASE Update
  <2>1. pc = "update" /\ pc' = "done"
    BY <1>12 DEF Update
  <2> QED
    BY <1>1, <1>2, <2>1 DEF Headed, TableFound, StreamEnds
<1>13. CASE CallBreak
  <2>1. pc = "call" /\ pc' = "done"
    BY <1>13 DEF CallBreak
  <2> QED
    BY <1>1, <1>2, <1>9, <1>13, <2>1 DEF Headed, TableFound, StreamEnds
<1>14. CASE CallComplete
  <2>1. /\ pc = "call" /\ pc' = "done"
        /\ Headers.state.loader = "post" /\ Headers.wants = "none"
        /\ LocateRscTable(img, Headers.state) => rsc_size'
    BY <1>14 DEF CallComplete, CallError
  <2>2. Headers.state.hdr = 5
    <3>1. load_state.loader = "post"
      BY <2>1, HeadersMove DEF Base, HeaderMove
    <3> QED
      BY <2>1, <3>1, HeadersMove DEF Base
  <2> QED
    BY <1>1, <1>2, <2>1, <2>2 DEF Headed, TableFound, StreamEnds, LocateRscTable, Complete
<1>15. CASE Done \/ UNCHANGED vars
  BY <1>15 DEF Done, vars, header, table, result, Headed, TableFound, StreamEnds
<1>16. CASE Error3 \/ Error2 \/ Error1
  <2>1. pc' \in Ends /\ ~stream
    BY <1>2, <1>16 DEF Error3, Error2, Error1
  <2> QED
    BY <1>1, <2>1 DEF Headed, TableFound, StreamEnds
<1> QED
  BY <1>4, <1>5, <1>6, <1>7, <1>8, <1>10, <1>11, <1>12, <1>13, <1>14, <1>15, <1>16 DEF Next

\* The table of every image is taken before a load succeeds, in one of the two
\* looks for it, unless the section headers were not readable, or lie behind the
\* data of an image whose last program header is not PT_LOAD, in a store without
\* seek.
THEOREM TableAlwaysFound == Spec => []TableFound
<1>1. Init => Headed /\ TableFound
  BY DEF Init, Headed, TableFound, StreamEnds
<1>2. Base /\ Position /\ Headed /\ TableFound /\ [Next]_vars => (Headed /\ TableFound)'
  BY TableStep
<1> QED
  BY <1>1, <1>2, LoadInvariant, PTL DEF Spec

-----------------------------------------------------------------------------
(* What the call takes and gives back.                                     *)

\* What is held at each step of remoteproc_load, and what no longer at each of
\* its labels; remoteproc_load_noblock holds only the loader's buffers.
Owned ==
  /\ stream => ~locked /\ ~opened /\ ~rsc_memory
  /\ ~stream /\ pc # "done" => locked /\ (opened <=> pc # "open")
  /\ pc \in {"open", "first", "error1"} => taken = {}
  /\ pc \notin {"error1", "done"} => ~freed
  /\ pc \in {"open", "header", "fetch", "locate"} => rsc_table = "null"
  /\ pc \in {"error2", "error1"} => ~rsc_memory
  /\ pc \in {"data", "locate2", "update", "error3"} => (rsc_table = "table" => rsc_memory)
  /\ rsc_memory => rsc_table = "table"

\* Every step keeps it, when no table is rejected.
LEMMA OwnedStep ==
  ASSUME TableResults \subseteq {"table", "nomem"}, Base, Owned, AllReleased, [Next]_vars
  PROVE  Owned' /\ AllReleased'
<1>1. stream' = stream
  BY Moves DEF Base
<1>2. /\ stream => pc \in {"first", "call", "done"}
      /\ ~stream => pc \notin {"first", "call"}
      /\ pc \notin Ends => ret = "none"
  BY DEF Base, Control
<1> USE DEF Owned, AllReleased, StreamEnds, Ends
<1>3. CASE \E n \in Windows : Open(n)
  BY <1>1, <1>2, <1>3 DEF Open, table
<1>4. CASE \E n \in Windows : FirstCall(n)
  BY <1>1, <1>2, <1>4 DEF FirstCall, table, held
<1>5. CASE OpenFails \/ FormatUnknown
  <2>1. /\ pc = "open" /\ ret' = "negative"
        /\ \/ pc' = "done" /\ opened' = opened /\ ~locked'
           \/ pc' = "error1" /\ opened' /\ locked' = locked
        /\ UNCHANGED <<taken, freed, rsc_memory, rsc_table>>
        /\ stray' => stray \/ ~locked
    <3>1. CASE OpenFails
      BY <3>1 DEF OpenFails, header, table
    <3>2. CASE FormatUnknown
      BY <3>2 DEF FormatUnknown, header, table
    <3> QED
      BY <1>5, <3>1, <3>2
  <2> QED
    BY <1>1, <1>2, <2>1
<1>6. CASE HeaderNoMemory \/ FetchFails
  <2>1. /\ UNCHANGED <<rsc_memory, rsc_table, opened, locked, freed, stray>>
        /\ pc \in {"header", "fetch"} /\ pc' = "error2"
    BY <1>6 DEF HeaderNoMemory, FetchFails, table, held
  <2> QED
    BY <1>1, <1>2, <2>1
<1>7. CASE LoadHeader \/ Fetch \/ LoadSegment \/ CallHeader \/ CallSegment
  <2>1. /\ UNCHANGED <<rsc_memory, rsc_table, opened, locked, freed, stray>>
        /\ \/ pc \in {"header", "fetch"} /\ pc' \in {"header", "fetch", "locate"}
           \/ pc \in {"data", "call"} /\ pc' = pc
    BY <1>7 DEF LoadHeader, Fetch, LoadSegment, CallHeader, CallSegment, table, held
  <2> QED
    BY <1>1, <1>2, <2>1
<1>8. CASE Locate \/ LocateLate
  <2>1. /\ UNCHANGED <<opened, locked, freed, stray>>
        /\ \/ pc = "locate" /\ pc' = "data"
           \/ pc = "locate2" /\ pc' = "update"
    BY <1>8 DEF Locate, LocateLate
  <2>2. CASE GetRscTable
    <3>1. PICK r \in TableResults : /\ rsc_table' = IF r = "table" THEN "table" ELSE "err"
                                    /\ rsc_memory' = (r # "nomem")
      BY <2>2 DEF GetRscTable
    <3>2. rsc_table' = "table" <=> rsc_memory'
      BY <3>1
    <3>3. rsc_table' # "null"
      BY <3>1
    <3> QED
      BY <1>1, <1>2, <2>1, <3>2, <3>3
  <2>3. CASE UNCHANGED <<rsc_memory, rsc_table>>
    BY <1>1, <1>2, <2>1, <2>3
  <2> QED
    BY <1>8, <2>2, <2>3 DEF Locate, LocateLate
<1>9. CASE SegmentFails \/ PostNoMemory
  <2>1. /\ UNCHANGED <<rsc_memory, rsc_table, opened, locked, freed, stray>>
        /\ pc = "data" /\ pc' = "error3"
    BY <1>9 DEF SegmentFails, PostNoMemory, table, held
  <2> QED
    BY <1>1, <1>2, <2>1
<1>10. CASE LoadPost
  <2>1. /\ UNCHANGED <<rsc_memory, rsc_table, opened, locked, freed, stray>>
        /\ pc = "data" /\ pc' \in {"data", "locate2"}
    BY <1>10 DEF LoadPost, table, held
  <2> QED
    BY <1>1, <1>2, <2>1
<1>11. CASE Break
  BY <1>1, <1>2, <1>11 DEF Break, table, held
<1>12. CASE Update
  BY <1>1, <1>2, <1>12 DEF Update, FreeTable, ElfRelease
<1>13. CASE CallNoMemory \/ CallSegmentFails
  <2>1. /\ pc = "call" /\ pc' = "done" /\ taken' = {} /\ stray' = (stray \/ freed)
        /\ UNCHANGED <<rsc_memory, rsc_table, opened, locked>>
    BY <1>13 DEF CallNoMemory, CallSegmentFails, CallError, ElfRelease, table
  <2> QED
    BY <1>1, <1>2, <2>1
<1>14. CASE CallBreak
  BY <1>1, <1>2, <1>14 DEF CallBreak, table, held
<1>15. CASE CallComplete
  <2>1. /\ pc = "call" /\ pc' = "done"
        /\ taken' = {} \/ ret' = "zero"
        /\ stray' => stray \/ freed
        /\ UNCHANGED <<rsc_memory, rsc_table, opened, locked>>
    BY <1>15 DEF CallComplete, CallError, ElfRelease
  <2> QED
    BY <1>1, <1>2, <2>1
<1>16. CASE Error3
  <2>1. /\ pc = "error3" /\ pc' = "error2"
        /\ UNCHANGED <<opened, locked, freed, rsc_table>>
        /\ rsc_memory' = (rsc_memory /\ rsc_table # "table")
        /\ stray' => stray \/ (rsc_table = "table" /\ ~rsc_memory)
    BY <1>16 DEF Error3, FreeTable
  <2> QED
    BY <1>1, <1>2, <2>1
<1>17. CASE Error2
  <2>1. /\ pc = "error2" /\ pc' = "error1" /\ taken' = {}
        /\ UNCHANGED <<opened, locked, rsc_memory, rsc_table>>
        /\ stray' => stray \/ freed
    BY <1>17 DEF Error2, ElfRelease, table
  <2> QED
    BY <1>1, <1>2, <2>1
<1>18. CASE Error1
  BY <1>1, <1>2, <1>18 DEF Error1, header, table
<1>19. CASE Done \/ UNCHANGED vars
  BY <1>19 DEF Done, vars, header, table, held, result
<1> QED
  BY <1>3, <1>4, <1>5, <1>6, <1>7, <1>8, <1>9, <1>10, <1>11, <1>12, <1>13, <1>14, <1>15,
     <1>16, <1>17, <1>18, <1>19 DEF Next

\* Every way out of the load gives back the lock, the store, the loader's buffers
\* and the copy of the table, and none of them without holding it, if
\* remoteproc_get_rsc_table does not refuse a table after the memory for it was
\* allocated: its error path then frees an error pointer in place of the copy.
THEOREM EverythingReleased ==
  TableResults \subseteq {"table", "nomem"} => (Spec => []AllReleased)
<1> SUFFICES ASSUME TableResults \subseteq {"table", "nomem"} PROVE Spec => []AllReleased
  OBVIOUS
<1>1. Init => Owned /\ AllReleased
  BY DEF Init, Owned, AllReleased
<1>2. Base /\ Owned /\ AllReleased /\ [Next]_vars => (Owned /\ AllReleased)'
  BY OwnedStep
<1> QED
  BY <1>1, <1>2, LoadInvariant, PTL DEF Spec

=============================================================================
