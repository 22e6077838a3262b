----------------------------- MODULE ElfLoader -----------------------------
(***************************************************************************)
(* The ELF loader (openamp/open-amp/remoteproc/elf_loader.c) as functions  *)
(* of the image, the load state and the part of the image that the caller  *)
(* holds in local memory.  Module RprocLoad drives it.                     *)
(*                                                                         *)
(* A header of the image is one unit long and at a position of its own;    *)
(* img.ph lists the program headers: "load", "bss" (PT_LOAD without data   *)
(* in the file) or "other" (not PT_LOAD).                                  *)
(***************************************************************************)
EXTENDS Naturals, Sequences, FiniteSets

CONSTANT SEGMENTS     \* ELF_NEXT_SEGMENT_MASK + 1

\* The states ELF_STATE_INIT .. ELF_STATE_HDRS_COMPLETE, and the header that
\* each waits for.
Stages == <<"init", "phdrs", "shdrs", "shstrtab", "complete">>
Waits  == <<"ehdr", "phdrs", "shdrs", "shstrtab">>

Complete == 5

\* elf_info.load_state: header stage, loader state and next segment.
InitState == [hdr |-> 1, loader |-> "not_ready", seg |-> 0]

\* The window [off, off + len) holds the header.
Holds(img, win, h) ==
  IF h = "ehdr" THEN win.len >= 1
  ELSE win.off <= img.pos[h] /\ img.pos[h] + 1 <= win.off + win.len

\* The header of stage i is at hand, or there are no section headers.
Passes(img, win, i) ==
  \/ i >= 3 /\ ~img.sections
  \/ Holds(img, win, Waits[i])

\* elf_load_header: it takes the headers that the window holds, each into a
\* buffer of its own, and asks for the first one it lacks.
ElfLoadHeader(img, s, win) ==
  LET stop == CHOOSE i \in s.hdr..Complete :
                /\ i = Complete \/ ~Passes(img, win, i)
                /\ \A j \in s.hdr..i - 1 : Passes(img, win, j)
  IN [state |-> [s EXCEPT !.hdr = stop,
                          !.loader = IF @ = "not_ready" /\ stop >= 3 THEN "ready" ELSE @],
      taken |-> {Waits[i] : i \in {j \in s.hdr..stop - 1 : j < 3 \/ img.sections}},
      wants |-> IF stop = Complete THEN "none" ELSE Waits[stop]]

\* elf_load_header without the memory for a header that it takes.
ElfLoadHeaderNoMemory(img, s, win) ==
  {[state |-> [s EXCEPT !.hdr = i,
                        !.loader = IF @ = "not_ready" /\ i >= 3 THEN "ready" ELSE @],
    taken |-> {Waits[j] : j \in s.hdr..i - 1}] :
     i \in {j \in s.hdr..4 : Waits[j] \in ElfLoadHeader(img, s, win).taken}}

\* Mutant: a program header that is not PT_LOAD ends the search.
NextSegmentStops(img, s) ==
  {i \in s.seg + 1..Len(img.ph) : \A j \in s.seg + 1..i : img.ph[j] # "other"}

\* The PT_LOAD headers that elf_next_load_segment has still to find.
NextSegments(img, s) == {i \in s.seg + 1..Len(img.ph) : img.ph[i] # "other"}

\* elf_load in the state READY_TO_LOAD: the next segment, or none; da is set by
\* every program header it reads, by those that are not PT_LOAD also.
ElfLoadSegment(img, s) ==
  LET next == NextSegments(img, s)
  IN IF next = {}
     THEN [state |-> [s EXCEPT !.seg = Len(img.ph) % SEGMENTS],
           segment |-> 0, da |-> s.seg < Len(img.ph)]
     ELSE LET i == CHOOSE k \in next : \A l \in next : k <= l
          IN [state |-> [s EXCEPT !.seg = i % SEGMENTS,
                                  !.loader = IF i = Len(img.ph) THEN "post" ELSE @],
              segment |-> i, da |-> TRUE]

\* elf_load in the state POST_DATA_LOAD: the headers that are missing.
ElfLoadPost(img, s, win) ==
  LET h == ElfLoadHeader(img, s, win)
  IN IF s.hdr = Complete
     THEN [state |-> [s EXCEPT !.loader = "complete"], taken |-> {}, wants |-> "none"]
     ELSE IF h.wants = "none"
     THEN [h EXCEPT !.state.loader = "complete"]
     ELSE h

\* elf_locate_rsc_table: -RPROC_ERR_LOADER_STATE before all headers are read.
LocateRscTable(img, s) == s.hdr = Complete /\ img.table

\* The segments that have to be in the target's memory.
Loadable(img) == {i \in DOMAIN img.ph : img.ph[i] # "other"}
=============================================================================
