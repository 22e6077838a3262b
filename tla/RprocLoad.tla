----------------------------- MODULE RprocLoad -----------------------------
(***************************************************************************)
(* remoteproc_load (openamp/open-amp/remoteproc/remoteproc.c) for one call *)
(* in the state READY: it fetches the headers of an image from a store,    *)
(* has its segments copied to the target and takes its resource table.     *)
(* The store may be unable to seek, and each of its operations, each       *)
(* allocation and each mapping may fail.  The lock is held throughout, so  *)
(* a step is one turn of the code's loops.                                 *)
(*                                                                         *)
(* Or remoteproc_load_noblock, for a caller that has the image come in     *)
(* pieces: it passes what it is asked for and calls again, until neither   *)
(* data is asked for nor an address given.  A step is one call.            *)
(***************************************************************************)
EXTENDS ElfLoader

CONSTANTS
  Images,         \* the images, as module ElfLoader describes them
  Windows,        \* how much of an image store_ops->open may give
  FetchResults,   \* of store_ops->load into local memory: "ok", "short", "negative"
  TableResults    \* of remoteproc_get_rsc_table: "table", "nomem", "invalid"

ASSUME RprocLoadAssumption ==
  /\ FetchResults \subseteq {"ok", "short", "negative"}
  /\ TableResults \subseteq {"table", "nomem", "invalid"}
  /\ SEGMENTS \in Nat
  /\ \A im \in Images : /\ im.ph \in Seq({"load", "bss", "other"})
                         /\ Len(im.ph) \in 1..SEGMENTS - 1

VARIABLES
  img, seek,     \* the image, and store_ops->features & SUPPORT_SEEK
  stream,        \* remoteproc_load_noblock
  pc,            \* the next turn
  win,           \* the part of the image in img_data, offset and len
  wants,         \* the header at noffset
  load_state,    \* of the ELF loader
  taken,         \* the buffers of limg_info
  loaded,        \* the segments in the target's memory
  rsc_size,      \* rsc_size > 0
  rsc_table,     \* the local pointer: "null", "table", or "err", an RPROC_ERR_PTR
  rsc_memory,    \* the memory allocated for it is not freed
  rproc_table,   \* rproc->rsc_table has been set
  opened, locked,
  ret,           \* the result: "none", "zero", "negative", "positive"
  atBreak,       \* the loader state at the break without a request
  unread,        \* the section headers could not be read, which is a warning
  freed,         \* limg_info has been released
  stray,         \* history: something was given back that the call did not hold
  badFree        \* history: metal_free_memory was given an RPROC_ERR_PTR

header == <<win, wants, load_state, taken>>
table  == <<rsc_size, rsc_table, rsc_memory, rproc_table>>
held   == <<opened, locked, freed, stray, badFree>>
result == <<ret, atBreak, unread>>
vars   == <<img, seek, stream, pc, loaded, header, table, held, result>>

Init ==
  /\ img \in Images /\ seek \in BOOLEAN
  /\ stream \in BOOLEAN /\ (stream => ~seek)
  /\ pc = IF stream THEN "first" ELSE "open"
  /\ win = [off |-> 0, len |-> 0] /\ wants = "none"
  /\ load_state = InitState
  /\ taken = {}
  /\ loaded = <<>>
  /\ rsc_size = FALSE /\ rsc_table = "null" /\ rsc_memory = FALSE
  /\ rproc_table = FALSE
  /\ opened = FALSE /\ locked = ~stream
  /\ freed = FALSE /\ stray = FALSE /\ badFree = FALSE
  /\ ret = "none" /\ atBreak = "none" /\ unread = FALSE

-----------------------------------------------------------------------------

\* elf_release of limg_info and its buffers, if it is not NULL.
ElfRelease(buffers) ==
  /\ taken' = {}
  /\ freed' = (freed \/ buffers # {})

\* metal_free_memory of the copy of the table, or of an RPROC_ERR_PTR.
FreeTable ==
  /\ rsc_memory' = (rsc_memory /\ rsc_table # "table")
  /\ badFree' = (badFree \/ rsc_table = "err")

\* The label error3 of remoteproc_load: the resource table, if there is one.
Error3 ==
  /\ pc = "error3"
  /\ FreeTable
  /\ stray' = (stray \/ (rsc_table = "table" /\ ~rsc_memory))
  /\ pc' = "error2"
  /\ UNCHANGED <<img, seek, stream, loaded, header, rsc_size, rsc_table, rproc_table, opened,
                 locked, freed, result>>

\* error2: the loader's buffers.
Error2 ==
  /\ pc = "error2"
  /\ ElfRelease(taken)
  /\ stray' = (stray \/ freed)
  /\ pc' = "error1"
  /\ UNCHANGED <<img, seek, stream, loaded, win, wants, load_state, table, opened, locked,
                 badFree, result>>

\* error1: the store and the lock.
Error1 ==
  /\ pc = "error1"
  /\ opened' = FALSE /\ locked' = FALSE
  /\ stray' = (stray \/ ~opened \/ ~locked)
  /\ pc' = "done"
  /\ UNCHANGED <<img, seek, stream, loaded, header, table, freed, badFree, result>>

\* store_ops->open and remoteproc_check_fw_format.
Open(n) ==
  /\ pc = "open"
  /\ opened' = TRUE
  /\ win' = [off |-> 0, len |-> n]
  /\ pc' = "header"
  /\ UNCHANGED <<img, seek, stream, loaded, wants, load_state, taken, table, locked, freed,
                 stray, badFree, result>>

\* Mutant: a store that was not opened is closed.
OpenFailsError1 ==
  /\ pc = "open"
  /\ pc' = "error1" /\ ret' = "negative"
  /\ UNCHANGED <<img, seek, stream, loaded, header, table, held, atBreak, unread>>

\* Without a store there is only the lock to give back.
OpenFails ==
  /\ pc = "open"
  /\ locked' = FALSE /\ stray' = (stray \/ ~locked)
  /\ pc' = "done" /\ ret' = "negative"
  /\ UNCHANGED <<img, seek, stream, loaded, header, table, opened, freed, badFree, atBreak,
                 unread>>

\* No loader for the image.
FormatUnknown ==
  /\ pc = "open"
  /\ opened' = TRUE
  /\ pc' = "error1" /\ ret' = "negative"
  /\ UNCHANGED <<img, seek, stream, loaded, header, table, locked, freed, stray, badFree,
                 atBreak, unread>>

\* A turn of the loop over the headers: it is left when all are read, or when
\* the rest lies behind the window of a store that cannot seek.
LoadHeader ==
  /\ pc = "header"
  /\ LET h == ElfLoadHeader(img, load_state, win)
         behind == h.wants # "none" /\ h.wants # "ehdr"
                   /\ img.pos[h.wants] > win.off + win.len
     IN /\ load_state' = h.state
        /\ taken' = taken \cup h.taken
        /\ wants' = h.wants
        /\ pc' = IF h.state.loader = "ready" /\ (h.wants = "none" \/ (behind /\ ~seek))
                 THEN "locate" ELSE "fetch"
  /\ UNCHANGED <<img, seek, stream, loaded, win, table, held, result>>

HeaderNoMemory ==
  /\ pc = "header"
  /\ \E h \in ElfLoadHeaderNoMemory(img, load_state, win) :
       load_state' = h.state /\ taken' = taken \cup h.taken
  /\ pc' = "error2" /\ ret' = "negative"
  /\ UNCHANGED <<img, seek, stream, loaded, win, wants, table, held, atBreak, unread>>

\* Mutant: the offset of the header is not kept for the next turn.
FetchOffset(h) == [off |-> 0, len |-> 1]

\* The header at noffset, of nlen.
Fetched(h) == [off |-> IF h = "ehdr" THEN 0 ELSE img.pos[h], len |-> 1]

\* store_ops->load for the header; what it gives is the result on an error.
Fetch ==
  /\ pc = "fetch"
  /\ "ok" \in FetchResults
  /\ win' = Fetched(wants)
  /\ pc' = "header"
  /\ UNCHANGED <<img, seek, stream, loaded, wants, load_state, taken, table, held, result>>

FetchFails ==
  /\ pc = "fetch"
  /\ \/ "short" \in FetchResults /\ ret' \in {"zero", "positive"}
     \/ "negative" \in FetchResults /\ ret' = "negative"
  /\ pc' = "error2"
  /\ UNCHANGED <<img, seek, stream, loaded, header, table, held, atBreak, unread>>

\* remoteproc_get_rsc_table: the error path frees the RPROC_ERR_PTR that has
\* replaced the pointer to the memory.
GetRscTable ==
  /\ rsc_size' = TRUE
  /\ \E r \in TableResults :
       /\ rsc_table' = IF r = "table" THEN "table" ELSE "err"
       /\ rsc_memory' = (r # "nomem")
       /\ badFree' = (badFree \/ r = "invalid")

\* Mutant: the table is only looked for before the segments are loaded.
LocateLateNot ==
  /\ pc = "locate2"
  /\ pc' = "update"
  /\ UNCHANGED <<img, seek, stream, loaded, header, table, held, result>>

\* The first look for the table, before the segments.
Locate ==
  /\ pc = "locate"
  /\ IF LocateRscTable(img, load_state)
     THEN GetRscTable
     ELSE UNCHANGED <<rsc_size, rsc_table, rsc_memory, badFree>>
  /\ win' = [off |-> 0, len |-> 0]
  /\ pc' = "data"
  /\ UNCHANGED <<img, seek, stream, loaded, wants, load_state, taken, rproc_table, opened,
                 locked, freed, stray, result>>

\* The second look, after the segments.
LocateLate ==
  /\ pc = "locate2"
  /\ IF ~rsc_size /\ LocateRscTable(img, load_state)
     THEN GetRscTable
     ELSE UNCHANGED <<rsc_size, rsc_table, rsc_memory, badFree>>
  /\ pc' = "update"
  /\ UNCHANGED <<img, seek, stream, loaded, header, rproc_table, opened, locked, freed,
                 stray, result>>

\* A turn of the loop over the data that finds a segment, or a program header
\* with an address: remoteproc_mmap and store_ops->load to the target.
LoadSegment ==
  /\ pc = "data"
  /\ load_state.loader = "ready"
  /\ LET d == ElfLoadSegment(img, load_state)
     IN /\ d.da
        /\ load_state' = d.state
        /\ loaded' = IF d.segment = 0 THEN loaded ELSE Append(loaded, d.segment)
  /\ UNCHANGED <<img, seek, stream, pc, win, wants, taken, table, held, result>>

\* Mutant: the copy of the table is forgotten.
SegmentFailsError2 ==
  /\ pc = "data"
  /\ load_state.loader = "ready"
  /\ ElfLoadSegment(img, load_state).da
  /\ load_state' = ElfLoadSegment(img, load_state).state
  /\ pc' = "error2" /\ ret' = "negative"
  /\ UNCHANGED <<img, seek, stream, loaded, win, wants, taken, table, held, atBreak, unread>>

\* No mapping for its address, or not all of its data; what was loaded stays.
SegmentFails ==
  /\ pc = "data"
  /\ load_state.loader = "ready"
  /\ ElfLoadSegment(img, load_state).da
  /\ load_state' = ElfLoadSegment(img, load_state).state
  /\ pc' = "error3" /\ ret' = "negative"
  /\ UNCHANGED <<img, seek, stream, loaded, win, wants, taken, table, held, atBreak, unread>>

\* A turn after the segments: the headers that are still missing.
LoadPost ==
  /\ pc = "data"
  /\ load_state.loader = "post"
  /\ LET h == ElfLoadPost(img, load_state, win)
     IN /\ load_state' = h.state
        /\ taken' = taken \cup h.taken
        /\ wants' = h.wants
        /\ IF h.wants = "none"
           THEN /\ atBreak' = h.state.loader
                /\ pc' = "locate2"
                /\ UNCHANGED <<win, unread>>
           ELSE /\ UNCHANGED atBreak
                /\ \/ win' = Fetched(h.wants) /\ UNCHANGED <<pc, unread>>
                   \/ /\ FetchResults # {"ok"}
                      /\ unread' = TRUE /\ pc' = "locate2" /\ UNCHANGED win
  /\ UNCHANGED <<img, seek, stream, loaded, table, held, ret>>

PostNoMemory ==
  /\ pc = "data"
  /\ load_state.loader = "post"
  /\ \E h \in ElfLoadHeaderNoMemory(img, load_state, win) :
       load_state' = h.state /\ taken' = taken \cup h.taken
  /\ pc' = "error3" /\ ret' = "negative"
  /\ UNCHANGED <<img, seek, stream, loaded, win, wants, table, held, atBreak, unread>>

\* No address and no request: the loop is left.
Break ==
  /\ pc = "data"
  /\ load_state.loader = "ready"
  /\ ~ElfLoadSegment(img, load_state).da
  /\ atBreak' = load_state.loader
  /\ pc' = "locate2"
  /\ UNCHANGED <<img, seek, stream, loaded, header, table, held, ret, unread>>

\* The table is written to the target if it can be mapped, and the local copy
\* is freed.  An RPROC_ERR_PTR is not told from a table: the copy from it, which
\* faults, is left out.  The caller wants no img_info, so it is released.
Update ==
  /\ pc = "update"
  /\ \E mapped \in IF rsc_table = "null" THEN {FALSE} ELSE BOOLEAN :
       rproc_table' = mapped
  /\ FreeTable
  /\ rsc_table' = "null"
  /\ ElfRelease(taken)
  /\ opened' = FALSE /\ locked' = FALSE
  /\ stray' = (\/ stray \/ (rsc_table = "table" /\ ~rsc_memory)
               \/ freed \/ ~opened \/ ~locked)
  /\ pc' = "done" /\ ret' = "zero"
  /\ UNCHANGED <<img, seek, stream, loaded, win, wants, load_state, rsc_size, atBreak,
                 unread>>

-----------------------------------------------------------------------------
(* remoteproc_load_noblock.                                                *)

\* Its label error1, in a call that has taken more buffers.
CallError(buffers) ==
  /\ ElfRelease(taken \cup buffers)
  /\ stray' = (stray \/ freed)
  /\ pc' = "done"

\* The first call identifies the image, from what the caller has of it.
FirstCall(n) ==
  /\ pc = "first"
  /\ IF n = 0
     THEN pc' = "done" /\ ret' = "negative" /\ UNCHANGED win
     ELSE pc' = "call" /\ win' = [off |-> 0, len |-> n] /\ UNCHANGED ret
  /\ UNCHANGED <<img, seek, stream, loaded, wants, load_state, taken, table, held, atBreak,
                 unread>>

\* Before and after the segments a call takes the headers it is given.
Headers ==
  IF load_state.loader \in {"not_ready", "post"}
  THEN ElfLoadHeader(img, load_state, win)
  ELSE [state |-> load_state, taken |-> {}, wants |-> "none"]

\* A header is asked for, in local memory.
CallHeader ==
  /\ pc = "call"
  /\ Headers.state.loader # "ready" /\ Headers.wants # "none"
  /\ load_state' = Headers.state
  /\ taken' = taken \cup Headers.taken
  /\ wants' = Headers.wants
  /\ win' = Fetched(Headers.wants)
  /\ UNCHANGED <<img, seek, stream, pc, loaded, table, held, result>>

CallNoMemory ==
  /\ pc = "call"
  /\ load_state.loader \in {"not_ready", "post"}
  /\ \E h \in ElfLoadHeaderNoMemory(img, load_state, win) :
       load_state' = h.state /\ CallError(h.taken)
  /\ ret' = "negative"
  /\ UNCHANGED <<img, seek, stream, loaded, win, wants, table, opened, locked, badFree,
                 atBreak, unread>>

\* An address for a segment, which the caller loads to the target; or for a
\* program header that is not to be loaded.
CallSegment ==
  /\ pc = "call"
  /\ Headers.state.loader = "ready"
  /\ LET d == ElfLoadSegment(img, Headers.state)
     IN /\ d.da
        /\ load_state' = d.state
        /\ loaded' = IF d.segment = 0 THEN loaded ELSE Append(loaded, d.segment)
  /\ taken' = taken \cup Headers.taken
  /\ win' = [off |-> 0, len |-> 0] /\ wants' = "none"
  /\ UNCHANGED <<img, seek, stream, pc, table, held, result>>

\* No mapping for the address.
CallSegmentFails ==
  /\ pc = "call"
  /\ Headers.state.loader = "ready"
  /\ ElfLoadSegment(img, Headers.state).da
  /\ load_state' = ElfLoadSegment(img, Headers.state).state
  /\ CallError(Headers.taken)
  /\ ret' = "negative"
  /\ UNCHANGED <<img, seek, stream, loaded, win, wants, table, opened, locked, badFree,
                 atBreak, unread>>

\* Neither segment nor request: the caller is done, though the loader is not.
CallBreak ==
  /\ pc = "call"
  /\ load_state.loader = "ready"
  /\ ~ElfLoadSegment(img, load_state).da
  /\ atBreak' = load_state.loader
  /\ pc' = "done" /\ ret' = "zero"
  /\ UNCHANGED <<img, seek, stream, loaded, header, table, held, unread>>

\* All headers: the table is read from the target's memory, handled and written
\* back.  The local copy is freed on every path; without a mapping the result
\* is still that of the search, 0.  Else the caller keeps img_info.
CallComplete ==
  /\ pc = "call"
  /\ Headers.state.loader = "post" /\ Headers.wants = "none"
  /\ load_state' = [Headers.state EXCEPT !.loader = "complete"]
  /\ IF LocateRscTable(img, Headers.state)
     THEN \E r \in {"table", "nomem", "unmapped", "short", "invalid"} :
            /\ rsc_size' = TRUE
            /\ rproc_table' = (r = "table")
            /\ IF r = "table"
               THEN /\ taken' = taken \cup Headers.taken
                    /\ pc' = "done"
                    /\ UNCHANGED <<freed, stray>>
               ELSE CallError(Headers.taken)
            /\ ret' = CASE r \in {"table", "unmapped"} -> "zero"
                         [] r = "short"                 -> "positive"
                         [] OTHER                       -> "negative"
     ELSE /\ taken' = taken \cup Headers.taken
          /\ pc' = "done" /\ ret' = "zero"
          /\ UNCHANGED <<rsc_size, rproc_table, freed, stray>>
  /\ UNCHANGED <<img, seek, stream, loaded, win, wants, rsc_table, rsc_memory, opened,
                 locked, badFree, atBreak, unread>>

Done == pc = "done" /\ UNCHANGED vars

Next ==
  \/ \E n \in Windows : Open(n)
  \/ OpenFails \/ FormatUnknown \/ LoadHeader \/ HeaderNoMemory \/ Fetch \/ FetchFails
  \/ Locate \/ LoadSegment \/ SegmentFails \/ LoadPost \/ PostNoMemory \/ Break
  \/ LocateLate \/ Update \/ Error3 \/ Error2 \/ Error1 \/ Done
  \/ \E n \in Windows : FirstCall(n)
  \/ CallHeader \/ CallNoMemory \/ CallSegment \/ CallSegmentFails
  \/ CallBreak \/ CallComplete

\* The call is not interrupted for ever.
Spec == Init /\ [][Next]_vars /\ WF_vars(Next)

-----------------------------------------------------------------------------
(* Properties.                                                             *)

States == {"not_ready", "ready", "post", "complete"}

\* The type of the state.
TypeOK ==
  /\ img \in Images
  /\ pc \in {"open", "header", "fetch", "locate", "data", "locate2", "update",
            "error3", "error2", "error1", "done", "first", "call"}
  /\ wants \in {Waits[i] : i \in DOMAIN Waits} \cup {"none"}
  /\ load_state \in [hdr : DOMAIN Stages, loader : States, seg : 0..SEGMENTS - 1]
  /\ taken \subseteq {Waits[i] : i \in DOMAIN Waits}
  /\ loaded \in Seq(DOMAIN img.ph)
  /\ rsc_table \in {"null", "table", "err"}
  /\ {seek, stream, rsc_size, rsc_memory, rproc_table, opened, locked, unread, freed,
      stray, badFree} \subseteq BOOLEAN
  /\ ret \in {"none", "zero", "negative", "positive"}
  /\ atBreak \in States \cup {"none"}

StreamEnds == stream /\ ret = "zero"

\* The segments are loaded in the order of the file and once each, and when the
\* load went through its loops, or the calls of remoteproc_load_noblock came to
\* their end, all of them are, wherever the image has its headers and whatever
\* of it is there first.
SegmentsOnce ==
  /\ TypeOK
  /\ \A i, j \in DOMAIN loaded : i < j => loaded[i] < loaded[j]
  /\ (pc \in {"locate2", "update"} \/ StreamEnds) => {loaded[i] : i \in DOMAIN loaded} = Loadable(img)

\* The table of an image is taken before the call succeeds, before the segments
\* or after them, unless the headers are not readable, or lie behind segments
\* of a store without seek that end with something not to be loaded.
TableFound ==
  (pc = "update" \/ StreamEnds) /\ img.table =>
    \/ rsc_size
    \/ unread
    \/ ~seek /\ img.ph[Len(img.ph)] = "other"

\* Every way out of the call, from every label that an error of the store, an
\* allocation or a mapping takes it to, gives back the lock, the store, the
\* loader's buffers and the copy of the table, and nothing that it does not hold
\* or no longer holds; the buffers stay with the caller of remoteproc_load_noblock
\* when it succeeds.  It does not hold when a table is refused after the memory
\* for it was allocated ("invalid" in TableResults).
AllReleased ==
  /\ ~stray
  /\ pc = "done" => /\ ~locked /\ ~opened /\ ~rsc_memory
                    /\ taken = {} \/ StreamEnds

\* The load ends: no image makes its loops, or call after call, ask for the same
\* header again.
LoadEnds == <>(pc = "done")

\* remoteproc.c says at the break: (last_load_state & LOAD_COMPLETE) != 0.
BreakIsComplete == atBreak \in {"none", "complete"}

\* alloc.h: metal_free_memory frees "the memory previously allocated".
FreesAllocated == ~badFree

\* remoteproc.h: "return 0 for success and negative value for failure".
ResultTells ==
  /\ ret # "positive"
  /\ ret = "zero" => {loaded[i] : i \in DOMAIN loaded} = Loadable(img)

=============================================================================
