---------------------------- MODULE MCRprocLoad ----------------------------
(***************************************************************************)
(* RprocLoad for images with up to three program headers of every kind,    *)
(* whose section headers lie before the segments' data, behind it in       *)
(* either order, or do not exist; the store gives nothing, the ELF header, *)
(* the program headers or the whole file first.                            *)
(***************************************************************************)
EXTENDS RprocLoad

Kinds == {"load", "bss", "other"}

Layouts ==
  { [phdrs |-> 1, shdrs |-> 2, shstrtab |-> 3],
    [phdrs |-> 1, shdrs |-> 6, shstrtab |-> 5],
    [phdrs |-> 4, shdrs |-> 5, shstrtab |-> 6] }

MCImages ==
  [ph : UNION {[1..n -> Kinds] : n \in 1..3}, pos : Layouts,
   sections : {TRUE}, table : BOOLEAN]
  \cup
  [ph : UNION {[1..n -> Kinds] : n \in 1..2}, pos : Layouts,
   sections : {FALSE}, table : {FALSE}]
=============================================================================
