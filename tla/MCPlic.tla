------------------------------- MODULE MCPlic -------------------------------
(***************************************************************************)
(* Plic with two lines, four calls of the task and three assertions of a   *)
(* line: both lines requested, then one switched off and on or freed while *)
(* the handler of the other runs between any two accesses.  One use is     *)
(* disciplined; in the other handlers call everything and line 2 may be    *)
(* enabled without a handler.                                              *)
(***************************************************************************)
EXTENDS Plic

MCUses ==
  { [calls |-> {"none", "disable other"}, unrequested |-> {}],
    [calls |-> {"none", "disable own", "disable other", "enable other"},
     unrequested |-> {2}] }
=============================================================================
