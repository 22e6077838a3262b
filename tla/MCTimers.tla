------------------------------ MODULE MCTimers ------------------------------
(***************************************************************************)
(* Timers with an auto-reload and a one-shot timer, a counter that wraps   *)
(* after a few ticks and a short queue.                                    *)
(***************************************************************************)
EXTENDS Timers

CONSTANTS r, o

Do(cmd, t, n) == [cmd |-> cmd, timer |-> t, val |-> n]
MCTimerSet == {r, o}
MCPeriod == [t \in MCTimerSet |-> 2]
MCCommands == {Do("start", r, 1), Do("start", o, 1), Do("delete", o, 1)}
MCIsr == {Do("stop", r, 1), Do("period", r, 1), Do("pend", r, 1)}
MCModes == {[timer |-> r, auto |-> FALSE]}

\* Commands for the statements of timers.h that do not hold.
MCStop == {Do("start", r, 1), Do("stop", r, 1)}
MCDelete == {Do("start", r, 1), Do("delete", r, 1)}
=============================================================================
