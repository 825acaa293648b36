--------------------------- MODULE AllocBufAtomic ---------------------------
(***************************************************************************)
(* What one call of BufMgr::allocBuf promises, as the rest of the buffer  *)
(* manager uses it: a single atomic step from the state at the call to   *)
(* AllocBuf(st, fault), the operator BufPool defines by recursion over the *)
(* turns of the clock.  ClockSweep refines this module.                   *)
(***************************************************************************)
EXTENDS BufPool

VARIABLES
    st,       \* the buffer-manager state record
    pc,       \* "loop" while the call runs, "done" once it has returned
    status,   \* the Status the call returns
    frame,    \* the frame it returns through its reference argument
    fault     \* the fault record of the call

vars == <<st, pc, status, frame, fault>>

Init ==
    /\ pc = "loop"
    /\ status = "none"
    /\ frame = NoFrame
    /\ fault \in Faults(TRUE, FALSE, FALSE)

Call ==
    /\ pc = "loop"
    /\ LET r == AllocBuf(st, fault)
       IN /\ st' = r.st
          /\ status' = r.status
          /\ frame' = r.frame
    /\ pc' = "done"
    /\ UNCHANGED fault

Spec == Init /\ [][Call]_vars

=============================================================================
