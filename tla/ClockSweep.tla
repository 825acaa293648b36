----------------------------- MODULE ClockSweep -----------------------------
(***************************************************************************)
(* BufMgr::allocBuf of src/buf.C, one turn of its while(true) loop per   *)
(* step.  A behaviour is one call: it starts in any state the buffer       *)
(* manager can be in between calls (CallStates) and ends when the call    *)
(* returns.  BufPool folds the same loop into the recursive operator       *)
(* Sweep; here the loop is unfolded so that its termination is a         *)
(* liveness property, and the folded operator is shown to be what the     *)
(* unfolded loop computes (AllocBufRefined).                              *)
(***************************************************************************)
EXTENDS BufPool

VARIABLES
    st,              \* bufTable, bufPool, hashTable, clockHand, disk
    pc,              \* "loop" inside while(true), "done" after a return
    numPinnedPages,  \* the loop's local counter
    status,          \* the returned Status ("none" before the return)
    frame,           \* the frame returned through the reference argument
    fault,           \* the fault record of the call (write-back failures)
    st0              \* history: the state at the call, for the refinement

vars == <<st, pc, numPinnedPages, status, frame, fault, st0>>

(***************************************************************************)
(* States between calls.  A valid frame holds a distinct page, with any   *)
(* pin count, dirty bit and reference bit; an invalid frame is as the     *)
(* constructor or Clear() left it.  The hash table holds exactly the      *)
(* valid frames' pages, every frame's content differs from the page on    *)
(* disk so that a write-back shows, and the hand may point anywhere.      *)
(***************************************************************************)
Descs ==
    {InitDesc, Clear(InitDesc)}
    \cup [valid : {TRUE}, file : Files, pageNo : PageNos,
          pinCnt : {0, 1}, dirty : BOOLEAN, refbit : BOOLEAN]

Resident(bt, k) == {i \in Frames : bt[i].valid /\ <<bt[i].file, bt[i].pageNo>> = k}

CallStates ==
    {[bufTable  |-> bt,
      bufPool   |-> [i \in Frames |-> EmptyPage + 1],
      hashTable |-> [k \in PageKeys |->
                       IF Resident(bt, k) = {} THEN NoFrame
                       ELSE CHOOSE i \in Resident(bt, k) : TRUE],
      clockHand |-> h,
      disk      |-> [f \in Files |-> [p \in PageNos |-> EmptyPage]]] :
       h \in Frames,
       bt \in {t \in [Frames -> Descs] :
                 \A k \in PageKeys : Cardinality(Resident(t, k)) <= 1}}

Init ==
    /\ st \in CallStates
    /\ pc = "loop"
    /\ numPinnedPages = 0
    /\ status = "none"
    /\ frame = NoFrame
    /\ fault \in Faults(TRUE, FALSE, FALSE)
    /\ st0 = st

(***************************************************************************)
(* advanceClock(), and the frame the hand then points at (curBuffer).     *)
(***************************************************************************)
Hand == (st.clockHand + 1) % NumBufs
Cur == st.bufTable[Hand]
Advanced == [st EXCEPT !.clockHand = Hand]

Return(s, ret, fr) ==
    /\ st' = s
    /\ status' = ret
    /\ frame' = fr
    /\ pc' = "done"
    /\ UNCHANGED <<numPinnedPages, fault, st0>>

Continue(s, n) ==
    /\ st' = s
    /\ numPinnedPages' = n
    /\ UNCHANGED <<pc, status, frame, fault, st0>>

\* if (numBufs == numPinnedPages) return BUFFEREXCEEDED;
Exceeded ==
    /\ pc = "loop"
    /\ NumBufs = numPinnedPages
    /\ Return(st, "BUFFEREXCEEDED", NoFrame)

Turn == pc = "loop" /\ NumBufs # numPinnedPages

\* An invalid frame is taken at once.
TakeInvalid ==
    /\ Turn
    /\ ~Cur.valid
    /\ Return([Advanced EXCEPT !.bufTable[Hand] = Clear(Cur)], "OK", Hand)

\* A set reference bit is cleared and the loop goes on.
ClearRefbit ==
    /\ Turn
    /\ Cur.valid /\ Cur.refbit
    /\ Continue([Advanced EXCEPT !.bufTable[Hand].refbit = FALSE], numPinnedPages)

\* A pinned frame is counted and passed over (SkipPinnedNoCount is a
\* mutant that forgets numPinnedPages++).
SkipPinnedNoCount ==
    /\ Turn
    /\ Cur.valid /\ ~Cur.refbit /\ Cur.pinCnt > 0
    /\ Continue(Advanced, numPinnedPages)

SkipPinned ==
    /\ Turn
    /\ Cur.valid /\ ~Cur.refbit /\ Cur.pinCnt > 0
    /\ Continue(Advanced, numPinnedPages + 1)

Victim == Turn /\ Cur.valid /\ ~Cur.refbit /\ Cur.pinCnt = 0

\* The write-back of a dirty victim fails: return UNIXERR.
WriteFails ==
    /\ Victim
    /\ Cur.dirty /\ fault.write = Hand
    /\ Return(Advanced, "UNIXERR", NoFrame)

\* The victim is written back if dirty, its hash entry removed, its
\* descriptor cleared.  (EvictNoWrite and EvictNoClear are mutants: the
\* write-back or the Clear() is left out.)
EvictNoClear ==
    /\ Victim
    /\ ~(Cur.dirty /\ fault.write = Hand)
    /\ LET w == IF Cur.dirty
                THEN FileWritePage(Advanced, Cur.file, Cur.pageNo, st.bufPool[Hand])
                ELSE Advanced
           r == HashRemove(w, Cur.file, Cur.pageNo)
       IN IF r.status # "OK" THEN Return(r.st, r.status, NoFrame)
          ELSE Return([r.st EXCEPT !.bufTable[Hand].valid = FALSE], "OK", Hand)

EvictNoWrite ==
    /\ Victim
    /\ ~(Cur.dirty /\ fault.write = Hand)
    /\ LET r == HashRemove(Advanced, Cur.file, Cur.pageNo)
       IN IF r.status # "OK" THEN Return(r.st, r.status, NoFrame)
          ELSE Return([r.st EXCEPT !.bufTable[Hand] = Clear(Cur)], "OK", Hand)

Evict ==
    /\ Victim
    /\ ~(Cur.dirty /\ fault.write = Hand)
    /\ LET w == IF Cur.dirty
                THEN FileWritePage(Advanced, Cur.file, Cur.pageNo, st.bufPool[Hand])
                ELSE Advanced
           r == HashRemove(w, Cur.file, Cur.pageNo)
       IN IF r.status # "OK" THEN Return(r.st, r.status, NoFrame)
          ELSE Return([r.st EXCEPT !.bufTable[Hand] = Clear(Cur)], "OK", Hand)

Next ==
    \/ Exceeded
    \/ TakeInvalid
    \/ ClearRefbit
    \/ SkipPinned
    \/ WriteFails
    \/ Evict

\* The call runs to its return once made: the buffer manager is single
\* threaded and nothing inside allocBuf blocks, so the loop is weakly fair.
Spec == Init /\ [][Next]_vars /\ WF_vars(Next)

-----------------------------------------------------------------------------

TypeOK ==
    /\ st.clockHand \in Frames
    /\ st.bufTable \in [Frames -> Descs]
    /\ pc \in {"loop", "done"}
    /\ numPinnedPages \in 0 .. NumBufs
    /\ status \in {"none", "OK", "BUFFEREXCEEDED", "UNIXERR", "HASHNOTFOUND"}
    /\ frame \in Frames \cup {NoFrame}

\* allocBuf's while(true) returns from every state between calls: a set
\* reference bit is cleared at most once and a pinned frame counted at most
\* once before numPinnedPages reaches numBufs or a victim is found.
AllocBufReturns == <>(pc = "done")

\* Unfolding the loop computes what BufPool's AllocBuf computes in one step:
\* the intermediate turns are invisible (the state is still the one at the
\* call) and the return step yields AllocBuf's state, status and frame.
Atomic == INSTANCE AllocBufAtomic
              WITH st <- IF pc = "loop" THEN st0 ELSE st

AllocBufRefined == Atomic!Spec

=============================================================================
