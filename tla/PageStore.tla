----------------------------- MODULE PageStore -----------------------------
(***************************************************************************)
(* What the buffer manager promises its callers (spec 4.2 and 8): the     *)
(* pages of the files behave as a plain store, with no cache in between.  *)
(* Each page has a content and a count of outstanding pins; each call     *)
(* returns a status.                                                       *)
(*   readPage    pins an allocated page;                                   *)
(*   unPinPage   returns a pin, after the caller wrote a new content;      *)
(*   allocPage   makes an unallocated page empty and pins it, or fails:    *)
(*               the page may stay allocated, unpinned (no rollback);      *)
(*   disposePage deallocates a page nobody pins;                           *)
(*   flushFile   changes nothing a caller can see;                         *)
(*   ~BufMgr     ends the program; the store keeps every content.          *)
(***************************************************************************)
EXTENDS Naturals

CONSTANTS
    Keys,         \* the (file, pageNo) pairs
    EmptyPage,    \* the content of a new page
    Unallocated   \* the content of a page the file has not allocated

VARIABLES
    mem,     \* mem[k]: the content of page k
    pinCnt,  \* pinCnt[k]: pins outstanding on page k
    ret,     \* the status the last call returned
    up       \* FALSE once the program has ended

vars == <<mem, pinCnt, ret, up>>

Init ==
    /\ mem \in [Keys -> {EmptyPage, Unallocated}]
    /\ pinCnt = [k \in Keys |-> 0]
    /\ ret = "OK"
    /\ up = TRUE

Read(k) ==
    /\ up /\ mem[k] # Unallocated /\ ret' = "OK"
    /\ pinCnt' = [pinCnt EXCEPT ![k] = @ + 1]
    /\ UNCHANGED <<mem, up>>

Write(k) ==
    /\ up /\ pinCnt[k] > 0 /\ ret' = "OK"
    /\ mem' = [mem EXCEPT ![k] = @ + 1]
    /\ pinCnt' = [pinCnt EXCEPT ![k] = @ - 1]
    /\ UNCHANGED up

UnPin(k) ==
    /\ up /\ pinCnt[k] > 0 /\ ret' = "OK"
    /\ pinCnt' = [pinCnt EXCEPT ![k] = @ - 1]
    /\ UNCHANGED <<mem, up>>

Alloc(k) ==
    /\ up /\ mem[k] = Unallocated
    /\ mem' = [mem EXCEPT ![k] = EmptyPage]
    /\ \/ ret' = "OK" /\ pinCnt' = [pinCnt EXCEPT ![k] = 1]
       \/ ret' # "OK" /\ UNCHANGED pinCnt
    /\ UNCHANGED up

Dispose(k) ==
    /\ up /\ mem[k] # Unallocated /\ pinCnt[k] = 0 /\ ret' = "OK"
    /\ mem' = [mem EXCEPT ![k] = Unallocated]
    /\ UNCHANGED <<pinCnt, up>>

\* flushFile, and any call that fails without effect (readPage's
\* BUFFEREXCEEDED, for one).
NoEffect ==
    /\ up
    /\ UNCHANGED <<mem, pinCnt, up>>

End ==
    /\ up /\ ~up'
    /\ pinCnt' = [k \in Keys |-> 0]
    /\ UNCHANGED mem

Next ==
    \/ \E k \in Keys : Read(k) \/ Write(k) \/ UnPin(k) \/ Alloc(k) \/ Dispose(k)
    \/ NoEffect
    \/ End

Spec == Init /\ [][Next]_vars

=============================================================================
