------------------------------ MODULE BufPool ------------------------------
(***************************************************************************)
(* The buffer manager of src/s3/buf.C (identical code in src/buf.C).       *)
(*                                                                         *)
(* The buffer manager is single threaded: every public method runs to      *)
(* completion before the next call.  Each method is therefore written as   *)
(* a pure operator from a buffer-manager state record to a result record   *)
(*     [st |-> new state, status |-> Status, frame |-> frame number]       *)
(* so that a caller (a client, or the heap-file layer) can chain several   *)
(* calls inside one atomic step, exactly as the C++ code does.             *)
(*                                                                         *)
(* A state record has the fields                                           *)
(*   bufTable  : frame -> BufDesc                                          *)
(*   bufPool   : frame -> page content                                     *)
(*   hashTable : <<file, pageNo>> -> frame or NoFrame  (BufHashTbl)        *)
(*   clockHand : frame                                                     *)
(*   disk      : file -> pageNo -> page content or Unallocated  (File)     *)
(* The hash table and the paged file store are not under src/; they are   *)
(* modelled from the spec (sections 4.1 and 6).                            *)
(*                                                                         *)
(* Faults are an input: a fault record [write |-> f, read |-> b,         *)
(* insert |-> a] makes the write-back of frame f fail, the disk read fail  *)
(* when b is FALSE, and the hash table's entry allocation fail when a is   *)
(* FALSE.  NoFault is the fault record of a run without errors.            *)
(***************************************************************************)
EXTENDS Integers, FiniteSets

CONSTANTS
    NumBufs,      \* number of frames in the pool (BufMgr(bufs))
    Files,        \* identities of the open File objects
    PageNos,      \* page numbers a file may hold (a bound on allocatePage)
    NULL,         \* the null File pointer
    EmptyPage,    \* content of a page the file store has just allocated
    Unallocated   \* marker of a page number the file store has not allocated

ASSUME NumBufs \in Nat \ {0}
ASSUME PageNos \subseteq Nat
ASSUME NULL \notin Files

Frames   == 0 .. NumBufs - 1
NoFrame  == -1
PageKeys == Files \X PageNos

NoFault == [write |-> NoFrame, read |-> TRUE, insert |-> TRUE]
\* At most one failing step per call: every method returns at its first
\* failure (~BufMgr, which goes on, writes each frame once), so a second
\* fault in the same call changes nothing.
Faults(writeFaults, readFaults, hashFaults) ==
    {NoFault}
    \cup (IF writeFaults THEN {[NoFault EXCEPT !.write = f] : f \in Frames} ELSE {})
    \cup (IF readFaults THEN {[NoFault EXCEPT !.read = FALSE]} ELSE {})
    \cup (IF hashFaults THEN {[NoFault EXCEPT !.insert = FALSE]} ELSE {})

Result(st, status, frame) == [st |-> st, status |-> status, frame |-> frame]

(***************************************************************************)
(* BufDesc (buf.h, spec 3): the constructor memsets the table to zero,     *)
(* Clear() and Set() are the descriptor's two transitions.                 *)
(***************************************************************************)
InitDesc == [valid |-> FALSE, file |-> NULL, pageNo |-> 0,
             pinCnt |-> 0, dirty |-> FALSE, refbit |-> FALSE]

Clear(d) == [d EXCEPT !.valid = FALSE, !.file = NULL, !.pageNo = -1,
                      !.pinCnt = 0, !.dirty = FALSE, !.refbit = FALSE]

Set(d, file, pageNo) == [d EXCEPT !.valid = TRUE, !.file = file, !.pageNo = pageNo,
                                  !.pinCnt = 1, !.dirty = FALSE, !.refbit = TRUE]

(***************************************************************************)
(* BufHashTbl (spec 4.1): insert fails on a present key or when the new  *)
(* entry cannot be allocated (alloc = FALSE), remove on an absent one.     *)
(***************************************************************************)
Lookup(s, file, pageNo) == s.hashTable[<<file, pageNo>>]

HashInsert(s, file, pageNo, frame, alloc) ==
    IF Lookup(s, file, pageNo) # NoFrame \/ ~alloc
    THEN Result(s, "HASHTBLERROR", NoFrame)
    ELSE Result([s EXCEPT !.hashTable[<<file, pageNo>>] = frame], "OK", frame)

HashRemove(s, file, pageNo) ==
    IF Lookup(s, file, pageNo) = NoFrame
    THEN Result(s, "HASHNOTFOUND", NoFrame)
    ELSE Result([s EXCEPT !.hashTable[<<file, pageNo>>] = NoFrame], "OK", NoFrame)

\* After a hash insertion i, Set() the descriptor of frame fr.
SetFrame(i, file, pageNo, fr) ==
    IF i.status # "OK" THEN Result(i.st, i.status, NoFrame)
    ELSE Result([i.st EXCEPT !.bufTable[fr] = Set(i.st.bufTable[fr], file, pageNo)],
                "OK", fr)

(***************************************************************************)
(* File (spec 6): the paged file store.                                    *)
(***************************************************************************)
FileWritePage(s, file, pageNo, content) ==
    [s EXCEPT !.disk[file][pageNo] = content]

FileAllocatePage(s, file, pageNo) ==
    [s EXCEPT !.disk[file][pageNo] = EmptyPage]

FileDisposePage(s, file, pageNo) ==
    IF s.disk[file][pageNo] = Unallocated
    THEN Result(s, "BADPAGENO", NoFrame)
    ELSE Result([s EXCEPT !.disk[file][pageNo] = Unallocated], "OK", NoFrame)

(***************************************************************************)
(* BufMgr::BufMgr: all frames invalid, clock hand on the last frame.       *)
(***************************************************************************)
InitBufMgr(initDisk) ==
    [bufTable  |-> [i \in Frames |-> InitDesc],
     bufPool   |-> [i \in Frames |-> EmptyPage],
     hashTable |-> [k \in PageKeys |-> NoFrame],
     clockHand |-> NumBufs - 1,
     disk      |-> initDisk]

(***************************************************************************)
(* BufMgr::allocBuf: one call of Sweep is one iteration of the while loop. *)
(* MaxSweep bounds the loop; the code needs at most 2 * NumBufs turns of   *)
(* the hand, so "DIVERGED" is only reached by a loop that would not end.   *)
(***************************************************************************)
MaxSweep == 2 * NumBufs + 1

(***************************************************************************)
(* Mutants of Sweep: the victim's hash entry is not removed; the pinned    *)
(* check is dropped.                                                       *)
(***************************************************************************)
RECURSIVE SweepNoHashRemove(_, _, _, _)
SweepNoHashRemove(s, numPinnedPages, fault, fuel) ==
    IF NumBufs = numPinnedPages THEN Result(s, "BUFFEREXCEEDED", NoFrame)
    ELSE IF fuel = 0 THEN Result(s, "DIVERGED", NoFrame)
    ELSE
      LET h == (s.clockHand + 1) % NumBufs
          t == [s EXCEPT !.clockHand = h]
          d == t.bufTable[h]
      IN CASE ~d.valid  -> Result([t EXCEPT !.bufTable[h] = Clear(d)], "OK", h)
           [] d.refbit  -> SweepNoHashRemove([t EXCEPT !.bufTable[h].refbit = FALSE],
                                 numPinnedPages, fault, fuel - 1)
           [] d.pinCnt > 0 -> SweepNoHashRemove(t, numPinnedPages + 1, fault, fuel - 1)
           [] d.dirty /\ fault.write = h -> Result(t, "UNIXERR", NoFrame)
           [] OTHER ->
                LET w == IF d.dirty
                         THEN FileWritePage(t, d.file, d.pageNo, t.bufPool[h])
                         ELSE t
                IN Result([w EXCEPT !.bufTable[h] = Clear(d)], "OK", h)

RECURSIVE SweepIgnoresPin(_, _, _, _)
SweepIgnoresPin(s, numPinnedPages, fault, fuel) ==
    IF NumBufs = numPinnedPages THEN Result(s, "BUFFEREXCEEDED", NoFrame)
    ELSE IF fuel = 0 THEN Result(s, "DIVERGED", NoFrame)
    ELSE
      LET h == (s.clockHand + 1) % NumBufs
          t == [s EXCEPT !.clockHand = h]
          d == t.bufTable[h]
      IN CASE ~d.valid  -> Result([t EXCEPT !.bufTable[h] = Clear(d)], "OK", h)
           [] d.refbit  -> SweepIgnoresPin([t EXCEPT !.bufTable[h].refbit = FALSE],
                                 numPinnedPages, fault, fuel - 1)
           [] d.dirty /\ fault.write = h -> Result(t, "UNIXERR", NoFrame)
           [] OTHER ->
                LET w == IF d.dirty
                         THEN FileWritePage(t, d.file, d.pageNo, t.bufPool[h])
                         ELSE t
                    r == HashRemove(w, d.file, d.pageNo)
                IN IF r.status # "OK" THEN Result(r.st, r.status, NoFrame)
                   ELSE Result([r.st EXCEPT !.bufTable[h] = Clear(d)], "OK", h)

RECURSIVE Sweep(_, _, _, _)
Sweep(s, numPinnedPages, fault, fuel) ==
    IF NumBufs = numPinnedPages THEN Result(s, "BUFFEREXCEEDED", NoFrame)
    ELSE IF fuel = 0 THEN Result(s, "DIVERGED", NoFrame)
    ELSE
      LET h == (s.clockHand + 1) % NumBufs
          t == [s EXCEPT !.clockHand = h]
          d == t.bufTable[h]
      IN CASE ~d.valid  -> Result([t EXCEPT !.bufTable[h] = Clear(d)], "OK", h)
           [] d.refbit  -> Sweep([t EXCEPT !.bufTable[h].refbit = FALSE],
                                 numPinnedPages, fault, fuel - 1)
           [] d.pinCnt > 0 -> Sweep(t, numPinnedPages + 1, fault, fuel - 1)
           [] d.dirty /\ fault.write = h -> Result(t, "UNIXERR", NoFrame)
           [] OTHER ->
                LET w == IF d.dirty
                         THEN FileWritePage(t, d.file, d.pageNo, t.bufPool[h])
                         ELSE t
                    r == HashRemove(w, d.file, d.pageNo)
                IN IF r.status # "OK" THEN Result(r.st, r.status, NoFrame)
                   ELSE Result([r.st EXCEPT !.bufTable[h] = Clear(d)], "OK", h)

AllocBuf(s, fault) == Sweep(s, 0, fault, MaxSweep)

(***************************************************************************)
(* BufMgr::disposePage: a resident frame is cleared whatever its pin       *)
(* count; the status of the hash removal is overwritten and the file's     *)
(* disposePage status is returned.                                         *)
(***************************************************************************)
\* Mutant of DisposePage: the frame is cleared but the file keeps the page.
DisposePageKeepsFile(s, file, pageNo) ==
    LET fr == Lookup(s, file, pageNo)
        c  == IF fr # NoFrame
              THEN [s EXCEPT !.bufTable[fr] = Clear(s.bufTable[fr])]
              ELSE s
    IN Result(HashRemove(c, file, pageNo).st, "OK", NoFrame)

DisposePage(s, file, pageNo) ==
    LET fr == Lookup(s, file, pageNo)
        c  == IF fr # NoFrame
              THEN [s EXCEPT !.bufTable[fr] = Clear(s.bufTable[fr])]
              ELSE s
    IN FileDisposePage(HashRemove(c, file, pageNo).st, file, pageNo)

(***************************************************************************)
(* BufMgr::readPage.  A miss allocates a frame, reads the page from disk   *)
(* (a failed read disposes the page and returns the read's status),       *)
(* inserts the mapping and Set()s the descriptor.  A hit sets the refbit   *)
(* and adds a pin.  The hash table never returns HASHTBLERROR on lookup.   *)
(***************************************************************************)
ReadStatus(s, file, pageNo, fault) ==
    CASE s.disk[file][pageNo] = Unallocated -> "BADPAGENO"
      [] ~fault.read                        -> "UNIXERR"
      [] OTHER                              -> "OK"

\* The miss path of readPage, given the result a of allocBuf.
ReadMiss(a, file, pageNo, fault) ==
    LET rs == ReadStatus(a.st, file, pageNo, fault) IN
    IF a.status # "OK" THEN a
    ELSE IF rs # "OK" THEN Result(DisposePage(a.st, file, pageNo).st, rs, NoFrame)
    ELSE SetFrame(HashInsert([a.st EXCEPT !.bufPool[a.frame] = a.st.disk[file][pageNo]],
                             file, pageNo, a.frame, fault.insert), file, pageNo, a.frame)

\* Mutant of ReadPage: a hit sets the refbit but does not add a pin.
ReadPageHitNoPin(s, file, pageNo, fault) ==
    LET fr == Lookup(s, file, pageNo) IN
    IF fr = NoFrame THEN ReadMiss(AllocBuf(s, fault), file, pageNo, fault)
    ELSE Result([s EXCEPT !.bufTable[fr].refbit = TRUE], "OK", fr)

ReadPage(s, file, pageNo, fault) ==
    LET fr == Lookup(s, file, pageNo) IN
    IF fr = NoFrame THEN ReadMiss(AllocBuf(s, fault), file, pageNo, fault)
    ELSE Result([s EXCEPT !.bufTable[fr].refbit = TRUE,
                          !.bufTable[fr].pinCnt = @ + 1], "OK", fr)

(***************************************************************************)
(* BufMgr::unPinPage: the dirty bit is only ever set, never cleared.       *)
(***************************************************************************)
\* Mutant of UnPinPage: the caller's flag overwrites the dirty bit.
UnPinPageOverwritesDirty(s, file, pageNo, dirty) ==
    LET fr == Lookup(s, file, pageNo) IN
    CASE fr = NoFrame                 -> Result(s, "HASHNOTFOUND", NoFrame)
      [] s.bufTable[fr].pinCnt = 0    -> Result(s, "PAGENOTPINNED", fr)
      [] OTHER -> Result([s EXCEPT !.bufTable[fr].dirty = dirty,
                                   !.bufTable[fr].pinCnt = @ - 1], "OK", fr)

UnPinPage(s, file, pageNo, dirty) ==
    LET fr == Lookup(s, file, pageNo) IN
    CASE fr = NoFrame                 -> Result(s, "HASHNOTFOUND", NoFrame)
      [] s.bufTable[fr].pinCnt = 0    -> Result(s, "PAGENOTPINNED", fr)
      [] OTHER -> Result([s EXCEPT !.bufTable[fr].dirty = @ \/ dirty,
                                   !.bufTable[fr].pinCnt = @ - 1], "OK", fr)

(***************************************************************************)
(* BufMgr::allocPage: pageNo is the page file->allocatePage hands out.     *)
(* The page stays allocated in the file when a later step fails, and the  *)
(* frame keeps the bytes of the page it held before: the caller is        *)
(* expected to initialise it.                                              *)
(***************************************************************************)
AllocPage(s, file, pageNo, fault) ==
    LET Alloced(a) ==
            IF a.status # "OK" THEN a
            ELSE SetFrame(HashInsert(a.st, file, pageNo, a.frame, fault.insert),
                          file, pageNo, a.frame)
    IN Alloced(AllocBuf(FileAllocatePage(s, file, pageNo), fault))

(***************************************************************************)
(* BufMgr::flushFile: FlushFrom(s, file, i, fault) is the for loop from    *)
(* frame i on.  It returns at the first pinned frame or failed write,      *)
(* leaving the frames before it already written and evicted.              *)
(***************************************************************************)
(***************************************************************************)
(* Mutants of FlushFrom: the frame is not marked invalid; the frame is     *)
(* written but neither invalidated nor removed from the hash table.        *)
(***************************************************************************)
RECURSIVE FlushFromKeepsValid(_, _, _, _)
FlushFromKeepsValid(s, file, i, fault) ==
    IF i = NumBufs THEN Result(s, "OK", NoFrame)
    ELSE
      LET d == s.bufTable[i] IN
      CASE d.valid /\ d.file = file ->
             CASE d.pinCnt > 0              -> Result(s, "PAGEPINNED", i)
               [] d.dirty /\ fault.write = i -> Result(s, "UNIXERR", i)
               [] OTHER ->
                  LET w == IF d.dirty
                           THEN [FileWritePage(s, file, d.pageNo, s.bufPool[i])
                                    EXCEPT !.bufTable[i].dirty = FALSE]
                           ELSE s
                      r == HashRemove(w, file, d.pageNo).st
                  IN FlushFromKeepsValid([r EXCEPT !.bufTable[i].file = NULL,
                                                   !.bufTable[i].pageNo = -1],
                                         file, i + 1, fault)
        [] ~d.valid /\ d.file = file -> Result(s, "BADBUFFER", i)
        [] OTHER -> FlushFromKeepsValid(s, file, i + 1, fault)

RECURSIVE FlushFromNoEvict(_, _, _, _)
FlushFromNoEvict(s, file, i, fault) ==
    IF i = NumBufs THEN Result(s, "OK", NoFrame)
    ELSE
      LET d == s.bufTable[i] IN
      CASE d.valid /\ d.file = file ->
             CASE d.pinCnt > 0              -> Result(s, "PAGEPINNED", i)
               [] d.dirty /\ fault.write = i -> Result(s, "UNIXERR", i)
               [] OTHER ->
                  LET w == IF d.dirty
                           THEN [FileWritePage(s, file, d.pageNo, s.bufPool[i])
                                    EXCEPT !.bufTable[i].dirty = FALSE]
                           ELSE s
                  IN FlushFromNoEvict(w, file, i + 1, fault)
        [] ~d.valid /\ d.file = file -> Result(s, "BADBUFFER", i)
        [] OTHER -> FlushFromNoEvict(s, file, i + 1, fault)

RECURSIVE FlushFrom(_, _, _, _)
FlushFrom(s, file, i, fault) ==
    IF i = NumBufs THEN Result(s, "OK", NoFrame)
    ELSE
      LET d == s.bufTable[i] IN
      CASE d.valid /\ d.file = file ->
             CASE d.pinCnt > 0              -> Result(s, "PAGEPINNED", i)
               [] d.dirty /\ fault.write = i -> Result(s, "UNIXERR", i)
               [] OTHER ->
                  LET w == IF d.dirty
                           THEN [FileWritePage(s, file, d.pageNo, s.bufPool[i])
                                    EXCEPT !.bufTable[i].dirty = FALSE]
                           ELSE s
                      r == HashRemove(w, file, d.pageNo).st
                  IN FlushFrom([r EXCEPT !.bufTable[i].file = NULL,
                                         !.bufTable[i].pageNo = -1,
                                         !.bufTable[i].valid = FALSE],
                               file, i + 1, fault)
        [] ~d.valid /\ d.file = file -> Result(s, "BADBUFFER", i)
        [] OTHER -> FlushFrom(s, file, i + 1, fault)

FlushFile(s, file, fault) == FlushFrom(s, file, 0, fault)

(***************************************************************************)
(* BufMgr::~BufMgr: every valid dirty frame is written back, a failed     *)
(* write is ignored; the tables are then released.                         *)
(***************************************************************************)
Shutdown(s, fault) ==
    LET Writer(k) == {i \in Frames : /\ s.bufTable[i].valid
                                     /\ s.bufTable[i].dirty
                                     /\ <<s.bufTable[i].file, s.bufTable[i].pageNo>> = k
                                     /\ fault.write # i}
    IN [s EXCEPT !.disk = [f \in Files |-> [p \in PageNos |->
            IF Writer(<<f, p>>) = {} THEN s.disk[f][p]
            ELSE s.bufPool[CHOOSE i \in Writer(<<f, p>>) : TRUE]]]]

=============================================================================
