------------------------------ MODULE BufMgr -------------------------------
(***************************************************************************)
(* The buffer manager of src/s3/buf.C driven by a set of clients that obey *)
(* the pinning protocol of spec section 5: a client unpins only pages it   *)
(* has pinned, writes a page only while it holds a pin on it and then      *)
(* unpins it dirty, initialises a page it allocated before unpinning it,   *)
(* and never disposes a page somebody holds a pin on.  The clients'        *)
(* calls interleave in any order; each call is one atomic step.            *)
(*                                                                         *)
(* Page contents are versions 0 .. MaxVersion: a client's write makes the  *)
(* page one version newer.  The history variable latest records the last   *)
(* version a client wrote to each page, so a write lost on the way to the  *)
(* disk is visible as a disagreement between latest and the disk.          *)
(***************************************************************************)
EXTENDS BufPool, FiniteSetsExt

CONSTANTS
    Clients,      \* the callers of the buffer manager
    MaxVersion,   \* bound on the number of writes to one page
    MaxPins,      \* bound on the pins one client holds on one page
    InitPages,    \* pages allocated in the files when the run starts
    WriteFaults,  \* may a disk write fail?
    ReadFaults,   \* may a disk read fail?
    HashFaults    \* may a hash-table insert fail to allocate its entry?

ASSUME InitPages \subseteq PageKeys
ASSUME EmptyPage = 0 /\ MaxVersion \in Nat /\ MaxPins \in Nat \ {0}
ASSUME WriteFaults \in BOOLEAN /\ ReadFaults \in BOOLEAN /\ HashFaults \in BOOLEAN

VARIABLES
    bm,       \* the BufMgr object and the files' disk pages
    alive,    \* FALSE once ~BufMgr has run
    held,     \* held[c][k]: pins client c holds on page k (history)
    fresh,    \* pages allocated by allocPage and not yet initialised
    latest,   \* latest[k]: the last content a client wrote to page k
    lastOp    \* the last call and the status it returned

vars == <<bm, alive, held, fresh, latest, lastOp>>

Versions == 0 .. MaxVersion
IOFaults == Faults(WriteFaults, ReadFaults, HashFaults)

Pins(k) == MapThenSumSet(LAMBDA c : held[c][k], Clients)

Record(op, k, status) == lastOp' = [op |-> op, page |-> k, status |-> status]

Init ==
    /\ bm = InitBufMgr([f \in Files |-> [p \in PageNos |->
                           IF <<f, p>> \in InitPages THEN EmptyPage ELSE Unallocated]])
    /\ alive = TRUE
    /\ held = [c \in Clients |-> [k \in PageKeys |-> 0]]
    /\ fresh = {}
    /\ latest = [k \in PageKeys |-> IF k \in InitPages THEN EmptyPage ELSE Unallocated]
    /\ lastOp = [op |-> "none", page |-> <<>>, status |-> "OK"]

(***************************************************************************)
(* Client c calls readPage on page <<f, p>>.                               *)
(***************************************************************************)
CallReadPage(c, f, p, fault) ==
    LET r == ReadPage(bm, f, p, fault) IN
    /\ alive
    /\ held[c][<<f, p>>] < MaxPins
    /\ bm' = r.st
    /\ held' = IF r.status = "OK" THEN [held EXCEPT ![c][<<f, p>>] = @ + 1] ELSE held
    /\ Record("readPage", <<f, p>>, r.status)
    /\ UNCHANGED <<alive, fresh, latest>>

(***************************************************************************)
(* Client c, holding a pin on <<f, p>>, writes a new version into the      *)
(* frame and calls unPinPage(f, p, TRUE).                                  *)
(***************************************************************************)
CallWriteUnPin(c, f, p) ==
    LET k == <<f, p>>
        v == latest[k] + 1
        r == UnPinPage([bm EXCEPT !.bufPool[Lookup(bm, f, p)] = v], f, p, TRUE)
    IN
    /\ alive
    /\ held[c][k] > 0
    /\ v \in Versions
    /\ bm' = r.st
    /\ held' = [held EXCEPT ![c][k] = @ - 1]
    /\ latest' = [latest EXCEPT ![k] = v]
    /\ fresh' = fresh \ {k}
    /\ Record("unPinPage", k, r.status)
    /\ UNCHANGED alive

(***************************************************************************)
(* Client c, holding a pin on <<f, p>>, calls unPinPage(f, p, FALSE)       *)
(* without having written it.  A page just allocated must be initialised.  *)
(***************************************************************************)
CallUnPin(c, f, p) ==
    LET k == <<f, p>>
        r == UnPinPage(bm, f, p, FALSE)
    IN
    /\ alive
    /\ held[c][k] > 0
    /\ k \notin fresh
    /\ bm' = r.st
    /\ held' = [held EXCEPT ![c][k] = @ - 1]
    /\ Record("unPinPage", k, r.status)
    /\ UNCHANGED <<alive, fresh, latest>>

(***************************************************************************)
(* Client c calls allocPage on f; file->allocatePage returns some page     *)
(* number p not in use.                                                    *)
(***************************************************************************)
CallAllocPage(c, f, p, fault) ==
    LET r == AllocPage(bm, f, p, fault) IN
    /\ alive
    /\ bm.disk[f][p] = Unallocated
    /\ bm' = r.st
    /\ held' = IF r.status = "OK" THEN [held EXCEPT ![c][<<f, p>>] = @ + 1] ELSE held
    /\ fresh' = IF r.status = "OK" THEN fresh \cup {<<f, p>>} ELSE fresh
    /\ latest' = [latest EXCEPT ![<<f, p>>] = EmptyPage]
    /\ Record("allocPage", <<f, p>>, r.status)
    /\ UNCHANGED alive

(***************************************************************************)
(* Client c disposes page <<f, p>>, which no client holds a pin on.        *)
(***************************************************************************)
CallDisposePage(c, f, p) ==
    LET r == DisposePage(bm, f, p) IN
    /\ alive
    /\ latest[<<f, p>>] # Unallocated
    /\ Pins(<<f, p>>) = 0
    /\ bm' = r.st
    /\ latest' = [latest EXCEPT ![<<f, p>>] = Unallocated]
    /\ Record("disposePage", <<f, p>>, r.status)
    /\ UNCHANGED <<alive, held, fresh>>

(***************************************************************************)
(* Client c calls flushFile(f).                                            *)
(***************************************************************************)
CallFlushFile(c, f, fault) ==
    LET r == FlushFile(bm, f, fault) IN
    /\ alive
    /\ bm' = r.st
    /\ Record("flushFile", <<f>>, r.status)
    /\ UNCHANGED <<alive, held, fresh, latest>>

(***************************************************************************)
(* The program ends: ~BufMgr writes the dirty frames back.                 *)
(***************************************************************************)
CallShutdown(fault) ==
    /\ alive
    /\ bm' = Shutdown(bm, fault)
    /\ alive' = FALSE
    /\ Record("~BufMgr", <<>>, "OK")
    /\ UNCHANGED <<held, fresh, latest>>

Terminated == ~alive /\ UNCHANGED vars

Next ==
    \/ \E c \in Clients, f \in Files, p \in PageNos :
          \/ \E fault \in IOFaults : CallReadPage(c, f, p, fault)
          \/ CallWriteUnPin(c, f, p)
          \/ CallUnPin(c, f, p)
          \/ \E fault \in IOFaults : CallAllocPage(c, f, p, fault)
          \/ CallDisposePage(c, f, p)
    \/ \E c \in Clients, f \in Files, fault \in IOFaults : CallFlushFile(c, f, fault)
    \/ \E fault \in IOFaults : CallShutdown(fault)
    \/ Terminated

Spec == Init /\ [][Next]_vars

-----------------------------------------------------------------------------
(***************************************************************************)
(* Properties                                                              *)
(***************************************************************************)

\* Every descriptor has its type; a valid frame names a file and a page
\* (spec 3: valid => file # null /\ pageNo >= 0), and the clock hand is a frame.
TypeOK ==
    /\ bm.clockHand \in Frames
    /\ \A i \in Frames :
         LET d == bm.bufTable[i] IN
         /\ d.pinCnt \in Nat /\ d.dirty \in BOOLEAN /\ d.refbit \in BOOLEAN
         /\ d.valid => d.file \in Files /\ d.pageNo \in PageNos
         /\ ~d.valid => d.file = NULL
    /\ bm.hashTable \in [PageKeys -> Frames \cup {NoFrame}]
    /\ latest \in [PageKeys -> Versions \cup {Unallocated}]

\* The hash table and the frame descriptors agree (spec 8.1): every valid
\* frame is indexed under its own (file, pageNo), and every index entry names
\* a valid frame holding that page.  allocBuf, readPage, allocPage,
\* disposePage and flushFile each update both and must keep them in step.
HashTableConsistent ==
    /\ \A i \in Frames : bm.bufTable[i].valid =>
          Lookup(bm, bm.bufTable[i].file, bm.bufTable[i].pageNo) = i
    /\ \A k \in PageKeys : LET i == bm.hashTable[k] IN
          i # NoFrame => /\ bm.bufTable[i].valid
                         /\ <<bm.bufTable[i].file, bm.bufTable[i].pageNo>> = k

\* Pin balance (spec 8, laws): the pin count of a resident page is the
\* number of pins its clients hold, and a page some client holds a pin on is
\* resident.  readPage hits, allocPage, unPinPage and eviction all touch it.
PinsMatchHolders ==
    \A k \in PageKeys :
        LET i == bm.hashTable[k] IN
        /\ i # NoFrame => bm.bufTable[i].pinCnt = Pins(k)
        /\ Pins(k) > 0 => i # NoFrame

\* No write is lost (spec 8.5): the last version a client wrote to an
\* allocated page is in its frame while the page is resident (once it has
\* been initialised), is on disk when the frame is clean and unpinned, is
\* on disk when the page is not resident, and is on disk after ~BufMgr.
\* Eviction in allocBuf, the dirty bit of unPinPage and flushFile carry it.
NoLostUpdate ==
    \A k \in PageKeys : latest[k] # Unallocated =>
        LET i == bm.hashTable[k]
            onDisk == bm.disk[k[1]][k[2]] = latest[k]
        IN /\ alive /\ i # NoFrame /\ k \notin fresh => bm.bufPool[i] = latest[k]
           /\ alive /\ i # NoFrame /\ bm.bufTable[i].pinCnt = 0
                    /\ ~bm.bufTable[i].dirty => onDisk
           /\ alive /\ i = NoFrame => onDisk
           /\ ~alive => onDisk

\* allocBuf never picks a pinned frame (spec 8.4): no step takes a pinned
\* frame away from the page it holds.
VictimNeverPinned ==
    [][\A i \in Frames :
         LET d == bm.bufTable[i] IN
         d.valid /\ d.pinCnt > 0 =>
            /\ bm'.bufTable[i].valid
            /\ bm'.bufTable[i].file = d.file
            /\ bm'.bufTable[i].pageNo = d.pageNo]_vars

\* flushFile(F) = OK evicts every page of F and leaves each on disk with the
\* last version written to it (spec 8.3).
FlushFileEvicts ==
    [][lastOp'.op = "flushFile" /\ lastOp'.status = "OK" =>
         LET f == lastOp'.page[1] IN
         /\ \A i \in Frames : ~(bm'.bufTable[i].valid /\ bm'.bufTable[i].file = f)
         /\ \A p \in PageNos : latest[<<f, p>>] # Unallocated =>
               bm'.disk[f][p] = latest[<<f, p>>]]_vars

(***************************************************************************)
(* Refinement: BufMgr implements PageStore.  A page's content is its      *)
(* frame while resident and its disk copy otherwise (the empty page until *)
(* the caller that allocated it has written it), its pin count that of    *)
(* its frame; after ~BufMgr the disk is the store.                         *)
(***************************************************************************)
StoreContent(k) ==
    LET i == bm.hashTable[k] IN
    CASE k \in fresh           -> EmptyPage
      [] alive /\ i # NoFrame -> bm.bufPool[i]
      [] OTHER                -> bm.disk[k[1]][k[2]]

StorePins(k) ==
    LET i == bm.hashTable[k] IN
    IF alive /\ i # NoFrame THEN bm.bufTable[i].pinCnt ELSE 0

Store == INSTANCE PageStore WITH
    Keys   <- PageKeys,
    mem    <- [k \in PageKeys |-> StoreContent(k)],
    pinCnt <- [k \in PageKeys |-> StorePins(k)],
    ret    <- lastOp.status,
    up     <- alive

\* Every step of the buffer manager is a step of the plain page store: no
\* call changes a page's content but a caller's write (eviction, write-back
\* and flushFile are invisible), a successful readPage or allocPage adds
\* exactly one pin and unPinPage takes one away, a failed call has no
\* effect beyond what allocPage's missing rollback leaves.
StoreRefined == Store!Spec

\* allocBuf returns BUFFEREXCEEDED only when every frame is pinned (spec
\* 4.2.1 and 7: "BUFFEREXCEEDED (all frames pinned)").
BufferExceededOnlyWhenAllPinned ==
    [][lastOp'.status = "BUFFEREXCEEDED" =>
         \A i \in Frames : bm.bufTable[i].valid /\ bm.bufTable[i].pinCnt > 0]_vars

=============================================================================
