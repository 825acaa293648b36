------------------------------ MODULE HeapFile ------------------------------
(***************************************************************************)
(* The heap-file layer of src/s4/heapfile.C on top of the buffer manager   *)
(* of BufPool.  One heap file HF is created, opened by a set of handles    *)
(* (HeapFileScan or InsertFileScan objects) and closed again; the         *)
(* handles' calls interleave in any order, each call one atomic step.      *)
(*                                                                         *)
(* A Page* kept by a handle (headerPage, curPage) is a frame number: the   *)
(* code reads and writes through it whatever that frame holds now, and so  *)
(* does the model.  Page contents are records                              *)
(*   [pageNo, slots, next, firstPage, lastPage, pageCnt, recCnt]           *)
(* of which a data page uses the first three (the slotted Page of page.h)  *)
(* and the header page the last four (FileHdrPage).  A record is a number  *)
(* 1 .. MaxRecs; a deleted slot holds Deleted.                             *)
(***************************************************************************)
EXTENDS BufPool, SequencesExt

CONSTANTS
    HF,            \* the heap file's File object
    ScanHandles,   \* HeapFileScan objects
    InsertHandles, \* InsertFileScan objects
    SlotsPerPage,  \* records that fit on one data page
    MaxRecs,       \* bound on the number of records inserted
    Deleted,       \* content of a slot whose record was deleted
    Filters,       \* the record sets a scan's filter may accept
    WriteFaults,   \* may a disk write fail?
    ReadFaults,    \* may a disk read fail?
    MarkAnywhere   \* may a caller markScan with no cursor page (after endScan)?

ASSUME HF \in Files
ASSUME ScanHandles \cap InsertHandles = {}
ASSUME SlotsPerPage \in Nat \ {0} /\ MaxRecs \in Nat

Handles  == ScanHandles \cup InsertHandles
NullPtr  == -1                                   \* a NULL Page*
NULLRID  == [pageNo |-> -1, slotNo |-> -1]
Rid(p, s) == [pageNo |-> p, slotNo |-> s]
IOFaults == Faults(WriteFaults, ReadFaults, FALSE)

\* The memset-zero page: what the file store holds for a new page.
ZeroPage == [pageNo |-> 0, slots |-> <<>>, next |-> 0,
             firstPage |-> 0, lastPage |-> 0, pageCnt |-> 0, recCnt |-> 0]

(***************************************************************************)
(* The slotted page (page.h, not under src/; spec 6).  Record ids are     *)
(* stable; a deleted slot is reused by the next insert; nextRecord of     *)
(* NULLRID is the first record.                                            *)
(***************************************************************************)
LiveSlots(pg) == {i \in 1 .. Len(pg.slots) : pg.slots[i] # Deleted}

PageInit(pg, pageNo) == [pg EXCEPT !.pageNo = pageNo, !.slots = <<>>, !.next = -1]

\* Mutant of PageInsertRecord: the capacity check is off by one.
PageInsertRecordOffByOne(pg, rec) ==
    LET holes == {i \in 1 .. Len(pg.slots) : pg.slots[i] = Deleted}
        slot  == IF holes = {} THEN Len(pg.slots) + 1 ELSE Min(holes)
    IN IF Cardinality(LiveSlots(pg)) > SlotsPerPage
       THEN [pg |-> pg, status |-> "NOSPACE", rid |-> NULLRID]
       ELSE [pg |-> [pg EXCEPT !.slots = IF holes = {} THEN Append(@, rec)
                                          ELSE [@ EXCEPT ![slot] = rec]],
             status |-> "OK", rid |-> Rid(pg.pageNo, slot)]

PageInsertRecord(pg, rec) ==
    LET holes == {i \in 1 .. Len(pg.slots) : pg.slots[i] = Deleted}
        slot  == IF holes = {} THEN Len(pg.slots) + 1 ELSE Min(holes)
    IN IF Cardinality(LiveSlots(pg)) >= SlotsPerPage
       THEN [pg |-> pg, status |-> "NOSPACE", rid |-> NULLRID]
       ELSE [pg |-> [pg EXCEPT !.slots = IF holes = {} THEN Append(@, rec)
                                          ELSE [@ EXCEPT ![slot] = rec]],
             status |-> "OK", rid |-> Rid(pg.pageNo, slot)]

PageDeleteRecord(pg, rid) ==
    IF rid.slotNo \in LiveSlots(pg)
    THEN [pg |-> [pg EXCEPT !.slots[rid.slotNo] = Deleted], status |-> "OK"]
    ELSE [pg |-> pg, status |-> "INVALIDSLOTNO"]

PageFirstRecord(pg) ==
    IF LiveSlots(pg) = {} THEN [status |-> "NORECORDS", rid |-> NULLRID]
    ELSE [status |-> "OK", rid |-> Rid(pg.pageNo, Min(LiveSlots(pg)))]

PageNextRecord(pg, rid) ==
    LET after == {i \in LiveSlots(pg) : i > rid.slotNo} IN
    IF after = {} THEN [status |-> "ENDOFPAGE", rid |-> NULLRID]
    ELSE [status |-> "OK", rid |-> Rid(pg.pageNo, Min(after))]

PageGetRecord(pg, rid) ==
    IF rid.slotNo \in LiveSlots(pg) THEN "OK" ELSE "INVALIDSLOTNO"

(***************************************************************************)
(* File (spec 6): getFirstPage gives the first page the file allocated,   *)
(* allocatePage the lowest free page number.  Page 0 is never handed out  *)
(* (it stands for the file's own bookkeeping page), so reading or         *)
(* unpinning page 0 fails.  PageNos bounds the file: when it is full      *)
(* allocatePage fails with FILEFULL.                                       *)
(***************************************************************************)
ASSUME 0 \in PageNos

Allocated(s) == {p \in PageNos : s.disk[HF][p] # Unallocated}

GetFirstPage(s) ==
    IF Allocated(s) = {} THEN [status |-> "BADFILE", pageNo |-> 0]
    ELSE [status |-> "OK", pageNo |-> Min(Allocated(s))]

NewPageNo(s) ==
    IF Allocated(s) = PageNos \ {0} THEN [status |-> "FILEFULL", pageNo |-> 0]
    ELSE [status |-> "OK", pageNo |-> Min(PageNos \ ({0} \cup Allocated(s)))]

VARIABLES
    bm,         \* the BufMgr object and the file's disk pages
    alive,      \* FALSE once ~BufMgr has run at the end of the program
    exists,     \* the catalog holds HF
    hf,         \* hf[h]: the data members of handle h
    nextRec,    \* the next record to insert (input bound)
    rids,       \* every RID a call has returned (the RIDs callers know)
    positioned, \* scan handles whose last call was a successful scanNext
    lastOp      \* the last call, its handle, status and returned RID

vars == <<bm, alive, exists, hf, nextRec, rids, positioned, lastOp>>

ClosedHandle ==
    [state |-> "closed", headerPage |-> NullPtr, headerPageNo |-> 0,
     hdrDirtyFlag |-> FALSE, curPage |-> NullPtr, curPageNo |-> 0,
     curDirtyFlag |-> FALSE, curRec |-> NULLRID,
     markedPageNo |-> 0, markedRec |-> NULLRID, marked |-> FALSE,
     filter |-> 1 .. MaxRecs]

Out(s, H, status) == [st |-> s, h |-> H, status |-> status, rid |-> NULLRID]

Init ==
    /\ bm = InitBufMgr([f \in Files |-> [p \in PageNos |-> Unallocated]])
    /\ exists = FALSE
    /\ hf = [h \in Handles |-> ClosedHandle]
    /\ alive = TRUE
    /\ nextRec = 1
    /\ rids = {}
    /\ positioned = {}
    /\ lastOp = [op |-> "none", h |-> "none", status |-> "OK", rid |-> NULLRID]

(***************************************************************************)
(* createHeapFile: a header page and one empty data page, both unpinned   *)
(* dirty, the file flushed and closed.  Every failing step returns at     *)
(* once, leaving what was done before in place.  (Each step's result is   *)
(* handed to the next as an argument, so it is computed once.)            *)
(***************************************************************************)
CreateHeapFile(s, fault) ==
    LET \* both pages pinned: initialise, wire the header, unpin, flush
        Wired(a1, hdrNo, a2, dataNo) ==
            LET d == [a2.st EXCEPT !.bufPool[a2.frame] = PageInit(@, dataNo),
                                   !.bufPool[a1.frame].firstPage = dataNo,
                                   !.bufPool[a1.frame].lastPage  = dataNo,
                                   !.bufPool[a1.frame].pageCnt   = 1,
                                   !.bufPool[a1.frame].recCnt    = 0]
            IN FlushFile(UnPinPage(UnPinPage(d, HF, hdrNo, TRUE).st, HF, dataNo, TRUE).st,
                         HF, fault).st
        DataAlloced(a1, hdrNo, n2, a2) ==
            IF a2.status # "OK" THEN [st |-> a2.st, status |-> a2.status]
            ELSE [st |-> Wired(a1, hdrNo, a2, n2.pageNo), status |-> "OK"]
        HeaderAlloced(a1, hdrNo, n2) ==
            CASE a1.status # "OK" -> [st |-> a1.st, status |-> a1.status]
              [] n2.status # "OK" -> [st |-> a1.st, status |-> n2.status]
              [] OTHER -> DataAlloced(a1, hdrNo, n2, AllocPage(a1.st, HF, n2.pageNo, fault))
        Start(n1, a1) ==
            IF n1.status # "OK" THEN [st |-> s, status |-> n1.status]
            ELSE HeaderAlloced(a1, n1.pageNo, NewPageNo(a1.st))
    IN Start(NewPageNo(s), AllocPage(s, HF, NewPageNo(s).pageNo, fault))

(***************************************************************************)
(* HeapFile::HeapFile: pin the header page and the first data page.  A    *)
(* failed read returns at once; the object is then unusable and what it   *)
(* pinned stays pinned.                                                    *)
(***************************************************************************)
OpenHeapFile(s, H, fault) ==
    LET Failed == [H EXCEPT !.state = "failed"]
        DataRead(g, r1, fp, r2) ==
            IF r2.status # "OK"
            THEN Out(r2.st, [Failed EXCEPT !.headerPage = r1.frame,
                                           !.headerPageNo = g.pageNo], r2.status)
            ELSE Out(r2.st, [H EXCEPT !.state = "open",
                                  !.headerPage = r1.frame, !.headerPageNo = g.pageNo,
                                  !.hdrDirtyFlag = FALSE,
                                  !.curPage = r2.frame, !.curPageNo = fp,
                                  !.curDirtyFlag = FALSE, !.curRec = NULLRID], "OK")
        HeaderRead(g, r1) ==
            IF r1.status # "OK" THEN Out(r1.st, Failed, r1.status)
            ELSE LET fp == r1.st.bufPool[r1.frame].firstPage IN
                 DataRead(g, r1, fp, ReadPage(r1.st, HF, fp, fault))
        Start(g) ==
            IF g.status # "OK" THEN Out(s, Failed, g.status)
            ELSE HeaderRead(g, ReadPage(s, HF, g.pageNo, fault))
    IN Start(GetFirstPage(s))

(***************************************************************************)
(* HeapFileScan::endScan: unpin the cursor page and clear the cursor.     *)
(***************************************************************************)
EndScan(s, H) ==
    LET Unpinned(u) == Out(u.st, [H EXCEPT !.curPage = NullPtr, !.curPageNo = 0,
                                           !.curDirtyFlag = FALSE], u.status)
    IN IF H.curPage # NullPtr
       THEN Unpinned(UnPinPage(s, HF, H.curPageNo, H.curDirtyFlag))
       ELSE Out(s, H, "OK")

(***************************************************************************)
(* Deleting a handle: ~HeapFileScan calls endScan, ~InsertFileScan unpins *)
(* the cursor page dirty; then ~HeapFile unpins the cursor (if any) and   *)
(* the header page with their flags and closes the file.  Statuses are    *)
(* only printed.                                                           *)
(***************************************************************************)
HeapFileDestructor(s, H) ==
    LET c == IF H.curPage # NullPtr
             THEN UnPinPage(s, HF, H.curPageNo, H.curDirtyFlag).st ELSE s
    IN UnPinPage(c, HF, H.headerPageNo, H.hdrDirtyFlag).st

CloseScan(s, H) ==
    LET Ended(e) == HeapFileDestructor(e.st, e.h) IN Ended(EndScan(s, H))

CloseInsert(s, H) ==
    LET c == IF H.curPage # NullPtr THEN UnPinPage(s, HF, H.curPageNo, TRUE).st ELSE s
    IN HeapFileDestructor(c, [H EXCEPT !.curPage = NullPtr, !.curPageNo = 0])

(***************************************************************************)
(* HeapFile::getRecord(rid).  The cursor moves before the read: a failed  *)
(* readPage leaves curPageNo = rid.pageNo with curPage still pointing at  *)
(* the frame of the page just unpinned.                                    *)
(***************************************************************************)
GetRecord(s, H, rid, fault) ==
    LET H1 == [H EXCEPT !.curPageNo = rid.pageNo, !.curRec = rid, !.curDirtyFlag = FALSE]
        Read(r) ==
            IF r.status # "OK" THEN Out(r.st, H1, r.status)
            ELSE [Out(r.st, [H1 EXCEPT !.curPage = r.frame],
                      PageGetRecord(r.st.bufPool[r.frame], rid)) EXCEPT !.rid = rid]
        Unpinned(u) ==
            IF u.status # "OK" THEN Out(s, H, u.status)
            ELSE Read(ReadPage(u.st, HF, rid.pageNo, fault))
    IN IF H.curPage # NullPtr /\ H.curPageNo = rid.pageNo
       THEN [Out(s, [H EXCEPT !.curRec = rid],
                 PageGetRecord(s.bufPool[H.curPage], rid)) EXCEPT !.rid = rid]
       ELSE Unpinned(UnPinPage(s, HF, H.curPageNo, H.curDirtyFlag))

(***************************************************************************)
(* InsertFileScan::insertRecord(rec).  Records always fit on a page, so   *)
(* INVALIDRECLEN is not returned.  Without a cursor page the last page is *)
(* pinned first.  On NOSPACE a page is allocated and linked after the     *)
(* cursor page, whichever page that is; the header is never marked dirty. *)
(***************************************************************************)
InsertOnPage(s, H, rec) ==
    LET ins == PageInsertRecord(s.bufPool[H.curPage], rec)
        t   == [s EXCEPT !.bufPool[H.curPage] = ins.pg,
                         !.bufPool[H.headerPage].recCnt = @ + 1]
    IN [ins EXCEPT !.pg = t]

\* Mutants of InsertOverflow: the new page stays pinned twice; the cursor
\* page is not linked to the new page.
InsertOverflowKeepsPin(s, H, rec, fault) ==
    LET H1(n) == [H EXCEPT !.curDirtyFlag = TRUE, !.curPageNo = n.pageNo]
        Inserted(n, r, i) ==
            IF i.status # "OK"
            THEN Out(i.pg, [H1(n) EXCEPT !.curPage = r.frame], i.status)
            ELSE [Out([i.pg EXCEPT !.bufPool[r.frame].next = -1],
                      [H1(n) EXCEPT !.curPage = r.frame, !.curRec = i.rid], "OK")
                  EXCEPT !.rid = i.rid]
        Reread(n, r) ==
            IF r.status # "OK" THEN Out(r.st, H1(n), r.status)
            ELSE Inserted(n, r, InsertOnPage(r.st, [H1(n) EXCEPT !.curPage = r.frame], rec))
        Linked(n, u) == Reread(n, ReadPage(u, HF, u.bufPool[H.headerPage].lastPage, fault))
        Alloced(n, a) ==
            IF a.status # "OK" THEN Out(a.st, H, a.status)
            ELSE Linked(n, UnPinPage([a.st EXCEPT !.bufPool[a.frame] = PageInit(@, n.pageNo),
                                         !.bufPool[H.headerPage].lastPage = n.pageNo,
                                         !.bufPool[H.headerPage].pageCnt = @ + 1,
                                         !.bufPool[H.curPage].next = n.pageNo],
                                     HF, H.curPageNo, TRUE).st)
        Start(n) ==
            IF n.status # "OK" THEN Out(s, H, n.status)
            ELSE Alloced(n, AllocPage(s, HF, n.pageNo, fault))
    IN Start(NewPageNo(s))

InsertOverflowNoLink(s, H, rec, fault) ==
    LET H1(n) == [H EXCEPT !.curDirtyFlag = TRUE, !.curPageNo = n.pageNo]
        Inserted(n, r, i) ==
            IF i.status # "OK"
            THEN Out(i.pg, [H1(n) EXCEPT !.curPage = r.frame], i.status)
            ELSE [Out(UnPinPage([i.pg EXCEPT !.bufPool[r.frame].next = -1],
                                HF, n.pageNo, TRUE).st,
                      [H1(n) EXCEPT !.curPage = r.frame, !.curRec = i.rid], "OK")
                  EXCEPT !.rid = i.rid]
        Reread(n, r) ==
            IF r.status # "OK" THEN Out(r.st, H1(n), r.status)
            ELSE Inserted(n, r, InsertOnPage(r.st, [H1(n) EXCEPT !.curPage = r.frame], rec))
        Linked(n, u) == Reread(n, ReadPage(u, HF, u.bufPool[H.headerPage].lastPage, fault))
        Alloced(n, a) ==
            IF a.status # "OK" THEN Out(a.st, H, a.status)
            ELSE Linked(n, UnPinPage([a.st EXCEPT !.bufPool[a.frame] = PageInit(@, n.pageNo),
                                         !.bufPool[H.headerPage].lastPage = n.pageNo,
                                         !.bufPool[H.headerPage].pageCnt = @ + 1],
                                     HF, H.curPageNo, TRUE).st)
        Start(n) ==
            IF n.status # "OK" THEN Out(s, H, n.status)
            ELSE Alloced(n, AllocPage(s, HF, n.pageNo, fault))
    IN Start(NewPageNo(s))

InsertOverflow(s, H, rec, fault) ==
    LET H1(n) == [H EXCEPT !.curDirtyFlag = TRUE, !.curPageNo = n.pageNo]
        Inserted(n, r, i) ==
            IF i.status # "OK"
            THEN Out(i.pg, [H1(n) EXCEPT !.curPage = r.frame], i.status)
            ELSE [Out(UnPinPage([i.pg EXCEPT !.bufPool[r.frame].next = -1],
                                HF, n.pageNo, TRUE).st,
                      [H1(n) EXCEPT !.curPage = r.frame, !.curRec = i.rid], "OK")
                  EXCEPT !.rid = i.rid]
        Reread(n, r) ==
            IF r.status # "OK" THEN Out(r.st, H1(n), r.status)
            ELSE Inserted(n, r, InsertOnPage(r.st, [H1(n) EXCEPT !.curPage = r.frame], rec))
        Linked(n, u) == Reread(n, ReadPage(u, HF, u.bufPool[H.headerPage].lastPage, fault))
        Alloced(n, a) ==
            IF a.status # "OK" THEN Out(a.st, H, a.status)
            ELSE Linked(n, UnPinPage([a.st EXCEPT !.bufPool[a.frame] = PageInit(@, n.pageNo),
                                         !.bufPool[H.headerPage].lastPage = n.pageNo,
                                         !.bufPool[H.headerPage].pageCnt = @ + 1,
                                         !.bufPool[H.curPage].next = n.pageNo],
                                     HF, H.curPageNo, TRUE).st)
        Start(n) ==
            IF n.status # "OK" THEN Out(s, H, n.status)
            ELSE Alloced(n, AllocPage(s, HF, n.pageNo, fault))
    IN Start(NewPageNo(s))

InsertRecord(s, H, rec, fault) ==
    LET lp == s.bufPool[H.headerPage].lastPage
        LastRead(r) ==
            IF r.status # "OK"
            THEN Out(r.st, [H EXCEPT !.curPageNo = lp, !.curDirtyFlag = FALSE], r.status)
            ELSE LET fr == PageFirstRecord(r.st.bufPool[r.frame]) IN
                 Out(r.st, [H EXCEPT !.curPageNo = lp, !.curPage = r.frame,
                                     !.curDirtyFlag = FALSE, !.curRec = fr.rid], fr.status)
        Unpinned(u) ==
            IF u.status # "OK" THEN Out(s, H, u.status)
            ELSE LastRead(ReadPage(u.st, HF, lp, fault))
        \* S: the handle with a cursor page, or the status that stopped it
        Insert(S) ==
            LET i == InsertOnPage(S.st, S.h, rec) IN
            CASE S.status # "OK"      -> S
              [] i.status = "OK"      -> [Out(i.pg, [S.h EXCEPT !.curRec = i.rid,
                                                     !.curDirtyFlag = TRUE], "OK")
                                          EXCEPT !.rid = i.rid]
              [] i.status = "NOSPACE" -> InsertOverflow(S.st, S.h, rec, fault)
              [] OTHER                -> Out(S.st, S.h, i.status)
    IN Insert(IF H.curPage # NullPtr THEN Out(s, H, "OK")
              ELSE Unpinned(UnPinPage(s, HF, H.curPageNo, H.curDirtyFlag)))

(***************************************************************************)
(* HeapFileScan::scanNext.  A scan without a cursor page starts on the    *)
(* first data page at its first record, then asks for the record after    *)
(* it.  ScanLoop(s, H, filter, fault, fuel) is the while loop; filter is  *)
(* the set of records matchRec accepts.  The loop runs at most once per   *)
(* slot and page, so "DIVERGED" marks a loop that would not end.           *)
(***************************************************************************)
MaxScanSteps == Cardinality(PageNos) * (SlotsPerPage + 1) + 1

\* Mutant of ScanLoop: the next record on the page is tested without
\* moving curRec to it.
RECURSIVE ScanLoopNoAdvance(_, _, _, _, _)
ScanLoopNoAdvance(s, H, filter, fault, fuel) ==
    LET pg == s.bufPool[H.curPage]
        n  == PageNextRecord(pg, H.curRec)
        H1 == [H EXCEPT !.curPageNo = pg.next, !.curDirtyFlag = FALSE]
        \* Fetch the record at curRec and test matchRec.
        Test(t, G) ==
            LET g == PageGetRecord(t.bufPool[G.curPage], G.curRec) IN
            CASE g # "OK" -> Out(t, G, g)
              [] t.bufPool[G.curPage].slots[G.curRec.slotNo] \in filter ->
                     [Out(t, G, "OK") EXCEPT !.rid = G.curRec]
              [] OTHER -> ScanLoopNoAdvance(t, G, filter, fault, fuel - 1)
        NextRead(r) ==
            LET fr == PageFirstRecord(r.st.bufPool[r.frame])
                H2 == [H1 EXCEPT !.curPage = r.frame,
                                 !.curRec = IF fr.status = "OK" THEN fr.rid ELSE H.curRec]
            IN CASE r.status # "OK"  -> Out(r.st, H1, r.status)
                 [] fr.status # "OK" -> ScanLoopNoAdvance(r.st, H2, filter, fault, fuel - 1)
                 [] OTHER            -> Test(r.st, H2)
        Unpinned(u) ==
            IF u.status # "OK" THEN Out(s, H, u.status)
            ELSE NextRead(ReadPage(u.st, HF, pg.next, fault))
    IN CASE fuel = 0           -> Out(s, H, "DIVERGED")
         [] n.status = "OK"    -> Test(s, H)
         [] pg.next = -1       -> Out(s, H, "FILEEOF")
         [] OTHER -> Unpinned(UnPinPage(s, HF, H.curPageNo, H.curDirtyFlag))

\* Mutant of ScanLoop: on a new page the loop goes back to nextRecord
\* instead of testing the page's first record.
RECURSIVE ScanLoopSkipsFirst(_, _, _, _, _)
ScanLoopSkipsFirst(s, H, filter, fault, fuel) ==
    LET pg == s.bufPool[H.curPage]
        n  == PageNextRecord(pg, H.curRec)
        H1 == [H EXCEPT !.curPageNo = pg.next, !.curDirtyFlag = FALSE]
        \* Fetch the record at curRec and test matchRec.
        Test(t, G) ==
            LET g == PageGetRecord(t.bufPool[G.curPage], G.curRec) IN
            CASE g # "OK" -> Out(t, G, g)
              [] t.bufPool[G.curPage].slots[G.curRec.slotNo] \in filter ->
                     [Out(t, G, "OK") EXCEPT !.rid = G.curRec]
              [] OTHER -> ScanLoopSkipsFirst(t, G, filter, fault, fuel - 1)
        NextRead(r) ==
            LET fr == PageFirstRecord(r.st.bufPool[r.frame])
                H2 == [H1 EXCEPT !.curPage = r.frame,
                                 !.curRec = IF fr.status = "OK" THEN fr.rid ELSE H.curRec]
            IN CASE r.status # "OK"  -> Out(r.st, H1, r.status)
                 [] fr.status # "OK" -> ScanLoopSkipsFirst(r.st, H2, filter, fault, fuel - 1)
                 [] OTHER            -> ScanLoopSkipsFirst(r.st, H2, filter, fault, fuel - 1)
        Unpinned(u) ==
            IF u.status # "OK" THEN Out(s, H, u.status)
            ELSE NextRead(ReadPage(u.st, HF, pg.next, fault))
    IN CASE fuel = 0           -> Out(s, H, "DIVERGED")
         [] n.status = "OK"    -> Test(s, [H EXCEPT !.curRec = n.rid])
         [] pg.next = -1       -> Out(s, H, "FILEEOF")
         [] OTHER -> Unpinned(UnPinPage(s, HF, H.curPageNo, H.curDirtyFlag))

RECURSIVE ScanLoop(_, _, _, _, _)
ScanLoop(s, H, filter, fault, fuel) ==
    LET pg == s.bufPool[H.curPage]
        n  == PageNextRecord(pg, H.curRec)
        H1 == [H EXCEPT !.curPageNo = pg.next, !.curDirtyFlag = FALSE]
        \* Fetch the record at curRec and test matchRec.
        Test(t, G) ==
            LET g == PageGetRecord(t.bufPool[G.curPage], G.curRec) IN
            CASE g # "OK" -> Out(t, G, g)
              [] t.bufPool[G.curPage].slots[G.curRec.slotNo] \in filter ->
                     [Out(t, G, "OK") EXCEPT !.rid = G.curRec]
              [] OTHER -> ScanLoop(t, G, filter, fault, fuel - 1)
        NextRead(r) ==
            LET fr == PageFirstRecord(r.st.bufPool[r.frame])
                H2 == [H1 EXCEPT !.curPage = r.frame,
                                 !.curRec = IF fr.status = "OK" THEN fr.rid ELSE H.curRec]
            IN CASE r.status # "OK"  -> Out(r.st, H1, r.status)
                 [] fr.status # "OK" -> ScanLoop(r.st, H2, filter, fault, fuel - 1)
                 [] OTHER            -> Test(r.st, H2)
        Unpinned(u) ==
            IF u.status # "OK" THEN Out(s, H, u.status)
            ELSE NextRead(ReadPage(u.st, HF, pg.next, fault))
    IN CASE fuel = 0           -> Out(s, H, "DIVERGED")
         [] n.status = "OK"    -> Test(s, [H EXCEPT !.curRec = n.rid])
         [] pg.next = -1       -> Out(s, H, "FILEEOF")
         [] OTHER -> Unpinned(UnPinPage(s, HF, H.curPageNo, H.curDirtyFlag))

ScanNext(s, H, filter, fault) ==
    LET fp == s.bufPool[H.headerPage].firstPage
        H1 == [H EXCEPT !.curPageNo = fp, !.curDirtyFlag = FALSE]
        FirstRead(r) ==
            LET fr == PageFirstRecord(r.st.bufPool[r.frame]) IN
            CASE r.status # "OK"  -> Out(r.st, H1, r.status)
              [] fr.status # "OK" -> Out(r.st, [H1 EXCEPT !.curPage = r.frame], fr.status)
              [] OTHER -> ScanLoop(r.st, [H1 EXCEPT !.curPage = r.frame, !.curRec = fr.rid],
                                   filter, fault, MaxScanSteps)
    IN IF H.curPage # NullPtr THEN ScanLoop(s, H, filter, fault, MaxScanSteps)
       ELSE FirstRead(ReadPage(s, HF, fp, fault))

(***************************************************************************)
(* markScan / resetScan: a different marked page is re-read clean.        *)
(***************************************************************************)
MarkScan(H) == [H EXCEPT !.markedPageNo = H.curPageNo, !.markedRec = H.curRec]

ResetScan(s, H, fault) ==
    LET H1 == [H EXCEPT !.curPageNo = H.markedPageNo, !.curRec = H.markedRec]
        Reread(r) ==
            IF r.status # "OK" THEN Out(r.st, H1, r.status)
            ELSE Out(r.st, [H1 EXCEPT !.curPage = r.frame, !.curDirtyFlag = FALSE], "OK")
        Unpinned(u) ==
            IF u.status # "OK" THEN Out(u.st, H, u.status)
            ELSE Reread(ReadPage(u.st, HF, H.markedPageNo, fault))
    IN IF H.markedPageNo = H.curPageNo
       THEN Out(s, [H EXCEPT !.curRec = H.markedRec], "OK")
       ELSE Unpinned(IF H.curPage # NullPtr
                     THEN UnPinPage(s, HF, H.curPageNo, H.curDirtyFlag)
                     ELSE Result(s, "OK", NoFrame))

(***************************************************************************)
(* HeapFileScan::deleteRecord: recCnt is decremented and the header       *)
(* marked dirty whatever the page's deleteRecord returned.                 *)
(***************************************************************************)
DeleteRecord(s, H) ==
    LET d == PageDeleteRecord(s.bufPool[H.curPage], H.curRec) IN
    Out([s EXCEPT !.bufPool[H.curPage] = d.pg,
                  !.bufPool[H.headerPage].recCnt = @ - 1],
        [H EXCEPT !.curDirtyFlag = TRUE, !.hdrDirtyFlag = TRUE], d.status)


-----------------------------------------------------------------------------
(***************************************************************************)
(* Actions: a caller's call on handle h.  A handle whose constructor      *)
(* failed is abandoned (the caller stops using it).  "marked" records     *)
(* that markScan was called before resetScan, which reads markedPageNo.   *)
(***************************************************************************)
IsOpen(h) == alive /\ hf[h].state = "open"

\* Commit the result o of a call on handle h.
Apply(op, h, o) ==
    /\ bm' = o.st
    /\ hf' = [hf EXCEPT ![h] = o.h]
    /\ rids' = IF o.rid # NULLRID THEN rids \cup {o.rid} ELSE rids
    /\ positioned' = IF op = "scanNext" /\ o.status = "OK"
                     THEN positioned \cup {h} ELSE positioned \ {h}
    /\ lastOp' = [op |-> op, h |-> h, status |-> o.status, rid |-> o.rid]

\* db.createFile has made the file before any page is allocated, so the
\* file exists whatever createHeapFile returns.
DoCreateHeapFile(fault) ==
    LET c == CreateHeapFile(bm, fault) IN
    /\ alive /\ ~exists
    /\ bm' = c.st
    /\ exists' = TRUE
    /\ lastOp' = [op |-> "createHeapFile", h |-> "none", status |-> c.status, rid |-> NULLRID]
    /\ UNCHANGED <<alive, hf, nextRec, rids, positioned>>

DoOpen(h, fault) ==
    /\ alive /\ exists /\ hf[h].state = "closed"
    /\ Apply("open", h, OpenHeapFile(bm, ClosedHandle, fault))
    /\ UNCHANGED <<alive, exists, nextRec>>

DoClose(h) ==
    /\ IsOpen(h)
    /\ bm' = IF h \in ScanHandles THEN CloseScan(bm, hf[h]) ELSE CloseInsert(bm, hf[h])
    /\ hf' = [hf EXCEPT ![h] = ClosedHandle]
    /\ positioned' = positioned \ {h}
    /\ lastOp' = [op |-> "close", h |-> h, status |-> "OK", rid |-> NULLRID]
    /\ UNCHANGED <<alive, exists, nextRec, rids>>

DoGetRecord(h, rid, fault) ==
    /\ IsOpen(h) /\ rid \in rids
    /\ Apply("getRecord", h, GetRecord(bm, hf[h], rid, fault))
    /\ UNCHANGED <<alive, exists, nextRec>>

DoInsertRecord(h, fault) ==
    LET o == InsertRecord(bm, hf[h], nextRec, fault) IN
    /\ h \in InsertHandles /\ IsOpen(h) /\ nextRec <= MaxRecs
    /\ Apply("insertRecord", h, o)
    /\ nextRec' = IF o.status = "OK" THEN nextRec + 1 ELSE nextRec
    /\ UNCHANGED <<alive, exists>>

DoStartScan(h, filter) ==
    /\ h \in ScanHandles /\ IsOpen(h)
    /\ hf' = [hf EXCEPT ![h].filter = filter]
    /\ positioned' = positioned \ {h}
    /\ lastOp' = [op |-> "startScan", h |-> h, status |-> "OK", rid |-> NULLRID]
    /\ UNCHANGED <<bm, alive, exists, nextRec, rids>>

DoScanNext(h, fault) ==
    /\ h \in ScanHandles /\ IsOpen(h)
    /\ Apply("scanNext", h, ScanNext(bm, hf[h], hf[h].filter, fault))
    /\ UNCHANGED <<alive, exists, nextRec>>

DoEndScan(h) ==
    /\ h \in ScanHandles /\ IsOpen(h)
    /\ Apply("endScan", h, EndScan(bm, hf[h]))
    /\ UNCHANGED <<alive, exists, nextRec>>

DoMarkScan(h) ==
    /\ h \in ScanHandles /\ IsOpen(h)
    /\ MarkAnywhere \/ hf[h].curPage # NullPtr
    /\ Apply("markScan", h, Out(bm, [MarkScan(hf[h]) EXCEPT !.marked = TRUE], "OK"))
    /\ UNCHANGED <<alive, exists, nextRec>>

DoResetScan(h, fault) ==
    /\ h \in ScanHandles /\ IsOpen(h) /\ hf[h].marked
    /\ Apply("resetScan", h, ResetScan(bm, hf[h], fault))
    /\ UNCHANGED <<alive, exists, nextRec>>

\* The caller deletes the record its last scanNext returned, once.
DoDeleteRecord(h) ==
    /\ h \in ScanHandles /\ IsOpen(h) /\ h \in positioned
    /\ Apply("deleteRecord", h, DeleteRecord(bm, hf[h]))
    /\ UNCHANGED <<alive, exists, nextRec>>

DoMarkDirty(h) ==
    /\ h \in ScanHandles /\ IsOpen(h)
    /\ Apply("markDirty", h, Out(bm, [hf[h] EXCEPT !.curDirtyFlag = TRUE], "OK"))
    /\ UNCHANGED <<alive, exists, nextRec>>

\* The program ends once no handle is open: ~BufMgr writes dirty frames.
DoShutdown(fault) ==
    /\ alive /\ \A h \in Handles : hf[h].state # "open"
    /\ bm' = Shutdown(bm, fault)
    /\ alive' = FALSE
    /\ lastOp' = [op |-> "~BufMgr", h |-> "none", status |-> "OK", rid |-> NULLRID]
    /\ UNCHANGED <<exists, hf, nextRec, rids, positioned>>

Terminated == ~alive /\ UNCHANGED vars

Next ==
    \/ \E fault \in IOFaults : DoCreateHeapFile(fault) \/ DoShutdown(fault)
    \/ \E h \in Handles, fault \in IOFaults :
          \/ DoOpen(h, fault) \/ DoInsertRecord(h, fault) \/ DoScanNext(h, fault)
          \/ DoResetScan(h, fault)
          \/ \E rid \in rids : DoGetRecord(h, rid, fault)
    \/ \E h \in Handles :
          \/ DoClose(h) \/ DoEndScan(h) \/ DoMarkScan(h)
          \/ DoDeleteRecord(h) \/ DoMarkDirty(h)
          \/ \E filter \in Filters : DoStartScan(h, filter)
    \/ Terminated

Spec == Init /\ [][Next]_vars


-----------------------------------------------------------------------------
(***************************************************************************)
(* Properties.  View(p) is page p as the program sees it: its frame while *)
(* resident, else its disk copy.  Chain(v, p, n) is the list of pages     *)
(* reached from p along nextPage links, at most n of them.                *)
(***************************************************************************)
DataPages == PageNos \ {0}

View(p) == IF Lookup(bm, HF, p) # NoFrame THEN bm.bufPool[Lookup(bm, HF, p)]
           ELSE bm.disk[HF][p]
DiskView(p) == bm.disk[HF][p]

RECURSIVE Chain(_, _, _)
Chain(v(_), p, n) ==
    IF p \notin DataPages \/ n = 0 THEN <<>>
    ELSE <<p>> \o Chain(v, v(p).next, n - 1)

\* The header page, its chain and whether the list is well formed in view v.
Header(v(_)) == v(Min(Allocated(bm)))
ListOf(v(_)) == Chain(v, Header(v).firstPage, Cardinality(DataPages))
LiveRecs(v(_)) ==
    MapThenSumSet(LAMBDA p : Cardinality(LiveSlots(v(p))), ToSet(ListOf(v)))
EndsAtLastPage(v(_)) ==
    LET l == ListOf(v) IN
    /\ l # <<>> /\ Last(l) = Header(v).lastPage /\ v(Last(l)).next = -1

Pins(p) ==
    LET i == Lookup(bm, HF, p) IN IF i = NoFrame THEN 0 ELSE bm.bufTable[i].pinCnt
\* Pins handle h holds on page p: its header while it exists, its cursor.
HeldBy(h, p) ==
    (IF hf[h].state # "closed" /\ hf[h].headerPage # NullPtr /\ hf[h].headerPageNo = p
     THEN 1 ELSE 0)
  + (IF hf[h].state = "open" /\ hf[h].curPage # NullPtr /\ hf[h].curPageNo = p
     THEN 1 ELSE 0)

\* Every handle field and the buffer manager have their types; no page
\* holds more slots than fit on it.
TypeOK ==
    /\ alive \in BOOLEAN /\ exists \in BOOLEAN
    /\ nextRec \in 1 .. MaxRecs + 1
    /\ \A h \in Handles :
         /\ hf[h].state \in {"closed", "open", "failed"}
         /\ hf[h].headerPage \in Frames \cup {NullPtr}
         /\ hf[h].curPage \in Frames \cup {NullPtr}
         /\ hf[h].curDirtyFlag \in BOOLEAN /\ hf[h].hdrDirtyFlag \in BOOLEAN
    /\ \A i \in Frames : bm.bufTable[i].pinCnt \in Nat
    /\ \A p \in Allocated(bm) : Len(View(p).slots) <= SlotsPerPage
    /\ positioned \subseteq ScanHandles

\* Pin accounting across handles (spec 4.3, 8 pin balance): the pin count
\* of every page of the heap file is the number of pins the handles hold
\* on it (the header by every live handle, the cursor page by its handle),
\* and a handle's headerPage and curPage point at the frame now holding
\* that page.  Open, getRecord, insertRecord's overflow, scanNext's page
\* change, resetScan, endScan and both destructors pin and unpin; a
\* failed read in the middle of a cursor move leaves a stale curPage.
HandlePinsMatch ==
    /\ \A p \in DataPages : Pins(p) = MapThenSumSet(LAMBDA h : HeldBy(h, p), Handles)
    /\ \A h \in Handles :
         /\ hf[h].state # "closed" /\ hf[h].headerPage # NullPtr =>
               hf[h].headerPage = Lookup(bm, HF, hf[h].headerPageNo)
         /\ hf[h].state = "open" /\ hf[h].curPage # NullPtr =>
               hf[h].curPage = Lookup(bm, HF, hf[h].curPageNo)

\* The page list is well formed while the program runs (spec 6): the chain
\* from firstPage ends at the header's lastPage, whose nextPage is -1.
\* createHeapFile builds it, insertRecord's overflow extends it by linking
\* the new page after the cursor page and moving lastPage.
ListEndsAtLastPage ==
    alive /\ exists => EndsAtLastPage(View)

\* recCnt counts the live records reachable from the header (spec 4.5,
\* 4.4): insertRecord increments it, deleteRecord decrements it.
RecCntAccurate ==
    alive /\ exists => Header(View).recCnt = LiveRecs(View)

\* After the program ends, the file on disk is a well-formed heap file
\* whose header counts its records (spec 9: header changes must set
\* hdrDirtyFlag; insertRecord changes lastPage, pageCnt and recCnt).
HeaderDurable ==
    ~alive /\ exists => EndsAtLastPage(DiskView) /\ Header(DiskView).recCnt = LiveRecs(DiskView)

\* The RIDs of the records the list holds, in list and slot order.
RecordRids(v(_)) ==
    LET l == ListOf(v) IN
    FoldLeft(LAMBDA acc, p : acc \o
               SetToSortSeq({Rid(p, i) : i \in LiveSlots(v(p))},
                            LAMBDA a, b : a.slotNo < b.slotNo),
             <<>>, l)

\* The RIDs the list holds after the cursor (page cp, record c) of a scan
\* that has a cursor page, in list and slot order, whose record the filter
\* accepts.
RidsAfter(cp, c, filter) ==
    LET l == ListOf(View)
        at(q) == SelectInSeq(l, LAMBDA x : x = q)
    IN SelectSeq(RecordRids(View),
                 LAMBDA r : /\ \/ at(r.pageNo) > at(cp)
                               \/ r.pageNo = cp /\ r.slotNo > c.slotNo
                            /\ View(r.pageNo).slots[r.slotNo] \in filter)

\* scanNext, called with a cursor page on the list, returns the first
\* record after the cursor that the filter accepts, or FILEEOF when there
\* is none (spec 4.4 and 8: every matching RID once, in page and slot
\* order); every OK leaves curPageNo and curRec on the live record it
\* returns.  The loop (heapfile.C 380-422) steps nextRecord on the page,
\* follows nextPage, re-pins, and tests matchRec; interleaved inserts into
\* holes, deletes, getRecord and resetScan move what "after" means.
ScanNextReturnsSuccessor ==
    [][lastOp'.op = "scanNext" =>
        LET h   == lastOp'.h
            r   == lastOp'.rid
            fr  == Lookup(bm', HF, r.pageNo)
            nxt == RidsAfter(hf[h].curPageNo, hf[h].curRec, hf[h].filter)
        IN /\ lastOp'.status = "OK" =>
                 /\ r.pageNo = hf'[h].curPageNo /\ hf'[h].curRec = r /\ fr # NoFrame
                 /\ r.slotNo \in LiveSlots(bm'.bufPool[fr])
                 /\ bm'.bufPool[fr].slots[r.slotNo] \in hf[h].filter
           /\ hf[h].curPage # NullPtr /\ hf[h].curPageNo \in ToSet(ListOf(View)) =>
                 IF nxt = <<>> THEN lastOp'.status = "FILEEOF"
                 ELSE lastOp'.status = "OK" /\ r = Head(nxt)]_vars

\* scanNext returns: its loop (heapfile.C 380-422) moves curRec or curPage
\* forward on every pass and the page list has no cycle, so no call runs
\* out of passes (the spec's "FILEEOF, then stop").
ScanNextTerminates == lastOp.status # "DIVERGED"

\* A scan that starts without a cursor page (a fresh scan after endScan)
\* returns the first record of the file that its filter accepts (spec 8,
\* scan exhaustiveness: every RID once, in page and slot order).
ScanStartsAtFirstRecord ==
    [][lastOp'.op = "scanNext" /\ lastOp'.status = "OK"
       /\ hf[lastOp'.h].curPage = NullPtr =>
        LET h == lastOp'.h
            m == SelectSeq(RecordRids(View),
                           LAMBDA r : View(r.pageNo).slots[r.slotNo] \in hf[h].filter)
        IN m # <<>> /\ lastOp'.rid = Head(m)]_vars

=============================================================================
