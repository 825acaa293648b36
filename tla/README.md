# TLA+ models of the minirel buffer manager and heap-file layer

This directory holds TLA+ models of `src/`. They are checked with TLC:

- `src/s3/buf.C`: the buffer manager `BufMgr`. `src/buf.C` is the same code without the doc comments. The models cover both.
- `src/s4/heapfile.C`: the heap file, with its scan and insert cursors and the record filter.

## 1. Inventory

### Components and their state

| Component | Source | State | Operations that change state |
|---|---|---|---|
| Buffer manager `BufMgr` | `src/s3/buf.C`, `src/buf.C` | `bufTable` (one `BufDesc` per frame: `valid, file, pageNo, pinCnt, dirty, refbit`), `bufPool` (frame contents), `clockHand`, `hashTable` | constructor, `allocBuf` (clock replacement), `readPage`, `unPinPage`, `allocPage`, `disposePage`, `flushFile`, destructor |
| Residency index `BufHashTbl` | not in `src/` (spec 4.1) | map `(file, pageNo) -> frame` | `insert`, `remove` (lookup is pure) |
| Paged file store `File` / catalog `DB` | not in `src/` (spec 6) | allocated pages and their bytes; open files | `allocatePage`, `disposePage`, `readPage`, `writePage`; `createFile`, `openFile`, `closeFile`, `destroyFile` |
| Heap file `HeapFile` | `src/s4/heapfile.C` | `filePtr`; `headerPage`/`headerPageNo`/`hdrDirtyFlag` (header pinned while open); `curPage`/`curPageNo`/`curDirtyFlag`/`curRec` (cursor) | `createHeapFile`, constructor (open), destructor (close), `getRecord` |
| `HeapFileScan` | `src/s4/heapfile.C` | heap-file state plus `offset, length, type, filter, op`, `markedPageNo, markedRec` | `startScan`, `scanNext`, `markScan`, `resetScan`, `endScan`, `deleteRecord`, `markDirty` |
| `InsertFileScan` | `src/s4/heapfile.C` | heap-file state | `insertRecord` (with page overflow), destructor |
| Record filter `startScan`/`matchRec` | `src/s4/heapfile.C` | the scan's predicate `offset, length, type, filter, op` | `startScan` (`matchRec` is pure) |
| Slotted page `Page` | not in `src/` | records in slots, `nextPage` link | `init`, `insertRecord`, `deleteRecord`, `setNextPage` |

### How they interact
Clients call heap-file operations. Each one turns into pins and unpins on the buffer manager: `readPage`/`allocPage` pin a page, and `unPinPage(dirty)` releases it. A `Page*` returned by the buffer manager points into the pool. The heap file keeps such pointers (`headerPage`, `curPage`) between calls, and they stay valid only while the page is pinned. The buffer manager resolves pins through the hash table. A miss runs the clock, which may write a dirty victim back to its `File` and then read the new page. The state the layers share is the frame pool, and it is reached through raw pointers.

### What is hard
- **Interleaving of callers.** Everything is single-threaded. But several heap-file handles (a scan and an insert cursor on the same file) and other callers interleave whole calls on one pool. Pins, dirty bits and eviction decisions then depend on the order of the calls.
- **Clock replacement.** The refbit and pin-count logic is only exercised across several sweeps and particular pin patterns.
- **Partial failure.** Every call may fail half way, through an I/O error, a full pool (`BUFFEREXCEEDED`) or a hash error. Nothing is rolled back. The heap file moves its cursor before the read that can fail.
- **Write-back.** A write survives only if the dirty flag travels from the caller through `unPinPage` to eviction or `flushFile`.

### What makes each component correct
- **Buffer manager:**
  - the hash table and the descriptors agree;
  - pin counts equal the pins the callers hold;
  - no pinned frame is evicted;
  - no write is lost (spec 8.5);
  - `flushFile` = OK leaves the file evicted and on disk (spec 8.3);
  - `BUFFEREXCEEDED` is returned only when all frames are pinned.
- **Heap file:**
  - the header page is pinned while the file is open;
  - the cursor page (`curPage`) is pinned and holds `curPageNo`;
  - header changes (`recCnt`, `lastPage`, `pageCnt`) reach the disk;
  - the page list stays well formed (`firstPage` ... `lastPage`, `nextPage = -1` at the end, `pageCnt` pages);
  - `recCnt` equals the number of live records.
- **Scan:**
  - exhaustiveness: each record is returned exactly once, then `FILEEOF`;
  - mark/reset returns the same record again.
- **matchRec:** agrees with the mathematical comparison of the attribute with the filter.

The hazards this code is exposed to are listed, each at its line, in `PROJECT.json` under `hazards`.

## 2. Plan

Modules, in the order they are built (the most important behaviour first):

1. **`BufPool`** (done): the buffer manager as pure operators over a state record. Each `BufMgr` method is one operator returning `[st, status, frame]`, so that callers can chain several calls in one atomic step, as the code does. The hash table and the file store (not in `src/`) are modelled from the spec inside it.
2. **`BufMgr`** + **`MCBufMgr`** (done): a set of clients calls every method in any order, obeying the pinning protocol. This is where the buffer manager's properties are checked.
3. **`HeapFile`** + **`MCHeapFile`** (done): composes `BufPool`. One insert handle and one or two scan handles work on one heap file. Every operation of `heapfile.C` that changes state is an action. The slotted page is modelled from the spec.
4. **`PageStore`** (done): the abstract promise of the buffer manager, a plain store of pages with pin counts. `BufMgr` is shown to implement it with `INSTANCE PageStore WITH` a refinement mapping (`StoreRefined`).
5. **`RecordFilter`** + **`MCRecordFilter`** (done): `startScan` and `matchRec` with 32-bit `int` subtraction and `strncmp`, checked against the spec's predicate over the `int` extremes and strings with embedded NULs.
6. **`ClockSweep`** + **`AllocBufAtomic`** + **`MCClockSweep`** (done): `allocBuf`'s loop of `src/buf.C` unfolded into one step per turn. Its termination is checked as a liveness property under weak fairness, and it is shown to implement the one-step call that `BufPool`'s recursive `AllocBuf` defines (`AllocBufRefined`).

Left for later sittings:
- I/O faults in the heap-file runs (the constructor's and `insertRecord`'s failure paths);
- an abstract heap file (a set of records) and its refinement. It cannot hold while finding 3 stands (records drop out of the list), so it would first be checked with the insert cursor kept on the last page;
- scan exhaustiveness over a whole scan. `ScanNextReturnsSuccessor` gives it step by step for a scan with a cursor page, and finding 5 breaks it at a restart.

## 3. Modules and correspondence with the code

### `BufPool.tla` (`src/s3/buf.C`)

State record fields:
- `bufTable`: `BufDesc[]`
- `bufPool`: `Page[]`, page contents as abstract values
- `hashTable`: `BufHashTbl`, a function on `(file, pageNo)` returning a frame or `NoFrame`
- `clockHand`
- `disk`: each `File`'s pages, or `Unallocated`

Operators:

| Operator | Code |
|---|---|
| `InitBufMgr` | constructor |
| `Sweep` / `AllocBuf` | `allocBuf`. One recursive call of `Sweep` is one turn of the `while(true)` loop. The fuel bound `MaxSweep = 2*NumBufs+1` is never reached by the code: 2 sweeps suffice. |
| `ReadPage` | `readPage`. Miss: allocBuf, disk read, on failure `disposePage`, then hash insert and `Set`. Hit: refbit and pin. |
| `UnPinPage` | `unPinPage` |
| `AllocPage` | `allocPage` |
| `DisposePage` | `disposePage` |
| `FlushFrom` / `FlushFile` | `flushFile`, as a recursive loop over frames that returns at the first pinned frame or failed write |
| `Shutdown` | destructor |

`Clear`, `Set`, the hash operations and the `File*` operations follow spec sections 3, 4.1 and 6 (`spec_modelled` in the map).

Faults are an input record. At most one of these fails in a call:
- the write-back of one chosen frame;
- the disk read;
- the allocation of a hash-table entry, so `insert` returns `HASHTBLERROR` (spec 4.1).

Every method returns at its first failure, and `~BufMgr` writes each frame once, so a second fault in the same call would change nothing. Checking every combination of faults gave the same 140,740 states in `bufmgr_faults`. This covers every place where the code checks a write, read or insert status.

### `HeapFile.tla` (`src/s4/heapfile.C`)

Variables:
- `bm`: the `BufPool` state;
- `exists`: the catalog holds the file;
- `hf[h]`: the data members of handle `h`. Its state is `closed`, `open`, or `failed` (a constructor that returned an error). `headerPage` and `curPage` are frame numbers, so a `Page*` that outlives its pin reads whatever the frame now holds, as in the code;
- `nextRec`: the next record to insert;
- `rids`: the RIDs callers have been given (the inputs of `getRecord`);
- `positioned`: the scans whose last call was a successful `scanNext` (the protocol of `deleteRecord`);
- `lastOp`: the last call, its status and RID;
- `alive`: FALSE after `~BufMgr`.

A page is one record `[pageNo, slots, next, firstPage, lastPage, pageCnt, recCnt]`. A data page uses the slotted part and the header uses the `FileHdrPage` part. A new page is the zeroed page. Records are numbers; a deleted slot holds `Deleted`.

| Operator | Code |
|---|---|
| `CreateHeapFile` | `createHeapFile` (the `FILEEXISTS` path changes nothing and is not an action) |
| `OpenHeapFile` | `HeapFile::HeapFile` |
| `HeapFileDestructor`, `CloseScan`, `CloseInsert` | `~HeapFile`, `~HeapFileScan`, `~InsertFileScan`. `db.closeFile` changes nothing in the model: the catalog is not in `src/`, and the destructor's `flushFile` is commented out. |
| `GetRecord` | `HeapFile::getRecord` |
| `InsertRecord`, `InsertOnPage`, `InsertOverflow` | `InsertFileScan::insertRecord`: cursor set-up, in-page insert, `NOSPACE` path |
| `ScanNext`, `ScanLoop` | `scanNext`: the start without a cursor page, and the `while` loop as recursion |
| `EndScan`, `MarkScan`, `ResetScan`, `DeleteRecord` | the methods of the same name |
| `DoStartScan`, `DoMarkDirty` | `startScan` (a filter is the set of records `matchRec` accepts), `markDirty` |

The `File` and `Page` parts are spec-modelled:
- `allocatePage` returns the lowest free page number;
- page 0 is never handed out, so reading or unpinning it fails, as `getRecord` after `endScan` does;
- `nextRecord(NULLRID)` is the first record.

Each intermediate result (`readPage`, `allocPage`) is passed to the next step as an operator argument. TLC then evaluates it once, also when coverage is collected.

Caller protocol:
- `deleteRecord` only right after a successful `scanNext`;
- `resetScan` only after a `markScan`;
- with `MarkAnywhere = FALSE`, `markScan` only while the scan has a cursor page;
- the program ends (`~BufMgr`) only when no handle is open.

### `RecordFilter.tla` (`startScan`, `matchRec` in `src/s4/heapfile.C`)

Variables:
- `scan`: the predicate members;
- `status`: what the last `startScan` returned;
- `tested`: the last `matchRec` call since then, with its record and result.

A record is its length and the attribute at the filter's offset, seen as an `int`, a finite `float` and a char sequence.

| Operator | Code |
|---|---|
| `ValidScan`, `StartScan` | `startScan`: NULL filter, the `BADSCANPARM` check, storing the predicate |
| `Sub32` | `diff = iattr - ifltr` in 32-bit two's complement. Signed overflow is undefined in C++, and the build wraps. `Sub32` computes the wrapped value without leaving TLC's 32-bit integers. |
| `Cmp`, `StrnCmp`, `Diff` | the `FLOAT` and `STRING` cases. The `int`-to-`float` conversion keeps the sign, and `diff` is only compared with 0.0, so the model keeps `diff`'s sign. |
| `OpHolds`, `MatchRec` | the `switch(op)`, the record-length check, the NULL filter |
| `Test` | the `matchRec(rec)` call in `scanNext` |

`SpecMatch` is the predicate of spec 4.4: the exact difference, `memcmp` of `length` bytes. `MatchRecAgreesWithSpec` allows exactly two departures from it: an `INTEGER` subtraction that overflows (finding 7) and a `STRING` filter whose operands share a NUL before they differ. In the second case `matchRec` uses `strncmp` (`src/s4/heapfile.C:495`), which stops at the NUL where spec 4.4's `memcmp` would go on, so such attributes compare equal.

`MatchRecReadsDefinedBytes` is about memory safety. `matchRec` itself checks only that the attribute ends inside the record (`offset + length - 1 < rec.length`). Whether the `memcpy` into `iattr`/`fattr` starts inside the data (`offset >= 0`) and fills exactly `sizeof(int)` bytes, neither leaving bytes uninitialised nor overrunning the local, depends on the predicate an earlier `startScan` stored. A rejected `startScan` keeps the previous predicate, and a NULL filter clears only the filter. The property is stated on the stored predicate and the record, not through `ValidScan`. Dropping the size check from `startScan` lets an `INTEGER` filter of length 2 reach the `memcpy`, and TLC finds it.

### `PageStore.tla` (abstract)

This module states what a caller of the buffer manager can observe: each page has a content (`mem`) and a count of outstanding pins (`pinCnt`), and each call returns a status (`ret`). Its actions:
- `Read` pins an allocated page;
- `Write` is a write followed by `unPinPage(…, TRUE)`;
- `UnPin` returns a pin;
- `Alloc` makes a page empty and pins it, or fails. Per spec 4.2.3 (no rollback), a failed `Alloc` may still leave the page allocated;
- `Dispose` deallocates a page nobody pins;
- `NoEffect` covers `flushFile` and calls that fail without effect;
- `End` is `~BufMgr`.

`BufMgr` maps onto it:
- `mem[k]` is the frame of `k` while resident, else its disk copy, and the empty page while `k` is allocated but not yet written. After `~BufMgr` it is the disk copy.
- `pinCnt[k]` is the pin count of `k`'s frame.
- `ret` is `lastOp.status`.

### `ClockSweep.tla` and `AllocBufAtomic.tla` (`allocBuf` in `src/buf.C`)

`ClockSweep` follows one call of `BufMgr::allocBuf` (`src/buf.C:66-122`), one turn of `while(true)` per step.

State:
- `st`: the buffer-manager state record of `BufPool`;
- `pc`: inside the loop or returned;
- `numPinnedPages`: the loop's local counter;
- `status`, `frame`: the return value and the reference argument;
- `fault`: the call's fault record (at most one failing write-back);
- `st0`: the state at the call, a history variable for the refinement.

`Init` starts a call in any state the buffer manager can be in between calls (`CallStates`):
- every frame is either invalid, as the constructor or `Clear()` leaves it, or valid with a distinct page, any pin count 0 or 1, and any dirty and reference bits;
- the hash table maps exactly the valid frames' pages, and the hand may be anywhere;
- frame contents differ from the disk copy, so a missing write-back shows.

With 3 frames that is 68k starting states.

Actions, one per branch of the loop body:

| Action | Code |
|---|---|
| `Exceeded` | `if (numBufs == numPinnedPages) return BUFFEREXCEEDED` |
| `TakeInvalid` | `advanceClock()`, an invalid frame: `Clear()`, return it |
| `ClearRefbit` | `refbit = 0; continue` |
| `SkipPinned` | `numPinnedPages++; continue` |
| `WriteFails` | the dirty victim's `writePage` fails: return `UNIXERR` |
| `Evict` | write back if dirty, `hashTable->remove`, `Clear()`, return the frame; a failed remove returns its status |

`AllocBufAtomic` is the promise: a single step `Call` from the state at the call to `AllocBuf(st, fault)`. The refinement mapping shows the abstract state as `st0` while the loop runs and as `st` once it has returned. The turns are therefore stuttering steps, and the return step must produce exactly `AllocBuf`'s state, status and frame. This ties the unfolded loop of `src/buf.C` to the recursive `Sweep` that `BufPool`, `BufMgr` and `HeapFile` use.

### `BufMgr.tla`

Clients `Clients` call the methods. Each call is one step.

History variables:
- `held`: the pins each client holds;
- `fresh`: allocated pages not yet initialised;
- `latest`: the last version a client wrote to each page;
- `lastOp`: the last call and its status.

Client protocol (spec 5):
- a client unpins only pages it holds;
- a client writes only while pinned, then unpins dirty (action `CallWriteUnPin`: the write and the `unPinPage(…, TRUE)` are one step, since the page is pinned in between and no other call can evict it);
- a client initialises pages it allocated before unpinning them;
- a client never disposes a page somebody holds.

`CallShutdown` runs the destructor. After it the system stops (`Terminated` stutters), so deadlock checking stays on.

## 4. Runs

| Run | Config | Bounds | Shows |
|---|---|---|---|
| `bufmgr_core` | `MCBufMgr.cfg` | 2 frames, 1 file, pages 1..3 (2 allocated at start), 2 clients (symmetric), 1 write per page, 1 pin per client per page | `TypeOK`, `HashTableConsistent`, `PinsMatchHolders`, `NoLostUpdate`, `VictimNeverPinned`, `FlushFileEvicts` and the refinement `StoreRefined` hold over all interleavings: 141k states |
| `bufmgr_faults` | `MCBufMgrFaults.cfg` | as above, 1 client, any write-back, read or hash insert may fail | the bookkeeping properties survive every failure: 141k states. A `readPage` whose insert fails leaves the frame invalid, unpinned and unmapped. |
| `allocbuf_exceeded` | `MCBufMgrExceeded.cfg` | as `bufmgr_core` | **violation** of `BufferExceededOnlyWhenAllPinned`, see below |
| `read_fault_loses_page` | `MCBufMgrReadFault.cfg` | as `bufmgr_core`, reads may fail | **violation** of `NoLostUpdate`, see below |
| `heapfile_core` | `MCHeapFile.cfg` | 5 frames, pages 0..3, 2 slots per page, 3 records, 1 insert + 1 scan handle, filters {all, {2}} | `TypeOK`, `HandlePinsMatch`, `ListEndsAtLastPage`, `ScanNextTerminates` and `ScanNextReturnsSuccessor` hold while the scan moves within a page and across the link. Every `scanNext` with a cursor page returns the next matching record after the cursor, or `FILEEOF` when there is none, under interleaved inserts into holes, deletes, `getRecord` and `resetScan`. 186k states. |
| `heapfile_insert_relink` | `MCHeapFileRelink.cfg` | 5 frames, pages 0..4, 1 slot per page, 3 records, 1 insert + 1 scan handle | **violation** of `RecCntAccurate` (finding 3) |
| `heapfile_header_not_dirty` | `MCHeapFileHeader.cfg` | 5 frames, pages 0..4, 1 slot per page, 3 records, 1 insert + 1 scan handle | **violation** of `HeaderDurable` (finding 4) |
| `heapfile_scan_restart_skips` | `MCHeapFileRestart.cfg` | 5 frames, pages 0..4, 1 slot per page, 3 records, 1 insert + 1 scan handle | **violation** of `ScanStartsAtFirstRecord` (finding 5) |
| `heapfile_create_leaks_pin` | `MCHeapFileCreateFails.cfg` | pages 0..1: the file has room for the header only | **violation** of `HandlePinsMatch` (finding 6) |
| `recordfilter_core` | `MCRecordFilter.cfg` | offsets -1..1, lengths 0, 2, 4, record lengths 4, 5, ints {INT_MIN, -1, 0, INT_MAX}, 4 four-char strings, every type and operator and a bad one of each | `TypeOK`, `MatchRecAgreesWithSpec` and `MatchRecReadsDefinedBytes` hold: 16k states. A `matchRec` that passes its length check never reads before the record, and never copies other than 4 bytes into its `int`/`float`. |
| `matchrec_int_overflow` | `MCRecordFilterOverflow.cfg` | as `recordfilter_core` | **violation** of `IntegerFilterOrdersValues` (finding 7) |
| `clocksweep_core` | `MCClockSweep.cfg` | 3 frames, 1 file, pages 1..3, every between-call state, no fault or one failing write-back per call | `TypeOK`; `allocBuf` always returns (`AllocBufReturns`, under weak fairness); the loop refines the one-step `AllocBuf` (`AllocBufRefined`): 234k states |

Why the bounds are enough:
- With 2 frames and 3 pages, every `allocBuf` path is taken: invalid frame, refbit clear, pinned skip, clean victim, dirty victim, write failure, and `BUFFEREXCEEDED`.
- With 2 clients, a page can be pinned twice and unpinned with different dirty flags, and a flush can meet another client's pin.
- A 3-frame pool with 4 pages was tried and exceeds the 5-minute budget (over 3M states).
- Heap file:
  - In `heapfile_core`, two slots per page and three records make `insertRecord` overflow once. The list then has two data pages (2, 3), so `scanNext` steps within a page (`nextRecord` = OK from a real record) and across the link, and page 0 exists for the `endScan`/`resetScan` paths. Two slots with five records (three pages) exceeds the time budget (over 7M states).
  - The violation runs of the heap file use one slot per page and pages 0..4: three records then overflow twice, a list of three data pages, which the relink of finding 3 needs.
  - With 5 frames for 4 pages, an invalid frame always exists. The clock then meets it on its first turn, so `allocBuf` cannot fail. The pass run therefore checks the heap file's own pin arithmetic.
- Clock sweep: 3 frames start from every between-call state (68k). This includes all-pinned pools with set refbits, the longest loop (2 * 3 turns), and the visit miscount of finding 1. 4 frames would add only longer versions of the same paths.
- Record filter:
  - The `int` values are the extremes and their neighbours, so both overflow directions occur (`INT_MAX - (-1)`, `INT_MIN - INT_MAX`, `0 - INT_MIN`).
  - Offsets and record lengths put `offset + length` on both sides of the record's end, and at it.
  - Two strings share a NUL before they differ.

Every property of the passing runs has a mutant in `PROJECT.json`: a plausible bug of the mapped operator (`Sweep` without the hash removal or the pin check, `readPage` hit without a pin, `unPinPage` overwriting the dirty bit, `flushFile` forgetting to invalidate or to evict; `insertRecord` overflowing without unpinning or without linking the new page, a slot check off by one, `scanNext` skipping the first record of a new page or not advancing within a page; `disposePage` not deallocating the page in the file; `matchRec`'s length check off by one, `startScan` without the size check or without the operator check; in `ClockSweep`, an eviction without the write-back or without `Clear()`, and a pinned frame passed without `numPinnedPages++`). Under it, TLC finds the property violated.

### Findings
1. **`allocBuf` gives up with a free frame** (`src/s3/buf.C:125`). `numPinnedPages` counts *visits* to pinned, unreferenced frames. Take frame 0 pinned with refbit 0 and frame 1 unpinned with refbit 1. The sweep counts frame 0, clears frame 1's refbit, and counts frame 0 again. `numPinnedPages = numBufs`, so `readPage` returns `BUFFEREXCEEDED`, although frame 1 could be evicted. TLC's trace has 6 steps.
2. **A failed read deletes the page** (`src/s3/buf.C:184`). On a read error `readPage` calls `BufMgr::disposePage`, which calls `file->disposePage(pageNo)`. A page that exists on disk and holds data is deallocated because one read failed.
3. **Overflow relinks the list from the wrong page** (`src/s4/heapfile.C:604`). The insert cursor starts on the first data page after open, and `getRecord` moves it anywhere. On `NOSPACE`, the new page is linked after *that* page. The pages after it, and their records, drop out of the list, while `recCnt` still counts them. TLC's trace has 6 calls: two inserts, a `getRecord` of the first record, and a third insert.
4. **Header changes never reach the disk** (`src/s4/heapfile.C:585`). `insertRecord` changes `recCnt` (and `lastPage`/`pageCnt` on overflow) without setting `hdrDirtyFlag`. The header is unpinned clean, so `~BufMgr` does not write it. Spec section 9 requires the flag.
5. **A restarted scan skips the first record** (`src/s4/heapfile.C:377`). With no cursor page, `scanNext` sets `curRec` to the first record and then asks for the record after it. Spec 4.4 describes exactly these steps, but its exhaustiveness law (section 8) requires every RID to be returned.
6. **A failed `createHeapFile` leaves the header pinned for ever** (`src/s4/heapfile.C:56`). When allocating the data page fails, the function returns without unpinning the header page it allocated. Here the failure is `allocatePage` finding the file full; a disk error or a full pool takes the same path. Nothing can unpin the frame: it is never evicted, and `flushFile` of that file returns `PAGEPINNED`.
7. **An `INTEGER` filter overflows** (`src/s4/heapfile.C:480`). `diff = iattr - ifltr` is computed in `int` and wraps when the exact difference leaves `int`. TLC's trace is `startScan(INTEGER, LT, INT_MIN)` followed by `matchRec` of an attribute 0, which returns true: `0 - INT_MIN` wraps to `INT_MIN`. In the same way, `attr < INT_MIN` accepts `INT_MAX` (wraps to -1), `attr < -1` accepts `INT_MAX` (wraps to `INT_MIN`), and `attr > INT_MAX` accepts `INT_MIN` (wraps to 1).

Seen while modelling, no longer checked by a run: **closing a file leaves its pages in the pool** (`src/s4/heapfile.C:185`). `~HeapFile` unpins its pages and calls `db.closeFile`, but the `flushFile` call before it is commented out. Spec 9 says evict-on-close is enforced by requiring `flushFile` before the file is closed. An earlier run found, in three steps (`createHeapFile`, open, close), the header and the first data page still valid frames that name the closed file. That run gave way to `clocksweep_core`, and the hazard in `PROJECT.json` records it.

Three further paths are covered by a checked property but no run reaches them:
- A failed `readPage` in `getRecord` (`src/s4/heapfile.C:243`) leaves `curPage` on the frame just unpinned. With 5 frames that read cannot fail; it needs the `allocBuf` miscount of finding 1 with 3 frames.
- A second `deleteRecord` of the same record (`src/s4/heapfile.C:442`) returns `INVALIDSLOTNO` from the page and still decrements `recCnt` (`RecCntAccurate`). It needs two scan handles that both return the record; spec 4.4 describes the same unconditional decrement.
- `resetScan` to a mark taken after `endScan` (`src/s4/heapfile.C:335`) is excluded: the runs keep `markScan` to scans with a cursor page (`MarkAnywhere = FALSE`).

## 5. Fairness

The code is single-threaded and does nothing of its own accord (spec 7: callers observe operations as atomic). Every step of `BufMgr` and `HeapFile` is a caller's call, and a caller may stop at any time. Those specifications therefore assume no fairness and state no liveness.

What must terminate are the loops inside one call: the clock sweep and the `scanNext` loop.
- **`ClockSweep`** unfolds `allocBuf`'s loop and assumes `WF_vars(Next)`. Once the call is made, the thread runs it to its return: nothing in the loop waits on anything else, and nothing else runs meanwhile. `AllocBufReturns` (`<>(pc = "done")`) is then a real check. Dropping `numPinnedPages++` turns a fully pinned pool into an endless loop, and TLC finds the lasso. The other direction holds too: with the code as it is, the loop ends from every starting state.
- **`scanNext`** stays a recursive operator with fuel. `ScanNextTerminates` checks that a scan never runs out of fuel.

## 6. Not modelled (yet)

- `destroyHeapFile` (catalog only), `getRecCnt` and the scan's `getRecord(rec)` (reads).
- `INVALIDRECLEN` and `BADSCANPARM`: records are abstract, and an invalid `startScan` changes no state.
- `matchRec` on `FLOAT` NaNs (only `NE` holds against a NaN `diff`) and byte-level record layouts: records are abstract.
- The heap-file runs abstract a filter to the set of records it accepts. `RecordFilter` checks which sets `matchRec` really accepts.
- I/O faults in the heap-file runs. With the 5 frames of `heapfile_core`, nothing of the file is ever evicted, so reads miss the pool only at open. `ReadFaults = TRUE` adds 11 states there and reaches none of the cursor paths of `src/s4/heapfile.C` 243, 335 and 403. Reaching them needs evictions, so at most 3 frames, and then the `allocBuf` miscount (finding 1) already breaks `HandlePinsMatch`.
- Closing and reopening the file keeps the same `File` identity; the `DB` open-file table is not modelled.
- The file store's free list: which page number `allocatePage` returns is left open (any unallocated page).
- `printSelf`: output only.
- Page contents: abstract versions, not bytes.
