----------------------------- MODULE MCHeapFile -----------------------------
(***************************************************************************)
(* HeapFile instantiated for TLC: one heap file, one InsertFileScan and   *)
(* one HeapFileScan handle, page numbers 0 .. 4 (0 is never allocated, 1  *)
(* becomes the header, 2 .. 4 data pages).                                 *)
(***************************************************************************)
EXTENDS HeapFile

CONSTANTS I1, S1, S2

MCFiles         == {HF}
MCPageNos       == 0 .. 4
MCScanHandles   == {S1}
\* two scans over the same file, pages 0 .. 2 (one data page)
MCScanHandles2  == {S1, S2}
MCPageNos2      == 0 .. 2
\* a file with room for its header page only: the data page's allocatePage fails
MCPageNos1      == 0 .. 1
\* two slots per page: three records fill page 2 and start page 3
MCPageNos3      == 0 .. 3
MCInsertHandles == {I1}
MCEmptyPage     == ZeroPage
\* a NULL filter (every record) and an EQ filter accepting record 2
MCFilters       == {1 .. MaxRecs, {2}}

=============================================================================
