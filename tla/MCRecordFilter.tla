--------------------------- MODULE MCRecordFilter ---------------------------
(***************************************************************************)
(* Model-checking instance of RecordFilter: the int extremes and their    *)
(* neighbours, strings that share a NUL before they differ.               *)
(***************************************************************************)
EXTENDS RecordFilter

MCOffsets    == {-1, 0, 1}
MCLengths    == {0, 2, 4}
MCRecLengths == {4, 5}
MCIntVals    == {IntMin, -1, 0, IntMax}
MCStrVals    == {<<1, 0, 1, 1>>, <<1, 0, 2, 2>>, <<1, 1, 0, 0>>, <<0, 0, 0, 0>>}

=============================================================================
