----------------------------- MODULE MCBufMgr ------------------------------
(***************************************************************************)
(* Model-checking instance of BufMgr: one file, three frames, two clients. *)
(***************************************************************************)
EXTENDS BufMgr, TLC

CONSTANTS F1, c1, c2

MCFiles     == {F1}
MCClients   == {c1, c2}
MCClient    == {c1}
MCPageNos   == 1 .. 3
MCInitPages == {<<F1, 1>>, <<F1, 2>>}
MCPageNos4   == 1 .. 4
MCInitPages3 == {<<F1, 1>>, <<F1, 2>>, <<F1, 3>>}

\* The clients are interchangeable: no action or property names one.
ClientSymmetry == Permutations(MCClients)

=============================================================================
