------------------------- MODULE MCCompletionUpload -------------------------
(* CompletionUpload for TLC: two of everything that can race.              *)
EXTENDS CompletionUpload

CONSTANTS c1, c2, k1, k2, w1, w2, r1, r2
MCCaller == {c1, c2}
MCCloser == {k1, k2}
MCWorker == {w1, w2}
MCRef == {r1, r2}
=============================================================================
