--------------------------- MODULE MCTraceContext ---------------------------
(* TraceContext and GoroutineBaggage for TLC: three g structures, lists of  *)
(* at most two spans, three spans and one baggage in all.                   *)
EXTENDS GoroutineBaggage, TLC

CONSTANTS g1, g2, g3
MCGoroutine == {g1, g2, g3}

\* All but the main goroutine are alike.
Alike == Permutations({g2, g3})
=============================================================================
