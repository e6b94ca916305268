SPECIFICATION BaggageSpec
CONSTANTS
  g1 = g1
  g2 = g2
  g3 = g3
  Goroutine <- MCGoroutine
  Main = g1
  MaxSpans = 2
  SpanBound = 3
  StoreBound = 1
SYMMETRY Alike
INVARIANTS
  HeldSound
  LocalRootIsOldest
  BaggageSound
PROPERTY Promise
