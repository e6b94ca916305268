SPECIFICATION UploadSpec
CONSTANTS
  c1 = c1
  c2 = c2
  k1 = k1
  k2 = k2
  w1 = w1
  w2 = w2
  r1 = r1
  r2 = r2
  NoRef = NoRef
  Caller <- MCCaller
  Closer <- MCCloser
  Worker <- MCWorker
  Ref <- MCRef
  QueueSize = 1
  DedupCap = 1
  CallBound = 2
CHECK_DEADLOCK FALSE
INVARIANTS
  UploadTypeOK
  NeverSendsOnClosed
  SeenSound
  DrainedMeansDone
PROPERTY Answers
