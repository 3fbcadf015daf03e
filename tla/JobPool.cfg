SPECIFICATION FairSpec
CONSTANTS
  w1 = w1
  w2 = w2
  j1 = j1
  j2 = j2
  a1 = a1
  Workers <- MCWorkers
  Jobs <- MCJobs
  AbortableJobs <- MCAbortable
  NoJob = NoJob
INVARIANTS NonAbortableComplete
PROPERTIES StartsOnce ShutdownReturns AddedEnds
