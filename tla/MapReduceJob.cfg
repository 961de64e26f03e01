\* Two workers, which serve any number of connections or quit after one; the job
\* has no reduce task, so that merge succeeds.
SPECIFICATION FairSpec
CONSTANTS
  Worker = {w1, w2}
  NRPC <- MCNRPC
  NReduce = 0
INVARIANTS TypeOK
PROPERTIES RunEnds EveryWorkerForwarded
CHECK_DEADLOCK FALSE
