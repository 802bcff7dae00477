\* The constructor, the threads and the destructor, after which nothing happens, under
\* the fairness of the scheduler.
SPECIFICATION FairSpec
CHECK_DEADLOCK FALSE
INVARIANTS
  TypeOK
  SafeUse
  HandlesValid
  NothingLeaks
PROPERTY
  ThreadsEnd
