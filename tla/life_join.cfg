\* Does the destructor come to its end?  After it nothing happens.
SPECIFICATION FairSpec
CHECK_DEADLOCK FALSE
PROPERTY
  DestructorEnds
