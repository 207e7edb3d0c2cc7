\* One worker that is about to sleep when the destructor notifies.
CONSTANTS
  Workers = {w1}
  Clients = {c1}
  MaxCalls = 1
  MaxSpurious = 0
  Nobody = Nobody
SPECIFICATION FairSpec
PROPERTY DestructorReturns
\* The pool stops for good when it has been destroyed.
CHECK_DEADLOCK FALSE
