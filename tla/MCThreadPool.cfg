\* Three workers, two clients, tasks that enqueue tasks.
CONSTANTS
  Workers = {w1, w2, w3}
  Clients = {c1, c2}
  MaxCalls = 3
  MaxSpurious = 1
  Nobody = Nobody
SPECIFICATION FairSpec
INVARIANTS TasksRunOnce NoWorkerSleepsOverWork
PROPERTY AcceptedTaskRuns
\* The pool stops for good when it has been destroyed.
CHECK_DEADLOCK FALSE
