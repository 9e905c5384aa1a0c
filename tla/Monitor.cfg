SPECIFICATION FairSpec
CONSTANTS
  Ids = {i1}
  c1 = c1
  c2 = c2
  Checks = {c1, c2}
  OtherRows = {absent}
  Threads = {t1, t2}
  NoCheck = NoCheck
  NoThread = NoThread
  Fall <- MCFall
  Rise <- MCRise
  Window = 2
INVARIANTS TypeOK OneActiveThread Reconciled
PROPERTIES Debounced StatusKept EventuallyDown EventuallyUp EventuallyForgotten ShutdownCompletes
\* Once MonitorManager has stopped and every check thread has ended, nothing runs.
CHECK_DEADLOCK FALSE
