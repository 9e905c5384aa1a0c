SPECIFICATION FairSpec
CONSTANTS
  monitor = monitor
  admin = admin
  server = server
  Loops = {monitor}
  Servers = {admin, server}
  Order <- MCOrder
  Tls = FALSE
  MaxSignals = 2
INVARIANTS TypeOK ExitCode NoneLeftServing
PROPERTIES DeathStops SignalStopsUnlessStuck
CHECK_DEADLOCK FALSE
