SPECIFICATION FairSpec
CONSTANTS
  monitor = monitor
  admin = admin
  server = server
  Loops = {monitor}
  Servers = {server}
  Order <- OneServer
  Tls = TRUE
  MaxSignals = 1
PROPERTIES ShutdownBounded
CHECK_DEADLOCK FALSE
