SPECIFICATION FairSpec
CONSTANTS
  monitor = monitor
  admin = admin
  server = server
  Loops = {monitor}
  Servers = {server}
  Order <- OneServer
  Tls = FALSE
  MaxSignals = 1
PROPERTIES SignalStops
CHECK_DEADLOCK FALSE
