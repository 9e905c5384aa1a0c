SPECIFICATION Spec
CONSTANTS
  None = None
  Wrong = Wrong
  alice = alice
  bob = bob
  Users = {alice, bob}
  Messages <- MCMessages
  MaxMessages = 3
INVARIANTS TypeOK RunsOwn InSync OneReplyEach
PROPERTY DatabaseReleased
CHECK_DEADLOCK FALSE
