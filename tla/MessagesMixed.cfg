\* Two cores.  Process 1 has no lock and hears from its own core only; 2 and 4 have theirs.
CONSTANTS
  NCORES = 2
  Procs = {1, 2, 3, 4}
  Affinity <- Cores4
  HasLock = {2, 3, 4}
  Interruptible = {4}
  Sends <- To2
  Sendnows <- Now34
  Recvs = {1, 2}
  Recvnows = {4}
  MaxMessages = 3
CHECK_DEADLOCK FALSE
SPECIFICATION Spec
INVARIANTS TypeOK NoSleepWithMessage SendersWaitForFullSlot OnePlace
PROPERTIES MailDelivered
