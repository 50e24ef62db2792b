SPECIFICATION FairSpec
CONSTANTS
  craft = craft
  engage = engage
  turn = turn
  NoTx = NoTx
  Calls <- MCCalls
  Kiosk <- MCKiosk
  MaxRetries = 2
  MaxRestarts = 1
  DiskFails = TRUE
INVARIANTS
  AtMostOneAttemptSent
  RecordsHold
  KioskSerialized
PROPERTIES
  NoSendOverUnresolved
  KeepsPromise
  EveryCallAnswered
CHECK_DEADLOCK FALSE
