SPECIFICATION LogSpec
CONSTANTS
  Threads = {t1, t2}
  Main = t1
  Daemonize <- Either
  MaxMessages = 2
  ExitPoints <- Anywhere
  Worker = Worker
  Nobody = Nobody
INVARIANTS
  LogTypeOK
  WrittenInOrder
  NothingLostAtExit
PROPERTIES
  LoggedIsWritten
  ExitEnds
CHECK_DEADLOCK FALSE
