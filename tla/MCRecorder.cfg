SPECIFICATION FairSpec
CONSTANTS
  Requests <- MCRequests
  Results <- MCResults
  QueueSize = 1
  Settings <- MCSettings
  Nil = Nil
CHECK_DEADLOCK FALSE
 
PROPERTIES QueuedIsStored EveryHandlerReturns ShutdownReturns 
