SPECIFICATION FairSpec
CONSTANTS
  Lists <- OneList
  Sources <- OneSource
  Conf = "conf"
  Editable = {"l1", "s1", "conf"}
  QueueSize = 10
  Settings <- MCSettings
  Clients = {c1}
CHECK_DEADLOCK FALSE
INVARIANTS WatchesComplete CurrentEngineUp ShutDownOnce
PROPERTIES ChangesAreLoaded SwapReleasesLock 
