SPECIFICATION FairSpec
CONSTANTS
  Lists <- TenLists
  Sources <- NoSource
  Conf = "conf"
  Editable = {"conf"}
  QueueSize = 10
  Settings <- QuietSettings
  Clients = {}
CHECK_DEADLOCK FALSE
PROPERTY SwapReleasesLock
